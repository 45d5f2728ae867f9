---------------------------- MODULE BundleSource ----------------------------
(***************************************************************************)
(* Sources of bundles (managers/source.go): directories and buckets, into  *)
(* which publish and copy put bundles and from which install, import and   *)
(* copy get them.  Commands run at once, fail and are killed anywhere.     *)
(*                                                                         *)
(* There is one bundle, in several versions.  A file of it is as many      *)
(* parts as Size, written and read one by one; its end holds the directory *)
(* of the archive.  A directory's file is rewritten in place, under those  *)
(* who have it open; an object of a bucket appears at once.                *)
(***************************************************************************)
EXTENDS Integers, Sequences

CONSTANTS Source, Kind,      \* what NewSource is asked for
          File, VersionOf,   \* the bundle files, and the version in each one's app.yaml
          Listed,            \* those that the command line lists, under their right name
          Version, Size,     \* the versions, and the parts of a file
          Command,           \* processes, each of which runs commands one after another
          Jobs,              \* which commands
          Hole, None, Latest,
          MaxStart           \* bound: commands started

ASSUME SourceAssumption ==
  /\ Kind \in [Source -> {"directory", "s3", "files", "unknown"}]
  /\ VersionOf \in [File -> Version] /\ Listed \subseteq File
  /\ Size \in Nat \ {0} /\ MaxStart \in Nat
  /\ Hole \notin File /\ None \notin Command
  /\ Version \cap {Latest, "none", "bad"} = {}
  /\ Source # {} /\ Version # {} /\ Jobs # {}
  /\ Jobs \subseteq [op: {"publish", "copy", "get"}, files: Seq(File),
                     from: Seq(Source), to: Source, refs: Seq(Version \cup {Latest})]
  /\ \A j \in Jobs : j.op # "publish" => j.from # <<>>  \* they search some source

VARIABLES
  bundle,     \* the file or object of each version in each source
  meta,       \* its metadata file: the latest version, or nothing that can be decoded
  proc,       \* the commands
  starts,
  held,       \* history: the bundles that a source held in full at some time, ever
              \* and since each command began
  had,        \* history: the sources that had what a Get is for when it began
  contested   \* history: the versions rewritten while another file operation used them

vars == <<bundle, meta, proc, starts, held, had, contested>>
history == <<held, had, contested>>

Part == File \cup {Hole}
Bundle == [there: BOOLEAN, parts: Seq(Part)]
Handle == [kind: {"none", "file", "shared"},   \* shared with all who use the source
           from: Source, v: Version, parts: Seq(Part)]
PC == {"idle", "open", "find", "fetch", "download", "put", "write", "meta", "decide",
       "ok", "notfound", "error"}
Ended == {"idle", "ok", "notfound", "error"}

Whole(f) == [i \in 1 .. Size |-> f]
NoBundle == [there |-> FALSE, parts |-> <<>>]

Set(c, r) == proc' = [proc EXCEPT ![c] = r]
Store == <<bundle, meta>>

-----------------------------------------------------------------------------
(* Open files *)

\* A *BundleFile: a local or downloaded file that nobody else writes, or a
\* directory's own.
Contents(h) == IF h.kind = "shared" THEN bundle[h.from][h.v].parts ELSE h.parts

\* NewBundleFromFile and Application: without its end a file is no archive.
ParsesAny(parts) == TRUE
Parses(parts) == Len(parts) = Size

WriteAt(parts, i, x) ==
  [j \in 1 .. (IF i > Len(parts) THEN i ELSE Len(parts)) |->
     IF j = i THEN x ELSE IF j <= Len(parts) THEN parts[j] ELSE Hole]

\* What d has open of version v of source s.
Reads(d, s, v) ==
  LET r == proc[d] IN
  \/ r.h.kind = "shared" /\ r.h.from = s /\ r.h.v = v
  \/ r.pc = "download" /\ r.job.from[r.src] = s /\ r.v = v
Writes(d, s, v) == proc[d].pc = "write" /\ proc[d].job.to = s /\ proc[d].v = v

\* Version v of source s becomes these parts; c writes them.
Write(c, s, v, parts) ==
  /\ bundle' = [bundle EXCEPT ![s][v] = [there |-> TRUE, parts |-> parts]]
  /\ held' = [k \in DOMAIN held |->
                held[k] \cup {<<s, f>> : f \in {g \in File : VersionOf[g] = v /\ parts = Whole(g)}}]
  /\ contested' = IF \/ \E d \in Command : Reads(d, s, v)
                     \/ Kind[s] = "directory" /\ \E d \in Command \ {c} : Writes(d, s, v)
                  THEN contested \cup {v} ELSE contested

-----------------------------------------------------------------------------
(* Commands *)

Items(j) == IF j.op = "publish" THEN Len(j.files) ELSE Len(j.refs)
Ref(r) == r.job.refs[r.item]

Has(s, ref) ==
  CASE Kind[s] = "files" -> \E f \in Listed : VersionOf[f] = ref
    [] ref = Latest -> meta[s] # "none"
    [] OTHER -> bundle[s][ref].there

NoHandle(r) == [r.h EXCEPT !.kind = "none", !.parts = <<>>]

\* The loops of Publish and Copy: on to the item after i.
Turn(c, r, i) ==
  LET q == [r EXCEPT !.item = i, !.src = 1, !.at = 1, !.h = NoHandle(r), !.buf = <<>>] IN
  IF i > Items(r.job) THEN Set(c, [q EXCEPT !.pc = "ok"]) /\ UNCHANGED had
  ELSE IF r.job.op = "publish" THEN Set(c, [q EXCEPT !.pc = "open"]) /\ UNCHANGED had
  ELSE /\ Set(c, [q EXCEPT !.pc = "find"])
       /\ had' = [had EXCEPT ![c] = {s \in Source : Has(s, Ref(q))}]

\* The sources whose configuration a command reads.
Configured(j) ==
  IF j.op = "publish" THEN {j.to}
  ELSE {j.from[i] : i \in DOMAIN j.from} \cup (IF j.op = "copy" THEN {j.to} ELSE {})

\* NewSource knows two types.
Unrecognized(s) == Kind[s] = "unknown"

\* publish, copyBundles, or an install or import that gets bundles.
Start(c) ==
  /\ proc[c].pc \in Ended /\ starts < MaxStart /\ starts' = starts + 1
  /\ \E j \in Jobs :
       LET r == [proc[c] EXCEPT !.job = j] IN
       IF \E s \in Configured(j) : Unrecognized(s)
         THEN Set(c, [r EXCEPT !.pc = "error", !.h = NoHandle(r)]) /\ UNCHANGED had
         ELSE Turn(c, r, 1)
  /\ held' = [held EXCEPT ![c] = {}]
  /\ UNCHANGED <<Store, contested>>

Step(c, r) == Set(c, r) /\ UNCHANGED <<Store, starts, history>>

\* Publish: NewBundleFromFile of a file that is there for it alone.
OpenLocal(c) ==
  LET r == proc[c]  f == r.job.files[r.item] IN
  /\ r.pc = "open"
  /\ Step(c, [r EXCEPT !.pc = "put", !.v = VersionOf[f],
                       !.h = [@ EXCEPT !.kind = "file", !.parts = Whole(f)]])

-----------------------------------------------------------------------------
(* Get *)

Here(r) == r.job.from[r.src]

\* The bundle file is there: a command that only gets it has ended.
Got(c, h) ==
  LET r == proc[c] IN
  Step(c, [r EXCEPT !.h = h, !.v = h.v, !.buf = <<>>, !.at = 1,
                    !.pc = IF r.job.op = "copy" THEN "put" ELSE "ok"])

Failed(c) == Step(c, [proc[c] EXCEPT !.pc = "error", !.h = NoHandle(proc[c]), !.buf = <<>>])

\* MultiSource.Get goes on to the next source after ErrNotFound only.
NotFound(c) ==
  LET r == proc[c] IN
  IF r.src < Len(r.job.from)
    THEN Step(c, [r EXCEPT !.src = @ + 1, !.pc = "find", !.buf = <<>>, !.at = 1])
    ELSE Step(c, [r EXCEPT !.pc = IF r.job.op = "copy" THEN "error" ELSE "notfound",
                           !.buf = <<>>])
GetErrorSkipped(c) == proc[c].pc \in {"open", "find", "fetch", "download"} /\ NotFound(c)
GetError(c) == proc[c].pc \in {"open", "find", "fetch", "download"} /\ Failed(c)

\* MultiFileSource.Get.
GetListed(c) ==
  LET r == proc[c] IN
  /\ r.pc = "find" /\ Kind[Here(r)] = "files"
  /\ IF Has(Here(r), Ref(r))
       THEN \E f \in Listed : VersionOf[f] = Ref(r) /\
              Got(c, [r.h EXCEPT !.kind = "file", !.v = VersionOf[f], !.parts = Whole(f)])
       ELSE NotFound(c)

\* Get of a directory or bucket: the metadata tell the latest version.
ReadMetadata(c) ==
  LET r == proc[c]  m == meta[Here(r)] IN
  /\ r.pc = "find" /\ Kind[Here(r)] \in {"directory", "s3"}
  /\ CASE Ref(r) # Latest -> Step(c, [r EXCEPT !.pc = "fetch", !.v = Ref(r)])
       [] Ref(r) = Latest /\ m = "none" -> NotFound(c)
       [] Ref(r) = Latest /\ m = "bad" -> Failed(c)
       [] OTHER -> Step(c, [r EXCEPT !.pc = "fetch", !.v = m])

\* DirectorySource.Get: a file that is missing is not ErrNotFound.
OpenShared(c) ==
  LET r == proc[c]  b == bundle[Here(r)][r.v] IN
  /\ r.pc = "fetch" /\ Kind[Here(r)] = "directory"
  /\ IF b.there /\ Parses(b.parts)
       THEN Got(c, [kind |-> "shared", from |-> Here(r), v |-> r.v, parts |-> <<>>])
       ELSE Failed(c)

\* S3Source.Get: into a file of its own, in ranges; then NewBundleFromFile.
Download(c) ==
  LET r == proc[c]  b == bundle[Here(r)][r.v] IN
  \/ /\ r.pc = "fetch" /\ Kind[Here(r)] = "s3"
     /\ IF b.there THEN Step(c, [r EXCEPT !.pc = "download"]) ELSE NotFound(c)
  \/ /\ r.pc = "download" /\ r.at <= Len(b.parts)
     /\ Step(c, [r EXCEPT !.buf = Append(@, b.parts[r.at]), !.at = @ + 1])
  \/ /\ r.pc = "download" /\ r.at > Len(b.parts)
     /\ IF Parses(r.buf) THEN Got(c, [r.h EXCEPT !.kind = "file", !.v = r.v, !.parts = r.buf])
        ELSE Failed(c)

-----------------------------------------------------------------------------
(* Put *)

\* os.Create makes the file or empties it.
Create(c) ==
  LET r == proc[c] IN
  /\ r.pc = "put" /\ Kind[r.job.to] = "directory"
  /\ Set(c, [r EXCEPT !.pc = "write", !.at = 1])
  /\ Write(c, r.job.to, r.v, <<>>)
  /\ UNCHANGED <<meta, starts, had>>

\* io.Copy of as many parts as the bundle had when it was opened; at the end of a
\* file that is shorter by now it ends without error.
CopyPart(c) ==
  LET r == proc[c]  dest == bundle[r.job.to][r.v].parts IN
  /\ r.pc = "write"
  /\ IF r.at <= Size /\ r.at <= Len(Contents(r.h))
       THEN /\ Set(c, [r EXCEPT !.at = @ + 1])
            /\ Write(c, r.job.to, r.v, WriteAt(dest, r.at, Contents(r.h)[r.at]))
            /\ UNCHANGED <<meta, starts, had>>
       ELSE Step(c, [r EXCEPT !.pc = "meta", !.at = 1])

\* The uploader sends as many bytes as were announced, or fails.
Upload(c) ==
  LET r == proc[c] IN
  /\ r.pc = "put" /\ Kind[r.job.to] = "s3"
  /\ \/ /\ r.at <= Size /\ r.at <= Len(Contents(r.h))
        /\ Step(c, [r EXCEPT !.buf = Append(@, Contents(r.h)[r.at]), !.at = @ + 1])
     \/ /\ r.at > Size
        /\ Set(c, [r EXCEPT !.pc = "meta", !.at = 1, !.buf = <<>>])
        /\ Write(c, r.job.to, r.v, r.buf)
        /\ UNCHANGED <<meta, starts, had>>

\* The metadata name this version whatever they named: at once in a bucket, in a
\* directory by emptying the file and writing it.
PutMetadataAsAsked(c) ==
  LET r == proc[c] IN
  /\ r.pc = "meta" /\ Set(c, [r EXCEPT !.pc = "decide"])
  /\ meta' = [meta EXCEPT ![r.job.to] = IF r.job.op = "copy" THEN Ref(r) ELSE r.v]
  /\ UNCHANGED <<bundle, starts, history>>
PutMetadata(c) ==
  LET r == proc[c] IN
  /\ r.pc = "meta"
  /\ IF Kind[r.job.to] = "directory" /\ r.at = 1
       THEN meta' = [meta EXCEPT ![r.job.to] = "bad"] /\ Set(c, [r EXCEPT !.at = 2])
       ELSE meta' = [meta EXCEPT ![r.job.to] = r.v] /\ Set(c, [r EXCEPT !.pc = "decide"])
  /\ UNCHANGED <<bundle, starts, history>>

\* Put is done; the bundle file is closed.
Continue(c) ==
  /\ Turn(c, proc[c], proc[c].item + 1)
  /\ UNCHANGED <<Store, starts, held, contested>>
PutDone(c) == proc[c].pc = "decide" /\ Continue(c)

\* An error of Put ends Publish; Copy logs it.
PutErrorDropped(c) ==
  proc[c].pc \in {"put", "write"} /\ Step(c, [proc[c] EXCEPT !.pc = "meta", !.at = 1])
PutErrorLogged(c) == proc[c].pc \in {"put", "write", "meta"} /\ Continue(c)
PutError(c) ==
  /\ proc[c].pc \in {"put", "write", "meta"}
  /\ IF proc[c].job.op = "copy" THEN Continue(c) ELSE Failed(c)

\* The process is killed: what it wrote stays.
Kill(c) ==
  /\ proc[c].pc \notin Ended
  /\ Step(c, [proc[c] EXCEPT !.pc = "idle", !.h = NoHandle(proc[c]), !.buf = <<>>])

NoCommand ==
  [pc |-> "idle", job |-> CHOOSE j \in Jobs : TRUE, item |-> 1, src |-> 1,
   v |-> CHOOSE v \in Version : TRUE, at |-> 1, buf |-> <<>>,
   h |-> [kind |-> "none", from |-> CHOOSE s \in Source : TRUE,
          v |-> CHOOSE v \in Version : TRUE, parts |-> <<>>]]

Init ==
  /\ bundle = [s \in Source |-> [v \in Version |-> NoBundle]]
  /\ meta = [s \in Source |-> "none"] /\ starts = 0
  /\ proc = [c \in Command |-> NoCommand]
  /\ held = [k \in Command \cup {None} |-> {}] /\ had = [c \in Command |-> {}]
  /\ contested = {}

Next ==
  \E c \in Command :
    \/ Start(c) \/ OpenLocal(c) \/ GetListed(c) \/ ReadMetadata(c) \/ OpenShared(c)
    \/ Download(c) \/ Create(c) \/ CopyPart(c) \/ Upload(c) \/ PutMetadata(c)
    \/ PutDone(c) \/ GetError(c) \/ PutError(c) \/ Kill(c)

Spec == Init /\ [][Next]_vars

-----------------------------------------------------------------------------
(* Properties *)

Proc == [pc: PC, job: Jobs, item: Nat, src: Nat, v: Version, at: Nat,
         buf: Seq(Part), h: Handle]

TypeOK ==
  /\ bundle \in [Source -> [Version -> Bundle]]
  /\ meta \in [Source -> Version \cup {"none", "bad"}]
  /\ proc \in [Command -> Proc] /\ starts \in 0 .. MaxStart
  /\ held \in [Command \cup {None} -> SUBSET (Source \X File)]
  /\ had \in [Command -> SUBSET Source] /\ contested \subseteq Version

WholeOf(parts, v) == \E f \in File : VersionOf[f] = v /\ parts = Whole(f)

\* Whatever fails or is killed, and whoever publishes at once: the latest version
\* that the metadata name was held in full, and in a bucket still is.
LatestEarned ==
  \A s \in Source : meta[s] \in Version \ contested =>
    /\ \E f \in File : VersionOf[f] = meta[s] /\ <<s, f>> \in held[None]
    /\ Kind[s] = "s3" => WholeOf(bundle[s][meta[s]].parts, meta[s])

\* A publish that succeeds has put each of its files, whole, in its source.
PublishSound ==
  \A c \in Command : LET r == proc[c] IN
    r.pc = "ok" /\ r.job.op = "publish" =>
      \A i \in DOMAIN r.job.files :
        VersionOf[r.job.files[i]] \notin contested => <<r.job.to, r.job.files[i]>> \in held[c]

\* What a Get returned is, for as long as it is open, a whole bundle of the version it
\* is named for, however many publications were interrupted before.
GetWhole ==
  \A c \in Command : LET r == proc[c] IN
    r.h.kind # "none" /\ r.v \notin contested => WholeOf(Contents(r.h), r.v)

\* MultiSource "searches multiple sources for the first match": no source before
\* the one that a bundle came from had it when the search began, and if none was
\* found then no source had it.
FirstMatch ==
  \A c \in Command : LET r == proc[c] IN
    r.job.op = "get" =>
      /\ r.pc = "ok" => \A i \in 1 .. (r.src - 1) : r.job.from[i] \notin had[c]
      /\ r.pc = "notfound" => \A i \in DOMAIN r.job.from : r.job.from[i] \notin had[c]
=============================================================================
