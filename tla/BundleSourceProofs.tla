------------------------- MODULE BundleSourceProofs -------------------------
(***************************************************************************)
(* What BundleSource promises, proved for any sources, files, versions and *)
(* commands.  The inductive invariant relates each command to the store:   *)
(* as long as a version is not contested, what a command has open is       *)
(* whole, what it has written or read is the beginning of what it writes   *)
(* or reads, and a file that is as long as a bundle is one.                *)
(***************************************************************************)
EXTENDS BundleSource, TLAPS

-----------------------------------------------------------------------------
(* The invariant; b, m, k, g and x are bundle, meta, held, had[c] and        *)
(* contested.                                                                *)

Open(h, b) == IF h.kind = "shared" THEN b[h.from][h.v].parts ELSE h.parts

\* The beginning of a bundle of version v.
Begins(parts, v) ==
  /\ Len(parts) <= Size
  /\ Len(parts) # 0 => \E f \in File : VersionOf[f] = v /\ \A i \in 1 .. Len(parts) : parts[i] = f

Earned(s, v, k) == \E f \in File : VersionOf[f] = v /\ <<s, f>> \in k

\* Version v of source s.
Stored(s, v, b, x) ==
  /\ ~b[s][v].there => b[s][v].parts = <<>>
  /\ v \notin x => Begins(b[s][v].parts, v)
  /\ v \notin x /\ Kind[s] = "s3" /\ b[s][v].there => Len(b[s][v].parts) = Size

Named(s, b, m, k, x) ==
  m[s] \in Version =>
    /\ b[s][m[s]].there
    /\ m[s] \notin x => Earned(s, m[s], k[None])

\* What a command's steps leave of its record, whatever the store is.
Shape(r) ==
  /\ r.at >= 1 /\ r.item >= 1 /\ r.src >= 1
  /\ r.pc \in {"open", "find", "fetch", "download"} => r.h.kind = "none"
  /\ r.pc \in {"put", "write", "meta", "decide"} => r.h.kind # "none" /\ r.job.op # "get"
  /\ r.pc = "open" => r.job.op = "publish" /\ r.at = 1 /\ r.buf = <<>>
  /\ r.pc \in {"find", "fetch", "download"} =>
       r.job.op # "publish" /\ r.item \in DOMAIN r.job.refs /\ r.src \in DOMAIN r.job.from
  /\ r.pc = "find" => r.at = 1 /\ r.buf = <<>>
  /\ r.pc = "fetch" => Kind[Here(r)] \in {"directory", "s3"} /\ r.at = 1 /\ r.buf = <<>>
  /\ r.pc = "download" => Kind[Here(r)] = "s3"
  /\ r.pc = "write" => Kind[r.job.to] = "directory"
  /\ r.h.kind = "shared" => r.h.v = r.v
  /\ r.job.op = "publish" /\ r.pc \in {"open", "put", "write", "meta", "decide"} =>
       r.item \in DOMAIN r.job.files
  /\ r.job.op = "publish" /\ r.pc \in {"put", "write", "meta", "decide"} =>
       /\ r.h.kind = "file" /\ r.h.parts = Whole(r.job.files[r.item])
       /\ r.v = VersionOf[r.job.files[r.item]]

\* The first parts of a sequence, as many as were moved.
Moved(to, from, at) ==
  Len(to) = at - 1 /\ at - 1 <= Len(from) /\ \A i \in 1 .. (at - 1) : to[i] = from[i]

Transfers(r, b, x) ==
  r.v \notin x =>
    /\ r.h.kind # "none" => WholeOf(Open(r.h, b), r.v)
    /\ r.pc = "put" => Moved(r.buf, Open(r.h, b), r.at)
    /\ r.pc = "write" => Moved(b[r.job.to][r.v].parts, Open(r.h, b), r.at)
    /\ r.pc = "download" => Moved(r.buf, b[Here(r)][r.v].parts, r.at)

\* What a put has brought to its source.
Puts(c, r, b, k, x) ==
  /\ r.pc \in {"write", "meta", "decide"} => b[r.job.to][r.v].there
  /\ r.v \notin x /\ (r.pc \in {"meta", "decide"} \/ (r.pc = "write" /\ r.at > Size)) =>
       /\ Earned(r.job.to, r.v, k[None])
       /\ r.job.op = "publish" => <<r.job.to, r.job.files[r.item]>> \in k[c]
  /\ r.job.op = "publish" =>
       \A i \in DOMAIN r.job.files :
         /\ VersionOf[r.job.files[i]] \notin x
         /\ \/ r.pc = "ok"
            \/ r.pc \in {"open", "put", "write", "meta", "decide"} /\ i < r.item
         => <<r.job.to, r.job.files[i]>> \in k[c]

HasIn(s, ref, b, m) ==
  CASE Kind[s] = "files" -> \E f \in Listed : VersionOf[f] = ref
    [] ref = Latest -> m[s] # "none"
    [] OTHER -> b[s][ref].there

\* The sources that were passed by, of those that had the bundle.
Searches(r, b, m, g) ==
  r.job.op = "get" =>
    /\ r.pc \in {"find", "fetch", "download", "ok"} => \A i \in 1 .. (r.src - 1) : r.job.from[i] \notin g
    /\ r.pc \in {"find", "fetch", "download"} => \A s \in g : HasIn(s, Ref(r), b, m)
    /\ r.pc = "notfound" => \A i \in DOMAIN r.job.from : r.job.from[i] \notin g
    /\ r.pc = "fetch" => IF Ref(r) = Latest THEN b[Here(r)][r.v].there ELSE r.v = Ref(r)

StoreSound(b, m, k, x) ==
  /\ \A s \in Source, v \in Version : Stored(s, v, b, x)
  /\ \A s \in Source : Named(s, b, m, k, x)

Sound(c, r, b, m, k, g, x) ==
  /\ r \in Proc /\ Shape(r) /\ Transfers(r, b, x) /\ Puts(c, r, b, k, x)
  /\ Searches(r, b, m, g)

IInv ==
  /\ TypeOK /\ StoreSound(bundle, meta, held, contested)
  /\ \A c \in Command : Sound(c, proc[c], bundle, meta, held, had[c], contested)

-----------------------------------------------------------------------------
(* Sequences of parts *)

LEMMA WholeParts ==
  ASSUME NEW f \in File
  PROVE  /\ Whole(f) \in Seq(Part) /\ Len(Whole(f)) = Size
         /\ \A i \in 1 .. Size : Whole(f)[i] = f
  BY SourceAssumption DEF Whole, Part

\* A file as long as a bundle is one.
LEMMA LongIsWhole ==
  ASSUME NEW parts \in Seq(Part), NEW v \in Version, Begins(parts, v), Len(parts) = Size
  PROVE  WholeOf(parts, v)
  <1>1. PICK f \in File : VersionOf[f] = v /\ \A i \in 1 .. Len(parts) : parts[i] = f
    BY SourceAssumption DEF Begins
  <1>2. parts = Whole(f)
    BY <1>1, SourceAssumption DEF Whole
  <1>3. QED
    BY <1>1, <1>2 DEF WholeOf

LEMMA WholeBegins ==
  ASSUME NEW parts, NEW v, WholeOf(parts, v)
  PROVE  parts \in Seq(Part) /\ Len(parts) = Size /\ Begins(parts, v)
  <1>1. PICK f \in File : VersionOf[f] = v /\ parts = Whole(f)
    BY DEF WholeOf
  <1>2. QED
    BY <1>1, WholeParts, SourceAssumption DEF Begins

\* All parts of a whole bundle were moved.
LEMMA MovedNothing ==
  ASSUME NEW from \in Seq(Part)
  PROVE  Moved(<<>>, from, 1)
  BY DEF Moved

LEMMA MovedAll ==
  ASSUME NEW to \in Seq(Part), NEW from \in Seq(Part), NEW at \in Nat, Moved(to, from, at),
         at > Len(from)
  PROVE  to = from
  <1>1. at - 1 = Len(from)
    BY DEF Moved
  <1>2. QED
    BY <1>1 DEF Moved

\* One more part.
LEMMA MoveOne ==
  ASSUME NEW to \in Seq(Part), NEW from \in Seq(Part), NEW at \in Nat \ {0}, Moved(to, from, at),
         at <= Len(from)
  PROVE  /\ WriteAt(to, at, from[at]) = Append(to, from[at])
         /\ Append(to, from[at]) \in Seq(Part)
         /\ Moved(Append(to, from[at]), from, at + 1)
  <1>1. Len(to) = at - 1
    BY DEF Moved
  <1>2. from[at] \in Part
    OBVIOUS
  <1>3. Append(to, from[at]) \in Seq(Part) /\ Len(Append(to, from[at])) = at
    BY <1>1, <1>2
  <1>4. WriteAt(to, at, from[at]) = Append(to, from[at])
    BY <1>1, <1>2 DEF WriteAt
  <1>5. Moved(Append(to, from[at]), from, at + 1)
    BY <1>1, <1>3 DEF Moved
  <1>6. QED
    BY <1>3, <1>4, <1>5

\* A hole may come about, of a version that is contested.
LEMMA WriteAtTyped ==
  ASSUME NEW to \in Seq(Part), NEW at \in Nat \ {0}, NEW x \in Part
  PROVE  WriteAt(to, at, x) \in Seq(Part)
  <1> DEFINE n == IF at > Len(to) THEN at ELSE Len(to)
  <1>1. n \in Nat
    OBVIOUS
  <1>2. Hole \in Part
    BY DEF Part
  <1>3. \A j \in 1 .. n : (IF j = at THEN x ELSE IF j <= Len(to) THEN to[j] ELSE Hole) \in Part
    BY <1>2
  <1>4. QED
    BY <1>1, <1>3 DEF WriteAt

-----------------------------------------------------------------------------
(* What the invariant implies *)

LEMMA InvLatestEarned == IInv => LatestEarned
  <1> SUFFICES ASSUME IInv, NEW s \in Source, meta[s] \in Version \ contested
               PROVE  /\ \E f \in File : VersionOf[f] = meta[s] /\ <<s, f>> \in held[None]
                      /\ Kind[s] = "s3" => WholeOf(bundle[s][meta[s]].parts, meta[s])
    BY DEF LatestEarned
  <1>1. Named(s, bundle, meta, held, contested) /\ Stored(s, meta[s], bundle, contested)
    BY DEF IInv, StoreSound
  <1>2. bundle[s][meta[s]].parts \in Seq(Part)
    BY DEF IInv, TypeOK, Bundle
  <1>3. QED
    BY <1>1, <1>2, LongIsWhole DEF Named, Stored, Earned

LEMMA InvPublishSound == IInv => PublishSound
  BY DEF IInv, Sound, Puts, PublishSound

LEMMA InvGetWhole == IInv => GetWhole
  BY DEF IInv, Sound, Transfers, GetWhole, Open, Contents

LEMMA InvFirstMatch == IInv => FirstMatch
  BY DEF IInv, Sound, Searches, FirstMatch

-----------------------------------------------------------------------------
(* Steps that change one command's record only, and writes *)

LEMMA StepInv ==
  ASSUME IInv, NEW c \in Command, NEW r, Step(c, r),
         Sound(c, r, bundle, meta, held, had[c], contested)
  PROVE  IInv'
  <1>1. /\ bundle' = bundle /\ meta' = meta /\ held' = held /\ had' = had
        /\ contested' = contested /\ starts' = starts /\ proc' = [proc EXCEPT ![c] = r]
    BY DEF Step, Set, Store, history
  <1>2. TypeOK'
    BY <1>1 DEF IInv, TypeOK, Sound
  <1>3. StoreSound(bundle, meta, held, contested)'
    BY <1>1 DEF IInv
  <1>4. ASSUME NEW d \in Command
        PROVE  Sound(d, proc'[d], bundle', meta', held', had'[d], contested')
    <2>1. CASE d = c
      <3>1. proc'[d] = r
        BY <1>1, <2>1 DEF IInv, TypeOK
      <3>2. QED
        BY <3>1, <2>1, <1>1
    <2>2. CASE d # c
      <3>1. proc'[d] = proc[d]
        BY <1>1, <2>2 DEF IInv, TypeOK
      <3>2. QED
        BY <3>1, <1>1 DEF IInv
    <2>3. QED
      BY <2>1, <2>2
  <1>5. QED
    BY <1>2, <1>3, <1>4 DEF IInv

Keys == Command \cup {None}

\* What a write does to the store and tells of the others.
Written(c, s, v, parts) ==
  /\ bundle' \in [Source -> [Version -> Bundle]]
  /\ bundle'[s][v] = [there |-> TRUE, parts |-> parts]
  /\ \A t \in Source, w \in Version : t # s \/ w # v => bundle'[t][w] = bundle[t][w]
  /\ held' \in [Keys -> SUBSET (Source \X File)]
  /\ \A k \in Keys : held[k] \subseteq held'[k]
  /\ \A f \in File, k \in Keys : VersionOf[f] = v /\ parts = Whole(f) => <<s, f>> \in held'[k]
  /\ contested \subseteq contested' /\ contested' \subseteq Version
  /\ v \notin contested' =>
       /\ \A d \in Command : ~Reads(d, s, v)
       /\ Kind[s] = "directory" => \A d \in Command \ {c} : ~Writes(d, s, v)

LEMMA WriteFacts ==
  ASSUME TypeOK, NEW c \in Command, NEW s \in Source, NEW v \in Version, NEW parts \in Seq(Part),
         Write(c, s, v, parts)
  PROVE  Written(c, s, v, parts)
  <1>1. [there |-> TRUE, parts |-> parts] \in Bundle
    BY DEF Bundle
  <1>2. /\ bundle' \in [Source -> [Version -> Bundle]]
        /\ bundle'[s][v] = [there |-> TRUE, parts |-> parts]
        /\ \A t \in Source, w \in Version : t # s \/ w # v => bundle'[t][w] = bundle[t][w]
    BY <1>1 DEF TypeOK, Write
  <1>3. DOMAIN held = Keys /\ \A k \in Keys : held[k] \in SUBSET (Source \X File)
    BY DEF TypeOK, Keys
  <1>4. \A k \in Keys : held'[k] = held[k] \cup
          {<<s, f>> : f \in {g \in File : VersionOf[g] = v /\ parts = Whole(g)}}
    BY <1>3 DEF Write
  <1>5. held' \in [Keys -> SUBSET (Source \X File)]
    <2>1. held' = [k \in Keys |-> held'[k]]
      BY <1>3 DEF Write
    <2>2. \A k \in Keys : held'[k] \in SUBSET (Source \X File)
      BY <1>3, <1>4
    <2>3. QED
      BY <2>1, <2>2
  <1>6. /\ contested \subseteq contested' /\ contested' \subseteq Version
        /\ v \notin contested' =>
              /\ \A d \in Command : ~Reads(d, s, v)
              /\ Kind[s] = "directory" => \A d \in Command \ {c} : ~Writes(d, s, v)
    BY DEF TypeOK, Write
  <1>7. QED
    BY <1>2, <1>4, <1>5, <1>6 DEF Written

\* A write keeps the rest of the store sound, ...
LEMMA WriteStore ==
  ASSUME IInv, NEW c \in Command, NEW s \in Source, NEW v \in Version, NEW parts \in Seq(Part),
         Write(c, s, v, parts), v \notin contested' => Begins(parts, v),
         v \notin contested' /\ Kind[s] = "s3" => Len(parts) = Size
  PROVE  StoreSound(bundle', meta, held', contested')
  <1>1. StoreSound(bundle, meta, held, contested) /\ Written(c, s, v, parts)
    BY WriteFacts DEF IInv
  <1>2. ASSUME NEW t \in Source, NEW w \in Version
        PROVE  Stored(t, w, bundle', contested')
    <2>1. CASE t = s /\ w = v
      BY <2>1, <1>1 DEF Written, Stored
    <2>2. CASE t # s \/ w # v
      <3>1. bundle'[t][w] = bundle[t][w] /\ contested \subseteq contested'
        BY <2>2, <1>1 DEF Written
      <3>2. Stored(t, w, bundle, contested)
        BY <1>1 DEF StoreSound
      <3>3. QED
        BY <3>1, <3>2 DEF Stored
    <2>3. QED
      BY <2>1, <2>2
  <1>3. ASSUME NEW t \in Source
        PROVE  Named(t, bundle', meta, held', contested')
    <2>1. Named(t, bundle, meta, held, contested)
      BY <1>1 DEF StoreSound
    <2>2. /\ bundle'[s][v].there /\ contested \subseteq contested' /\ held[None] \subseteq held'[None]
          /\ \A w \in Version : t # s \/ w # v => bundle'[t][w] = bundle[t][w]
      BY <1>1 DEF Written, Keys
    <2>3. QED
      BY <2>1, <2>2 DEF Named, Earned
  <1>4. QED
    BY <1>2, <1>3 DEF StoreSound

\* ... and the other commands.
LEMMA WriteOthers ==
  ASSUME IInv, NEW c \in Command, NEW s \in Source, NEW v \in Version, NEW parts \in Seq(Part),
         Write(c, s, v, parts), NEW d \in Command \ {c}
  PROVE  Sound(d, proc[d], bundle', meta, held', had[d], contested')
  <1> DEFINE r == proc[d]
  <1>1. /\ TypeOK /\ Sound(d, r, bundle, meta, held, had[d], contested)
        /\ Written(c, s, v, parts)
    BY WriteFacts DEF IInv
  <1>2. r \in Proc /\ Shape(r)
    BY <1>1 DEF Sound
  <1>3. /\ bundle'[s][v].there /\ contested \subseteq contested'
        /\ held[None] \subseteq held'[None] /\ held[d] \subseteq held'[d]
        /\ \A t \in Source, w \in Version : t # s \/ w # v => bundle'[t][w] = bundle[t][w]
        /\ v \notin contested' =>
             ~Reads(d, s, v) /\ (Kind[s] = "directory" => ~Writes(d, s, v))
    BY <1>1 DEF Written, Keys
  <1>4. r.v \in Version /\ r.h \in Handle /\ r.job \in Jobs
    BY <1>2 DEF Proc
  <1>5. r.h.from \in Source /\ r.h.v \in Version /\ r.job.to \in Source
    BY <1>4, SourceAssumption DEF Handle
  <1>6. r.pc \in {"find", "fetch", "download"} => Here(r) \in Source
    <2>1. r.job.from \in Seq(Source)
      BY <1>4, SourceAssumption
    <2>2. r.pc \in {"find", "fetch", "download"} => r.src \in DOMAIN r.job.from
      BY <1>2 DEF Shape
    <2>3. QED
      BY <2>1, <2>2 DEF Here
  <1>7. Transfers(r, bundle', contested')
    <2> SUFFICES ASSUME r.v \notin contested'
                 PROVE  /\ r.h.kind # "none" => WholeOf(Open(r.h, bundle'), r.v)
                        /\ r.pc = "put" => Moved(r.buf, Open(r.h, bundle'), r.at)
                        /\ r.pc = "write" => Moved(bundle'[r.job.to][r.v].parts, Open(r.h, bundle'), r.at)
                        /\ r.pc = "download" => Moved(r.buf, bundle'[Here(r)][r.v].parts, r.at)
      BY DEF Transfers
    <2>1. Transfers(r, bundle, contested) /\ r.v \notin contested
      BY <1>1, <1>3 DEF Sound
    <2>2. Open(r.h, bundle') = Open(r.h, bundle)
      <3>1. r.h.kind = "shared" => r.h.v = r.v
        BY <1>2 DEF Shape
      <3>2. r.h.kind = "shared" => bundle'[r.h.from][r.h.v] = bundle[r.h.from][r.h.v]
        BY <1>3, <1>5, <3>1 DEF Reads
      <3>3. QED
        BY <3>2 DEF Open
    <2>3. r.pc = "write" => bundle'[r.job.to][r.v] = bundle[r.job.to][r.v]
      BY <1>2, <1>3, <1>4, <1>5 DEF Shape, Writes
    <2>4. r.pc = "download" => bundle'[Here(r)][r.v] = bundle[Here(r)][r.v]
      BY <1>3, <1>4, <1>6 DEF Here, Reads
    <2>5. QED
      BY <2>1, <2>2, <2>3, <2>4 DEF Transfers
  <1>8. Puts(d, r, bundle', held', contested')
    <2>1. Puts(d, r, bundle, held, contested)
      BY <1>1 DEF Sound
    <2>2. bundle[r.job.to][r.v].there => bundle'[r.job.to][r.v].there
      BY <1>3, <1>4, <1>5
    <2>3. QED
      BY <2>1, <2>2, <1>3 DEF Puts, Earned
  <1>9. Searches(r, bundle', meta, had[d])
    <2>1. Searches(r, bundle, meta, had[d]) /\ had[d] \subseteq Source
      BY <1>1 DEF Sound, TypeOK
    <2>2. \A t \in Source, w \in Version : bundle[t][w].there => bundle'[t][w].there
      BY <1>3
    <2>3. r.job.op = "get" /\ r.pc \in {"find", "fetch", "download"} =>
            Ref(r) \in Version \cup {Latest}
      BY <1>2, <1>4, SourceAssumption DEF Shape, Ref
    <2>4. ASSUME NEW t \in Source, NEW ref \in Version \cup {Latest}, HasIn(t, ref, bundle, meta)
          PROVE  HasIn(t, ref, bundle', meta)
      BY <2>2, <2>4 DEF HasIn
    <2>5. r.pc = "fetch" => (bundle[Here(r)][r.v].there => bundle'[Here(r)][r.v].there)
      BY <2>2, <1>4, <1>6
    <2>6. QED
      BY <2>1, <2>3, <2>4, <2>5 DEF Searches
  <1>10. QED
    BY <1>2, <1>7, <1>8, <1>9 DEF Sound

LEMMA WriteInv ==
  ASSUME IInv, NEW c \in Command, NEW s \in Source, NEW v \in Version, NEW parts \in Seq(Part),
         Write(c, s, v, parts), v \notin contested' => Begins(parts, v),
         v \notin contested' /\ Kind[s] = "s3" => Len(parts) = Size,
         NEW r, Set(c, r), UNCHANGED <<meta, starts, had>>,
         Sound(c, r, bundle', meta, held', had[c], contested')
  PROVE  IInv'
  <1>1. TypeOK
    BY DEF IInv
  <1>2. TypeOK'
    <2>1. /\ bundle' \in [Source -> [Version -> Bundle]] /\ contested' \subseteq Version
          /\ held' \in [Command \cup {None} -> SUBSET (Source \X File)]
      <3>1. Written(c, s, v, parts)
        BY <1>1, WriteFacts
      <3>2. QED
        BY <3>1 DEF Written, Keys
    <2>2. proc' \in [Command -> Proc]
      BY <1>1 DEF TypeOK, Set, Sound
    <2>3. QED
      BY <1>1, <2>1, <2>2 DEF TypeOK
  <1>3. StoreSound(bundle', meta', held', contested')
    BY WriteStore
  <1>4. ASSUME NEW d \in Command
        PROVE  Sound(d, proc'[d], bundle', meta', held', had'[d], contested')
    <2>1. CASE d = c
      BY <2>1, <1>1 DEF TypeOK, Set
    <2>2. CASE d # c
      BY <2>2, <1>1, WriteOthers DEF TypeOK, Set
    <2>3. QED
      BY <2>1, <2>2
  <1>5. QED
    BY <1>2, <1>3, <1>4 DEF IInv

\* A step to another item or another command.
LEMMA RecordInv ==
  ASSUME IInv, NEW c \in Command, NEW r, Set(c, r), UNCHANGED <<Store, contested>>,
         starts' \in 0 .. MaxStart,
         held' \in [Keys -> SUBSET (Source \X File)], \A k \in Keys \ {c} : held'[k] = held[k],
         had' \in [Command -> SUBSET Source], \A d \in Command \ {c} : had'[d] = had[d],
         Sound(c, r, bundle, meta, held', had'[c], contested)
  PROVE  IInv'
  <1>1. TypeOK /\ bundle' = bundle /\ meta' = meta /\ contested' = contested
    BY DEF IInv, Store
  <1>2. proc' \in [Command -> Proc]
    BY <1>1 DEF TypeOK, Set, Sound
  <1>3. TypeOK'
    BY <1>1, <1>2 DEF TypeOK, Keys
  <1>4. held'[None] = held[None]
    BY SourceAssumption DEF Keys
  <1>5. StoreSound(bundle, meta, held', contested)
    BY <1>4 DEF IInv, StoreSound, Named
  <1>6. ASSUME NEW d \in Command
        PROVE  Sound(d, proc'[d], bundle, meta, held', had'[d], contested)
    <2>1. CASE d = c
      BY <2>1, <1>1 DEF TypeOK, Set
    <2>2. CASE d # c
      <3>1. Sound(d, proc[d], bundle, meta, held, had[d], contested)
        BY DEF IInv
      <3>2. proc'[d] = proc[d] /\ had'[d] = had[d] /\ held'[d] = held[d]
        BY <2>2, <1>1 DEF TypeOK, Set, Keys
      <3>3. Puts(d, proc[d], bundle, held', contested)
        BY <3>1, <3>2, <1>4 DEF Sound, Puts
      <3>4. QED
        BY <3>1, <3>2, <3>3 DEF Sound
    <2>3. QED
      BY <2>1, <2>2
  <1>7. QED
    BY <1>1, <1>3, <1>5, <1>6 DEF IInv

LEMMA NoHandleOpen ==
  ASSUME NEW r, r.h \in Handle
  PROVE  NoHandle(r) \in Handle /\ NoHandle(r).kind = "none"
  <1> DEFINE none == <<>>
  <1>1. none \in Seq(Part)
    OBVIOUS
  <1> HIDE DEF none
  <1>2. NoHandle(r) = [r.h EXCEPT !.kind = "none", !.parts = none]
    BY DEF NoHandle, none
  <1>3. QED
    BY <1>1, <1>2 DEF Handle

\* The files before the i-th are in their source.
PutBefore(r, i, k) ==
  r.job.op = "publish" =>
    \A n \in DOMAIN r.job.files :
      n < i /\ VersionOf[r.job.files[n]] \notin contested => <<r.job.to, r.job.files[n]>> \in k

LEMMA TurnInv ==
  ASSUME IInv, NEW c \in Command, NEW r \in Proc, NEW i \in Nat \ {0}, Turn(c, r, i),
         UNCHANGED <<Store, contested>>, starts' \in 0 .. MaxStart,
         held' \in [Keys -> SUBSET (Source \X File)], \A k \in Keys \ {c} : held'[k] = held[k],
         PutBefore(r, i, held'[c])
  PROVE  IInv'
  <1> DEFINE q == [r EXCEPT !.item = i, !.src = 1, !.at = 1, !.h = NoHandle(r), !.buf = <<>>]
  <1>1. TypeOK /\ r.job \in Jobs /\ r.h \in Handle
    BY DEF IInv, Proc
  <1>2. /\ r.job.files \in Seq(File) /\ r.job.from \in Seq(Source) /\ r.job.to \in Source
        /\ r.job.refs \in Seq(Version \cup {Latest}) /\ r.job.op \in {"publish", "copy", "get"}
        /\ r.job.op # "publish" => r.job.from # <<>>
    BY <1>1, SourceAssumption
  <1>3. NoHandle(r) \in Handle /\ NoHandle(r).kind = "none"
    BY <1>1, NoHandleOpen DEF Proc
  <1>4. q \in Proc /\ q.job = r.job /\ q.item = i /\ q.src = 1 /\ q.at = 1 /\ q.buf = <<>>
        /\ q.h.kind = "none"
    <2> DEFINE none == <<>>
               h == NoHandle(r)
    <2>1. none \in Seq(Part) /\ h \in Handle /\ h.kind = "none"
      BY <1>3
    <2>2. q = [r EXCEPT !.item = i, !.src = 1, !.at = 1, !.h = h, !.buf = none] /\ none = <<>>
      OBVIOUS
    <2> HIDE DEF none, h, q
    <2>3. QED
      BY <2>1, <2>2 DEF Proc
  <1>5. CASE i > Items(r.job)
    <2> DEFINE e == [q EXCEPT !.pc = "ok"]
    <2>1. Set(c, e) /\ had' = had
      BY <1>5 DEF Turn
    <2>2. e \in Proc /\ e.pc = "ok" /\ e.job = r.job /\ e.item = i /\ e.src = 1 /\ e.at = 1
          /\ e.h.kind = "none"
      BY <1>4 DEF Proc, PC
    <2> HIDE DEF e
    <2>3. Shape(e) /\ Transfers(e, bundle, contested) /\ Searches(e, bundle, meta, had'[c])
      BY <2>2 DEF Shape, Transfers, Searches
    <2>4. Puts(c, e, bundle, held', contested)
      <3>1. r.job.op = "publish" => \A n \in DOMAIN r.job.files : n < i
        BY <1>2, <1>5 DEF Items
      <3>2. QED
        BY <2>2, <3>1 DEF Puts, PutBefore
    <2>5. QED
      BY <2>1, <2>2, <2>3, <2>4, <1>1, RecordInv DEF Sound, TypeOK
  <1>6. CASE i <= Items(r.job) /\ r.job.op = "publish"
    <2> DEFINE e == [q EXCEPT !.pc = "open"]
    <2>1. Set(c, e) /\ had' = had
      BY <1>6, <1>2 DEF Turn, Items
    <2>2. e \in Proc /\ e.pc = "open" /\ e.job = r.job /\ e.item = i /\ e.src = 1 /\ e.at = 1
          /\ e.h.kind = "none" /\ e.buf = <<>>
      BY <1>4 DEF Proc, PC
    <2> HIDE DEF e
    <2>3. Shape(e) /\ Transfers(e, bundle, contested) /\ Searches(e, bundle, meta, had'[c])
      BY <2>2, <1>2, <1>6 DEF Shape, Transfers, Searches, Items
    <2>4. Puts(c, e, bundle, held', contested)
      BY <2>2, <1>2, <1>6 DEF Puts, PutBefore, Items
    <2>5. QED
      BY <2>1, <2>2, <2>3, <2>4, <1>1, RecordInv DEF Sound, TypeOK
  <1>7. CASE i <= Items(r.job) /\ r.job.op # "publish"
    <2> DEFINE e == [q EXCEPT !.pc = "find"]
    <2>1. Set(c, e) /\ had' = [had EXCEPT ![c] = {s \in Source : Has(s, Ref(q))}]
      BY <1>7, <1>2 DEF Turn, Items
    <2>2. e \in Proc /\ e.pc = "find" /\ e.job = r.job /\ e.item = i /\ e.src = 1 /\ e.at = 1
          /\ e.h.kind = "none" /\ e.buf = <<>> /\ Ref(e) = Ref(q)
      BY <1>4 DEF Proc, PC, Ref
    <2> HIDE DEF e, q
    <2>3. had' \in [Command -> SUBSET Source] /\ (\A d \in Command \ {c} : had'[d] = had[d])
          /\ had'[c] = {s \in Source : Has(s, Ref(e))}
      BY <2>1, <2>2, <1>1 DEF TypeOK
    <2>4. Shape(e) /\ Transfers(e, bundle, contested)
      BY <2>2, <1>2, <1>7 DEF Shape, Transfers, Items
    <2>5. Searches(e, bundle, meta, had'[c])
      BY <2>2, <2>3 DEF Searches, Has, HasIn
    <2>6. Puts(c, e, bundle, held', contested)
      BY <2>2, <1>7 DEF Puts
    <2>7. QED
      BY <2>1, <2>2, <2>3, <2>4, <2>5, <2>6, RecordInv DEF Sound
  <1>8. Items(r.job) \in Nat
    BY <1>2 DEF Items
  <1>9. QED
    BY <1>5, <1>6, <1>7, <1>8

-----------------------------------------------------------------------------
(* The actions *)

LEMMA InvInit == Init => IInv
  <1> SUFFICES ASSUME Init PROVE IInv
    OBVIOUS
  <1>1. NoBundle \in Bundle /\ ~NoBundle.there /\ NoBundle.parts = <<>>
    BY DEF NoBundle, Bundle
  <1>2. NoCommand \in Proc /\ NoCommand.pc = "idle" /\ NoCommand.h.kind = "none"
        /\ NoCommand.at = 1 /\ NoCommand.item = 1 /\ NoCommand.src = 1
    <2> DEFINE none == <<>>
               job == CHOOSE j \in Jobs : TRUE
               ver == CHOOSE v \in Version : TRUE
               src == CHOOSE s \in Source : TRUE
               h == [kind |-> "none", from |-> src, v |-> ver, parts |-> none]
               r == [pc |-> "idle", job |-> job, item |-> 1, src |-> 1, v |-> ver, at |-> 1,
                     buf |-> none, h |-> h]
    <2>1. none \in Seq(Part) /\ job \in Jobs /\ ver \in Version /\ src \in Source
      BY SourceAssumption
    <2>2. NoCommand = r
      BY DEF NoCommand
    <2> HIDE DEF none, job, ver, src
    <2>3. h \in Handle /\ h.kind = "none"
      BY <2>1 DEF Handle
    <2> HIDE DEF h
    <2>4. r \in Proc /\ r.pc = "idle" /\ r.h.kind = "none" /\ r.at = 1 /\ r.item = 1 /\ r.src = 1
      BY <2>1, <2>3 DEF Proc, PC
    <2> HIDE DEF r
    <2>5. QED
      BY <2>2, <2>4
  <1>3. TypeOK
    BY <1>1, <1>2, SourceAssumption DEF Init, TypeOK
  <1>4. StoreSound(bundle, meta, held, contested)
    BY <1>1, SourceAssumption DEF Init, StoreSound, Stored, Named, Begins
  <1>5. ASSUME NEW c \in Command
        PROVE  Sound(c, proc[c], bundle, meta, held, had[c], contested)
    BY <1>2 DEF Init, Sound, Shape, Transfers, Puts, Searches
  <1>6. QED
    BY <1>3, <1>4, <1>5 DEF IInv

\* A command and what it has to do.
Typed(r) ==
  /\ r \in Proc /\ r.job \in Jobs /\ r.h \in Handle /\ r.v \in Version /\ r.buf \in Seq(Part)
  /\ r.item \in Nat /\ r.src \in Nat /\ r.at \in Nat
  /\ r.h.from \in Source /\ r.h.v \in Version /\ r.h.parts \in Seq(Part)
  /\ r.job.op \in {"publish", "copy", "get"} /\ r.job.files \in Seq(File)
  /\ r.job.from \in Seq(Source) /\ r.job.to \in Source
  /\ r.job.refs \in Seq(Version \cup {Latest})

LEMMA CommandFacts ==
  ASSUME IInv, NEW c \in Command
  PROVE  /\ TypeOK /\ Typed(proc[c]) /\ Shape(proc[c])
         /\ Transfers(proc[c], bundle, contested)
         /\ Puts(c, proc[c], bundle, held, contested)
         /\ Searches(proc[c], bundle, meta, had[c])
  <1>1. TypeOK /\ Sound(c, proc[c], bundle, meta, held, had[c], contested)
    BY DEF IInv
  <1>2. proc[c].job \in Jobs /\ proc[c].h \in Handle
    BY <1>1 DEF Sound, Proc
  <1>3. Typed(proc[c])
    BY <1>1, <1>2, SourceAssumption DEF Sound, Proc, Handle, Typed
  <1>4. QED
    BY <1>1, <1>3 DEF Sound

LEMMA FailedInv ==
  ASSUME IInv, NEW c \in Command, Failed(c)
  PROVE  IInv'
  <1> DEFINE h == NoHandle(proc[c])
             none == <<>>
             e == [proc[c] EXCEPT !.pc = "error", !.h = h, !.buf = none]
  <1>1. Step(c, e) /\ Typed(proc[c]) /\ Shape(proc[c]) /\ none \in Seq(Part)
    BY CommandFacts DEF Failed
  <1>2. h \in Handle /\ h.kind = "none"
    BY <1>1, NoHandleOpen DEF Typed
  <1> HIDE DEF h, none
  <1>3. e \in Proc /\ e.pc = "error" /\ e.h.kind = "none" /\ e.at = proc[c].at
        /\ e.item = proc[c].item /\ e.src = proc[c].src
    BY <1>1, <1>2 DEF Proc, PC, Typed
  <1> HIDE DEF e
  <1>4. Sound(c, e, bundle, meta, held, had[c], contested)
    BY <1>1, <1>3 DEF Sound, Shape, Transfers, Puts, Searches
  <1>5. QED
    BY <1>1, <1>4, StepInv

LEMMA KillInv ==
  ASSUME IInv, NEW c \in Command, Kill(c)
  PROVE  IInv'
  <1> DEFINE h == NoHandle(proc[c])
             none == <<>>
             e == [proc[c] EXCEPT !.pc = "idle", !.h = h, !.buf = none]
  <1>1. Step(c, e) /\ Typed(proc[c]) /\ Shape(proc[c]) /\ none \in Seq(Part)
    BY CommandFacts DEF Kill
  <1>2. h \in Handle /\ h.kind = "none"
    BY <1>1, NoHandleOpen DEF Typed
  <1> HIDE DEF h, none
  <1>3. e \in Proc /\ e.pc = "idle" /\ e.h.kind = "none" /\ e.at = proc[c].at
        /\ e.item = proc[c].item /\ e.src = proc[c].src
    BY <1>1, <1>2 DEF Proc, PC, Typed
  <1> HIDE DEF e
  <1>4. Sound(c, e, bundle, meta, held, had[c], contested)
    BY <1>1, <1>3 DEF Sound, Shape, Transfers, Puts, Searches
  <1>5. QED
    BY <1>1, <1>4, StepInv

LEMMA StartInv ==
  ASSUME IInv, NEW c \in Command, Start(c)
  PROVE  IInv'
  <1> DEFINE p == proc[c]
  <1>1. /\ TypeOK /\ Typed(p) /\ Shape(p) /\ starts' \in 0 .. MaxStart
        /\ UNCHANGED <<Store, contested>> /\ p.pc \in Ended
    <2>1. TypeOK /\ Typed(p) /\ Shape(p)
      BY CommandFacts
    <2>2. UNCHANGED <<Store, contested>> /\ p.pc \in Ended /\ starts < MaxStart /\ starts' = starts + 1
      BY DEF Start
    <2>3. starts' \in 0 .. MaxStart
      BY <2>1, <2>2, SourceAssumption DEF TypeOK
    <2>4. QED
      BY <2>1, <2>2, <2>3
  <1>2. /\ held' \in [Keys -> SUBSET (Source \X File)] /\ held'[c] = {}
        /\ \A k \in Keys \ {c} : held'[k] = held[k]
    BY <1>1 DEF Start, TypeOK, Keys
  <1>3. PICK j \in Jobs :
          LET r == [p EXCEPT !.job = j] IN
          IF \E s \in Configured(j) : Unrecognized(s)
            THEN Set(c, [r EXCEPT !.pc = "error", !.h = NoHandle(r)]) /\ UNCHANGED had
            ELSE Turn(c, r, 1)
    BY DEF Start
  <1> DEFINE r == [p EXCEPT !.job = j]
  <1>4. r \in Proc /\ r.job = j /\ r.h = p.h /\ r.pc = p.pc /\ r.at = p.at /\ r.item = p.item
        /\ r.src = p.src /\ r.h \in Handle
    BY <1>1 DEF Typed, Proc
  <1>5. CASE Turn(c, r, 1)
    <2>1. PutBefore(r, 1, held'[c])
      <3>1. r.job.files \in Seq(File)
        BY <1>4, SourceAssumption
      <3>2. QED
        BY <3>1 DEF PutBefore
    <2>2. r \in Proc /\ UNCHANGED <<Store, contested>> /\ starts' \in 0 .. MaxStart /\ 1 \in Nat \ {0}
      BY <1>1, <1>4
    <2> HIDE DEF r
    <2>3. QED
      BY <1>2, <1>5, <2>1, <2>2, TurnInv
  <1>6. CASE Set(c, [r EXCEPT !.pc = "error", !.h = NoHandle(r)]) /\ UNCHANGED had
    <2> DEFINE h == NoHandle(r)
    <2>1. h \in Handle /\ h.kind = "none"
      BY <1>4, NoHandleOpen
    <2> HIDE DEF h
    <2> DEFINE e == [r EXCEPT !.pc = "error", !.h = h]
    <2>2. e \in Proc /\ e.pc = "error" /\ e.h.kind = "none" /\ e.at = p.at /\ e.item = p.item
          /\ e.src = p.src
      BY <1>4, <2>1 DEF Proc, PC
    <2>3. Set(c, e)
      BY <1>6 DEF h
    <2> HIDE DEF e
    <2>4. Sound(c, e, bundle, meta, held', had'[c], contested)
      BY <1>1, <2>2 DEF Sound, Shape, Transfers, Puts, Searches
    <2>5. QED
      BY <1>1, <1>2, <1>6, <2>3, <2>4, RecordInv DEF TypeOK
  <1>7. QED
    BY <1>3, <1>5, <1>6

LEMMA OpenLocalInv ==
  ASSUME IInv, NEW c \in Command, OpenLocal(c)
  PROVE  IInv'
  <1> DEFINE r == proc[c]
             f == r.job.files[r.item]
             ver == VersionOf[f]
             whole == Whole(f)
             h == [r.h EXCEPT !.kind = "file", !.parts = whole]
             e == [r EXCEPT !.pc = "put", !.v = ver, !.h = h]
  <1>1. /\ TypeOK /\ Typed(r) /\ Shape(r) /\ Puts(c, r, bundle, held, contested)
        /\ r.pc = "open" /\ Step(c, e)
    BY CommandFacts DEF OpenLocal
  <1>2. r.job.op = "publish" /\ r.item \in DOMAIN r.job.files /\ r.at = 1 /\ r.buf = <<>>
    BY <1>1 DEF Shape
  <1>3. f \in File /\ ver \in Version
    <2>1. r.job.files \in Seq(File)
      BY <1>1 DEF Typed
    <2>2. f \in File
      BY <1>2, <2>1
    <2>3. QED
      BY <2>2, SourceAssumption
  <1>4. whole \in Seq(Part) /\ Len(whole) = Size /\ WholeOf(whole, ver)
    BY <1>3, WholeParts DEF WholeOf
  <1>5. whole = Whole(r.job.files[r.item]) /\ ver = VersionOf[r.job.files[r.item]]
    OBVIOUS
  <1> HIDE DEF whole, ver, f
  <1>6. h \in Handle /\ h.kind = "file" /\ h.parts = whole
    BY <1>1, <1>4 DEF Typed, Handle
  <1> HIDE DEF h
  <1>7. e \in Proc /\ e.pc = "put" /\ e.v = ver /\ e.h = h /\ e.job = r.job /\ e.item = r.item
        /\ e.src = r.src /\ e.at = r.at /\ e.buf = r.buf
    BY <1>1, <1>3, <1>6 DEF Typed, Proc, PC
  <1> HIDE DEF e
  <1>8. Shape(e) /\ Searches(e, bundle, meta, had[c])
    BY <1>1, <1>2, <1>5, <1>6, <1>7 DEF Shape, Searches
  <1>9. Transfers(e, bundle, contested)
    BY <1>2, <1>4, <1>6, <1>7 DEF Transfers, Open, Moved
  <1>10. Puts(c, e, bundle, held, contested)
    BY <1>1, <1>2, <1>7 DEF Puts
  <1>11. QED
    BY <1>1, <1>7, <1>8, <1>9, <1>10, StepInv DEF Sound

\* A Get ends with a bundle that is whole unless its version is contested.
LEMMA GotInv ==
  ASSUME IInv, NEW c \in Command, NEW h \in Handle, Got(c, h), h.kind # "none",
         proc[c].pc \in {"find", "fetch", "download"},
         h.v \notin contested => WholeOf(Open(h, bundle), h.v)
  PROVE  IInv'
  <1> DEFINE r == proc[c]
             to == IF r.job.op = "copy" THEN "put" ELSE "ok"
             none == <<>>
             e == [r EXCEPT !.h = h, !.v = h.v, !.buf = none, !.at = 1, !.pc = to]
  <1>1. /\ TypeOK /\ Typed(r) /\ Shape(r) /\ Searches(r, bundle, meta, had[c]) /\ Step(c, e)
        /\ none \in Seq(Part) /\ Len(none) = 0
    BY CommandFacts DEF Got
  <1>2. to \in {"put", "ok"} /\ (to = "put" => r.job.op = "copy") /\ h.v \in Version
    BY DEF Handle
  <1>3. r.job.op # "publish"
    BY <1>1 DEF Shape
  <1> HIDE DEF none, to
  <1>4. e \in Proc /\ e.pc = to /\ e.v = h.v /\ e.h = h /\ e.job = r.job /\ e.item = r.item
        /\ e.src = r.src /\ e.at = 1 /\ e.buf = none
    BY <1>1, <1>2 DEF Typed, Proc, PC
  <1> HIDE DEF e
  <1>5. Shape(e)
    BY <1>1, <1>2, <1>3, <1>4 DEF Shape
  <1>6. Searches(e, bundle, meta, had[c])
    BY <1>1, <1>2, <1>4 DEF Searches
  <1>7. Transfers(e, bundle, contested)
    BY <1>1, <1>2, <1>4, WholeBegins DEF Transfers, Moved
  <1>8. Puts(c, e, bundle, held, contested)
    BY <1>2, <1>3, <1>4 DEF Puts
  <1>9. QED
    BY <1>1, <1>4, <1>5, <1>6, <1>7, <1>8, StepInv DEF Sound

\* A Get passes by a source that had not what it is for when it began.
LEMMA NotFoundInv ==
  ASSUME IInv, NEW c \in Command, NotFound(c), proc[c].pc \in {"find", "fetch", "download"},
         proc[c].job.op = "get" => Here(proc[c]) \notin had[c]
  PROVE  IInv'
  <1> DEFINE r == proc[c]
             none == <<>>
  <1>1. /\ TypeOK /\ Typed(r) /\ Shape(r) /\ Searches(r, bundle, meta, had[c])
        /\ none \in Seq(Part)
    BY CommandFacts
  <1>2. r.job.op # "publish" /\ r.item \in DOMAIN r.job.refs /\ r.src \in DOMAIN r.job.from
        /\ r.h.kind = "none"
    BY <1>1 DEF Shape
  <1>3. r.job.op = "get" => \A i \in 1 .. r.src : r.job.from[i] \notin had[c]
    <2> SUFFICES ASSUME r.job.op = "get", NEW i \in 1 .. r.src
                 PROVE  r.job.from[i] \notin had[c]
      OBVIOUS
    <2>1. CASE i = r.src
      BY <2>1 DEF Here
    <2>2. CASE i # r.src
      <3>1. r.src \in Nat
        BY <1>1 DEF Typed
      <3>2. i \in 1 .. (r.src - 1)
        BY <2>2, <3>1
      <3>3. QED
        BY <1>1, <3>2 DEF Searches
    <2>3. QED
      BY <2>1, <2>2
  <1>4. CASE r.src < Len(r.job.from)
    <2> DEFINE next == r.src + 1
               e == [r EXCEPT !.src = next, !.pc = "find", !.buf = none, !.at = 1]
    <2>1. Step(c, e)
      BY <1>4 DEF NotFound
    <2>2. next \in Nat /\ next >= 1 /\ next \in DOMAIN r.job.from /\ next - 1 = r.src
      <3>1. r.src \in Nat /\ r.job.from \in Seq(Source)
        BY <1>1 DEF Typed
      <3>2. QED
        BY <1>4, <3>1
    <2> HIDE DEF next
    <2>3. none = <<>>
      OBVIOUS
    <2> HIDE DEF none
    <2>4. e \in Proc /\ e.pc = "find" /\ e.h = r.h /\ e.job = r.job /\ e.item = r.item
          /\ e.src = next /\ e.at = 1 /\ e.buf = none /\ Ref(e) = Ref(r)
      BY <1>1, <2>2 DEF Typed, Proc, PC, Ref
    <2> HIDE DEF e
    <2>5. Shape(e) /\ Transfers(e, bundle, contested) /\ Puts(c, e, bundle, held, contested)
      BY <1>1, <1>2, <2>2, <2>3, <2>4 DEF Shape, Transfers, Puts
    <2>6. Searches(e, bundle, meta, had[c])
      BY <1>1, <1>3, <2>2, <2>4 DEF Searches
    <2>7. QED
      BY <2>1, <2>4, <2>5, <2>6, StepInv DEF Sound
  <1>5. CASE ~(r.src < Len(r.job.from))
    <2> DEFINE to == IF r.job.op = "copy" THEN "error" ELSE "notfound"
               e == [r EXCEPT !.pc = to, !.buf = none]
    <2>1. Step(c, e)
      BY <1>5 DEF NotFound
    <2>2. to \in {"error", "notfound"}
      OBVIOUS
    <2>3. r.job.op = "get" => \A i \in DOMAIN r.job.from : r.job.from[i] \notin had[c]
      <3>1. r.job.from \in Seq(Source) /\ r.src \in Nat
        BY <1>1 DEF Typed
      <3>2. \A i \in DOMAIN r.job.from : i \in 1 .. r.src
        BY <1>5, <3>1
      <3>3. QED
        BY <1>3, <3>2
    <2> HIDE DEF to, none
    <2>4. e \in Proc /\ e.pc = to /\ e.h = r.h /\ e.job = r.job /\ e.item = r.item
          /\ e.src = r.src /\ e.at = r.at
      BY <1>1, <2>2 DEF Typed, Proc, PC
    <2> HIDE DEF e
    <2>5. Shape(e) /\ Transfers(e, bundle, contested) /\ Puts(c, e, bundle, held, contested)
      BY <1>1, <1>2, <2>2, <2>4 DEF Shape, Transfers, Puts
    <2>6. Searches(e, bundle, meta, had[c])
      BY <2>2, <2>3, <2>4 DEF Searches
    <2>7. QED
      BY <2>1, <2>4, <2>5, <2>6, StepInv DEF Sound
  <1>6. QED
    BY <1>4, <1>5

LEMMA GetListedInv ==
  ASSUME IInv, NEW c \in Command, GetListed(c)
  PROVE  IInv'
  <1> DEFINE r == proc[c]
  <1>1. /\ Typed(r) /\ Shape(r) /\ Searches(r, bundle, meta, had[c])
        /\ r.pc = "find" /\ Kind[Here(r)] = "files"
    BY CommandFacts DEF GetListed
  <1>2. CASE Has(Here(r), Ref(r))
    <2>1. PICK f \in Listed :
            Got(c, [r.h EXCEPT !.kind = "file", !.v = VersionOf[f], !.parts = Whole(f)])
      BY <1>2 DEF GetListed
    <2> DEFINE ver == VersionOf[f]
               whole == Whole(f)
               h == [r.h EXCEPT !.kind = "file", !.v = ver, !.parts = whole]
    <2>2. f \in File /\ ver \in Version /\ whole \in Seq(Part) /\ WholeOf(whole, ver)
      BY WholeParts, SourceAssumption DEF WholeOf
    <2>3. Got(c, h)
      BY <2>1
    <2> HIDE DEF ver, whole
    <2>4. h \in Handle /\ h.kind = "file" /\ h.v = ver /\ h.parts = whole
      BY <1>1, <2>2 DEF Typed, Handle
    <2> HIDE DEF h
    <2>5. QED
      BY <1>1, <2>2, <2>3, <2>4, GotInv DEF Open
  <1>3. CASE ~Has(Here(r), Ref(r))
    <2>1. NotFound(c)
      BY <1>3 DEF GetListed
    <2>2. r.job.op = "get" => Here(r) \notin had[c]
      BY <1>1, <1>3 DEF Searches, Has, HasIn
    <2>3. QED
      BY <1>1, <2>1, <2>2, NotFoundInv
  <1>4. QED
    BY <1>2, <1>3

LEMMA ReadMetadataInv ==
  ASSUME IInv, NEW c \in Command, ReadMetadata(c)
  PROVE  IInv'
  <1> DEFINE r == proc[c]
             s == Here(r)
             ref == Ref(r)
  <1>1. /\ TypeOK /\ Typed(r) /\ Shape(r) /\ Searches(r, bundle, meta, had[c])
        /\ Puts(c, r, bundle, held, contested)
        /\ r.pc = "find" /\ Kind[s] \in {"directory", "s3"} /\ StoreSound(bundle, meta, held, contested)
    BY CommandFacts DEF ReadMetadata, IInv
  <1>2. /\ s \in Source /\ ref \in Version \cup {Latest} /\ r.job.op # "publish"
        /\ r.h.kind = "none" /\ r.at = 1 /\ r.buf = <<>>
    BY <1>1 DEF Typed, Shape, Here, Ref
  <1>3. ASSUME NEW v \in Version, Step(c, [r EXCEPT !.pc = "fetch", !.v = v]),
               IF ref = Latest THEN bundle[s][v].there ELSE v = ref
        PROVE  IInv'
    <2> DEFINE e == [r EXCEPT !.pc = "fetch", !.v = v]
    <2>1. e \in Proc /\ e.pc = "fetch" /\ e.v = v /\ e.h = r.h /\ e.job = r.job /\ e.item = r.item
          /\ e.src = r.src /\ e.at = r.at /\ e.buf = r.buf /\ Here(e) = s /\ Ref(e) = ref
      BY <1>1 DEF Typed, Proc, PC, Here, Ref
    <2>2. Step(c, e)
      BY <1>3
    <2> HIDE DEF e, s, ref
    <2>3. Shape(e) /\ Transfers(e, bundle, contested) /\ Puts(c, e, bundle, held, contested)
      BY <1>1, <1>2, <2>1 DEF Shape, Transfers, Puts
    <2>4. Searches(e, bundle, meta, had[c])
      BY <1>1, <1>3, <2>1 DEF Searches, ref
    <2>5. QED
      BY <2>1, <2>2, <2>3, <2>4, StepInv DEF Sound
  <1>4. CASE ref # Latest
    <2>1. Step(c, [r EXCEPT !.pc = "fetch", !.v = ref]) /\ ref \in Version
      BY <1>2, <1>4 DEF ReadMetadata
    <2>2. QED
      BY <1>3, <1>4, <2>1
  <1>5. CASE ref = Latest /\ meta[s] = "none"
    <2>1. NotFound(c)
      BY <1>5 DEF ReadMetadata
    <2>2. r.job.op = "get" => s \notin had[c]
      BY <1>1, <1>5 DEF Searches, HasIn
    <2>3. QED
      BY <1>1, <2>1, <2>2, NotFoundInv
  <1>6. CASE ref = Latest /\ meta[s] = "bad"
    <2>1. Failed(c)
      BY <1>6 DEF ReadMetadata
    <2>2. QED
      BY <2>1, FailedInv
  <1>7. CASE ref = Latest /\ meta[s] \notin {"none", "bad"}
    <2>1. Step(c, [r EXCEPT !.pc = "fetch", !.v = meta[s]])
      BY <1>7 DEF ReadMetadata
    <2>2. meta[s] \in Version /\ bundle[s][meta[s]].there
      BY <1>1, <1>2, <1>7 DEF TypeOK, StoreSound, Named
    <2>3. QED
      BY <1>3, <1>7, <2>1, <2>2
  <1>8. QED
    BY <1>4, <1>5, <1>6, <1>7

LEMMA OpenSharedInv ==
  ASSUME IInv, NEW c \in Command, OpenShared(c)
  PROVE  IInv'
  <1> DEFINE r == proc[c]
             s == Here(r)
             b == bundle[s][r.v]
             none == <<>>
             h == [kind |-> "shared", from |-> s, v |-> r.v, parts |-> none]
  <1>1. /\ TypeOK /\ Typed(r) /\ Shape(r) /\ StoreSound(bundle, meta, held, contested)
        /\ r.pc = "fetch" /\ Kind[s] = "directory"
    BY CommandFacts DEF OpenShared, IInv
  <1>2. s \in Source /\ r.v \in Version /\ none \in Seq(Part)
    BY <1>1 DEF Typed, Shape, Here
  <1>3. CASE b.there /\ Parses(b.parts)
    <2>1. Got(c, h)
      BY <1>3 DEF OpenShared
    <2>2. h \in Handle /\ h.kind = "shared" /\ h.v = r.v /\ h.from = s
      BY <1>2 DEF Handle
    <2>3. b.parts \in Seq(Part) /\ (r.v \notin contested => Begins(b.parts, r.v))
      BY <1>1, <1>2 DEF TypeOK, Bundle, StoreSound, Stored
    <2>4. r.v \notin contested => WholeOf(b.parts, r.v)
      BY <1>2, <1>3, <2>3, LongIsWhole DEF Parses
    <2> HIDE DEF h
    <2>5. QED
      BY <1>1, <2>1, <2>2, <2>4, GotInv DEF Open
  <1>4. CASE ~(b.there /\ Parses(b.parts))
    <2>1. Failed(c)
      BY <1>4 DEF OpenShared
    <2>2. QED
      BY <2>1, FailedInv
  <1>5. QED
    BY <1>3, <1>4

LEMMA DownloadInv ==
  ASSUME IInv, NEW c \in Command, Download(c)
  PROVE  IInv'
  <1> DEFINE r == proc[c]
             s == Here(r)
             b == bundle[s][r.v]
  <1>1. /\ TypeOK /\ Typed(r) /\ Shape(r) /\ Searches(r, bundle, meta, had[c])
        /\ StoreSound(bundle, meta, held, contested)
        /\ Transfers(r, bundle, contested) /\ Puts(c, r, bundle, held, contested)
        /\ r.pc \in {"fetch", "download"} /\ Kind[s] = "s3"
    BY CommandFacts DEF Download, IInv, Shape
  <1>2. /\ s \in Source /\ r.v \in Version /\ r.job.op # "publish" /\ r.h.kind = "none"
        /\ r.at \in Nat \ {0} /\ r.buf \in Seq(Part) /\ b \in Bundle /\ b.parts \in Seq(Part)
    <2>1. s \in Source /\ r.job.op # "publish" /\ r.h.kind = "none"
      <3>1. /\ r.job.op # "publish" /\ r.h.kind = "none"
            /\ r.src \in DOMAIN r.job.from
        BY <1>1 DEF Shape
      <3>2. r.job.from \in Seq(Source)
        BY <1>1 DEF Typed
      <3>3. QED
        BY <3>1, <3>2 DEF Here
    <2>2. r.v \in Version /\ r.at \in Nat \ {0} /\ r.buf \in Seq(Part)
      BY <1>1 DEF Typed, Shape
    <2>3. b \in Bundle
      BY <1>1, <2>1, <2>2 DEF TypeOK
    <2>4. QED
      BY <2>1, <2>2, <2>3 DEF Bundle
  <1>3. CASE r.pc = "fetch" /\ b.there
    <2> DEFINE e == [r EXCEPT !.pc = "download"]
    <2>1. Step(c, e)
      BY <1>3 DEF Download
    <2>2. e \in Proc /\ e.pc = "download" /\ e.v = r.v /\ e.h = r.h /\ e.job = r.job
          /\ e.item = r.item /\ e.src = r.src /\ e.at = 1 /\ e.buf = <<>> /\ Here(e) = s /\ Ref(e) = Ref(r)
      <3>1. r \in Proc /\ r.at = 1 /\ r.buf = <<>>
        BY <1>1, <1>3 DEF Typed, Shape
      <3>2. e \in Proc
        BY <3>1 DEF Proc, PC
      <3>3. e.pc = "download" /\ e.v = r.v /\ e.h = r.h /\ e.job = r.job
            /\ e.item = r.item /\ e.src = r.src /\ e.at = r.at /\ e.buf = r.buf
        BY <3>1 DEF Proc
      <3>4. QED
        BY <3>1, <3>2, <3>3 DEF Here, Ref
    <2> HIDE DEF e
    <2>3. Shape(e) /\ Puts(c, e, bundle, held, contested) /\ Searches(e, bundle, meta, had[c])
      <3>1. Shape(e)
        BY <1>1, <1>2, <1>3, <2>2 DEF Shape
      <3>2. Puts(c, e, bundle, held, contested)
        BY <1>1, <1>2, <2>2 DEF Puts
      <3>3. Searches(e, bundle, meta, had[c])
        BY <1>1, <1>3, <2>2 DEF Searches
      <3>4. QED
        BY <3>1, <3>2, <3>3
    <2>4. Transfers(e, bundle, contested)
      <3>1. Moved(e.buf, b.parts, e.at)
        BY <1>2, <2>2, MovedNothing
      <3>2. e.h.kind = "none" /\ bundle[Here(e)][e.v] = b
        BY <1>2, <2>2
      <3>3. QED
        BY <2>2, <3>1, <3>2 DEF Transfers
    <2>5. QED
      BY <2>1, <2>2, <2>3, <2>4, StepInv DEF Sound
  <1>4. CASE r.pc = "fetch" /\ ~b.there
    <2>1. NotFound(c)
      BY <1>4 DEF Download
    <2>2. r.job.op = "get" => s \notin had[c]
      BY <1>1, <1>4 DEF Searches, HasIn
    <2>3. QED
      BY <1>4, <2>1, <2>2, NotFoundInv
  <1>5. CASE r.pc = "download" /\ r.at <= Len(b.parts)
    <2> DEFINE more == Append(r.buf, b.parts[r.at])
               next == r.at + 1
               e == [r EXCEPT !.buf = more, !.at = next]
    <2>1. Step(c, e)
      BY <1>2, <1>5 DEF Download
    <2>2. more \in Seq(Part) /\ next \in Nat /\ next >= 1
      BY <1>2, <1>5
    <2>3. r.v \notin contested => Moved(more, b.parts, next)
      BY <1>1, <1>2, <1>5, MoveOne DEF Transfers
    <2> HIDE DEF more, next
    <2>4. e \in Proc /\ e.pc = "download" /\ e.v = r.v /\ e.h = r.h /\ e.job = r.job
          /\ e.item = r.item /\ e.src = r.src /\ e.at = next /\ e.buf = more /\ Here(e) = s
          /\ Ref(e) = Ref(r)
      BY <1>1, <1>5, <2>2 DEF Typed, Proc, PC, Here, Ref
    <2> HIDE DEF e
    <2>5. Shape(e) /\ Puts(c, e, bundle, held, contested) /\ Searches(e, bundle, meta, had[c])
      BY <1>1, <1>2, <1>5, <2>2, <2>4 DEF Shape, Puts, Searches
    <2>6. Transfers(e, bundle, contested)
      BY <1>2, <2>3, <2>4 DEF Transfers
    <2>7. QED
      BY <2>1, <2>4, <2>5, <2>6, StepInv DEF Sound
  <1>6. CASE r.pc = "download" /\ r.at > Len(b.parts) /\ Parses(r.buf)
    <2> DEFINE h == [r.h EXCEPT !.kind = "file", !.v = r.v, !.parts = r.buf]
    <2>1. Got(c, h)
      BY <1>2, <1>6 DEF Download
    <2>2. h \in Handle /\ h.kind = "file" /\ h.v = r.v /\ h.parts = r.buf
      BY <1>1, <1>2 DEF Typed, Handle
    <2>3. r.v \notin contested => Begins(b.parts, r.v) /\ Moved(r.buf, b.parts, r.at)
      BY <1>1, <1>2, <1>6 DEF StoreSound, Stored, Transfers
    <2>4. r.v \notin contested => WholeOf(r.buf, r.v)
      BY <1>2, <1>6, <2>3, MovedAll, LongIsWhole DEF Parses
    <2> HIDE DEF h
    <2>5. QED
      BY <1>6, <2>1, <2>2, <2>4, GotInv DEF Open
  <1>7. CASE r.pc = "download" /\ r.at > Len(b.parts) /\ ~Parses(r.buf)
    <2>1. Failed(c)
      BY <1>2, <1>7 DEF Download
    <2>2. QED
      BY <2>1, FailedInv
  <1>8. QED
    BY <1>2, <1>3, <1>4, <1>5, <1>6, <1>7 DEF Download

-----------------------------------------------------------------------------
(* Put *)

LEMMA CreateInv ==
  ASSUME IInv, NEW c \in Command, Create(c)
  PROVE  IInv'
  <1> DEFINE r == proc[c]
             s == r.job.to
             none == <<>>
             e == [r EXCEPT !.pc = "write", !.at = 1]
  <1>1. /\ TypeOK /\ Typed(r) /\ Shape(r)
        /\ Transfers(r, bundle, contested) /\ Puts(c, r, bundle, held, contested)
    BY CommandFacts
  <1>2. /\ r.pc = "put" /\ Kind[s] = "directory" /\ Set(c, e) /\ Write(c, s, r.v, none)
        /\ UNCHANGED <<meta, starts, had>>
    BY DEF Create
  <1>3. none \in Seq(Part) /\ s \in Source /\ r.v \in Version /\ Begins(none, r.v)
    BY <1>1, SourceAssumption DEF Typed, Begins
  <1>4. Written(c, s, r.v, none)
    BY <1>1, <1>2, <1>3, WriteFacts
  <1>5. e \in Proc /\ e.pc = "write" /\ e.v = r.v /\ e.h = r.h /\ e.job = r.job
        /\ e.item = r.item /\ e.src = r.src /\ e.at = 1 /\ e.buf = r.buf
    BY <1>1 DEF Typed, Proc, PC
  <1> HIDE DEF e
  <1>6. Shape(e) /\ Searches(e, bundle', meta, had[c])
    <2>1. Shape(e)
      BY <1>1, <1>2, <1>5 DEF Shape
    <2>2. QED
      BY <1>1, <1>2, <1>5, <2>1 DEF Shape, Searches
  <1>7. /\ bundle'[s][r.v].there /\ bundle'[s][r.v].parts = none /\ contested \subseteq contested'
        /\ held[c] \subseteq held'[c]
        /\ r.v \notin contested' => ~Reads(c, s, r.v)
        /\ \A t \in Source, w \in Version : t # s \/ w # r.v => bundle'[t][w] = bundle[t][w]
    BY <1>4 DEF Written, Keys
  <1>8. Transfers(e, bundle', contested')
    <2> SUFFICES ASSUME r.v \notin contested'
                 PROVE  WholeOf(Open(r.h, bundle'), r.v) /\ Moved(none, Open(r.h, bundle'), 1)
      BY <1>2, <1>5, <1>7 DEF Transfers
    <2>1. WholeOf(Open(r.h, bundle), r.v)
      BY <1>1, <1>2, <1>7 DEF Transfers, Shape
    <2>2. Open(r.h, bundle') = Open(r.h, bundle)
      BY <1>1, <1>2, <1>7 DEF Typed, Open, Shape, Reads
    <2>3. QED
      BY <2>1, <2>2, WholeBegins DEF Moved
  <1>9. Puts(c, e, bundle', held', contested')
    <2>1. ~(e.at > Size)
      BY <1>5, SourceAssumption
    <2>2. ASSUME r.job.op = "publish", NEW i \in DOMAIN r.job.files,
                 VersionOf[r.job.files[i]] \notin contested', i < r.item
          PROVE  <<s, r.job.files[i]>> \in held'[c]
      <3>1. <<s, r.job.files[i]>> \in held[c]
        BY <1>1, <1>2, <1>7, <2>2 DEF Puts
      <3>2. QED
        BY <1>7, <3>1
    <2>3. QED
      BY <1>5, <1>7, <2>1, <2>2 DEF Puts
  <1>10. QED
    BY <1>2, <1>3, <1>5, <1>6, <1>8, <1>9, WriteInv DEF Sound

LEMMA MovedBegins ==
  ASSUME NEW to \in Seq(Part), NEW from, NEW v, NEW at \in Nat \ {0}, Moved(to, from, at),
         WholeOf(from, v)
  PROVE  Begins(to, v) /\ Len(from) = Size /\ (at > Size => to = from)
  <1>1. PICK f \in File : VersionOf[f] = v /\ from = Whole(f)
    BY DEF WholeOf
  <1>2. from \in Seq(Part) /\ Len(from) = Size /\ \A i \in 1 .. Size : from[i] = f
    BY <1>1, WholeParts
  <1>3. Len(to) = at - 1 /\ at - 1 <= Size /\ \A i \in 1 .. (at - 1) : to[i] = from[i]
    BY <1>2 DEF Moved
  <1>4. Begins(to, v)
    BY <1>1, <1>2, <1>3, SourceAssumption DEF Begins
  <1>5. at > Size => to = from
    BY <1>2, MovedAll
  <1>6. QED
    BY <1>2, <1>4, <1>5

\* What a put reads, before and after its command writes.
LEMMA SourceOpen ==
  ASSUME IInv, NEW c \in Command, proc[c].pc \in {"put", "write"}
  PROVE  LET r == proc[c]  h == r.h IN
         /\ Contents(h) = Open(h, bundle) /\ Open(h, bundle) \in Seq(Part)
         /\ r.v \notin contested => WholeOf(Open(h, bundle), r.v)
         /\ \A parts \in Seq(Part) : Written(c, r.job.to, r.v, parts) /\ r.v \notin contested'
              => Open(h, bundle') = Open(h, bundle)
  <1> DEFINE r == proc[c]
             h == r.h
  <1>1. TypeOK /\ Typed(r) /\ Shape(r) /\ Transfers(r, bundle, contested)
    BY CommandFacts
  <1>2. bundle[h.from][h.v] \in Bundle
    BY <1>1 DEF TypeOK, Typed
  <1>3. Contents(h) = Open(h, bundle) /\ Open(h, bundle) \in Seq(Part)
    BY <1>1, <1>2 DEF Contents, Open, Typed, Bundle
  <1>4. r.v \notin contested => WholeOf(Open(h, bundle), r.v)
    BY <1>1 DEF Shape, Transfers
  <1>5. ASSUME NEW parts \in Seq(Part), Written(c, r.job.to, r.v, parts), r.v \notin contested'
        PROVE  Open(h, bundle') = Open(h, bundle)
    <2>1. /\ \A t \in Source, w \in Version : t # r.job.to \/ w # r.v => bundle'[t][w] = bundle[t][w]
          /\ ~Reads(c, r.job.to, r.v)
      BY <1>5 DEF Written
    <2>2. QED
      BY <1>1, <2>1 DEF Typed, Open, Shape, Reads
  <1>6. QED
    BY <1>3, <1>4, <1>5

\* All parts of a bundle are there.
LEMMA Landed ==
  ASSUME NEW c \in Command, NEW s, NEW v, NEW parts, Written(c, s, v, parts), WholeOf(parts, v)
  PROVE  Earned(s, v, held'[None])
  BY DEF WholeOf, Written, Keys, Earned

LEMMA CopyPartInv ==
  ASSUME IInv, NEW c \in Command, CopyPart(c)
  PROVE  IInv'
  <1> DEFINE r == proc[c]
             s == r.job.to
             from == Open(r.h, bundle)
             dest == bundle[s][r.v].parts
  <1>1. /\ TypeOK /\ Typed(r) /\ Shape(r) /\ r.pc = "write"
        /\ Transfers(r, bundle, contested) /\ Puts(c, r, bundle, held, contested)
    BY CommandFacts DEF CopyPart
  <1>2. /\ s \in Source /\ r.v \in Version /\ r.at \in Nat \ {0} /\ Kind[s] = "directory"
        /\ r.h.kind # "none" /\ r.job.op # "get"
    BY <1>1 DEF Typed, Shape
  <1>3. dest \in Seq(Part)
    BY <1>1, <1>2 DEF TypeOK, Bundle
  <1>4. /\ Contents(r.h) = from /\ from \in Seq(Part)
        /\ r.v \notin contested => WholeOf(from, r.v)
        /\ \A parts \in Seq(Part) : Written(c, s, r.v, parts) /\ r.v \notin contested'
              => Open(r.h, bundle') = from
    BY <1>1, SourceOpen
  <1>5. CASE r.at <= Size /\ r.at <= Len(from)
    <2> DEFINE next == r.at + 1
               parts == WriteAt(dest, r.at, from[r.at])
               e == [r EXCEPT !.at = next]
    <2>1. Set(c, e) /\ Write(c, s, r.v, parts) /\ UNCHANGED <<meta, starts, had>>
      BY <1>4, <1>5 DEF CopyPart
    <2>2. parts \in Seq(Part)
      <3>1. from[r.at] \in Part
        BY <1>2, <1>4, <1>5
      <3>2. QED
        BY <1>2, <1>3, <3>1, WriteAtTyped
    <2>3. Written(c, s, r.v, parts)
      BY <1>1, <1>2, <2>1, <2>2, WriteFacts
    <2>4. /\ bundle'[s][r.v].there /\ bundle'[s][r.v].parts = parts /\ contested \subseteq contested'
          /\ held[c] \subseteq held'[c]
          /\ \A f \in File, k \in Keys : VersionOf[f] = r.v /\ parts = Whole(f) => <<s, f>> \in held'[k]
      <3> HIDE DEF parts, next, e, dest, from, s
      <3>1. bundle'[s][r.v] = [there |-> TRUE, parts |-> parts]
        BY <2>3 DEF Written
      <3>2. contested \subseteq contested' /\ \A k \in Keys : held[k] \subseteq held'[k]
        BY <2>3 DEF Written
      <3>3. \A f \in File, k \in Keys : VersionOf[f] = r.v /\ parts = Whole(f) => <<s, f>> \in held'[k]
        BY <2>3 DEF Written
      <3>4. QED
        BY <3>1, <3>2, <3>3 DEF Keys
    <2>5. ASSUME r.v \notin contested'
          PROVE  /\ WholeOf(from, r.v) /\ Open(r.h, bundle') = from /\ Moved(parts, from, next)
                 /\ Begins(parts, r.v) /\ (next > Size => parts = from)
      <3>1. WholeOf(from, r.v) /\ Open(r.h, bundle') = from /\ Moved(dest, from, r.at)
        BY <1>1, <1>4, <2>2, <2>3, <2>4, <2>5 DEF Transfers
      <3>2. Moved(parts, from, next)
        BY <1>2, <1>3, <1>4, <1>5, <3>1, MoveOne
      <3>3. next \in Nat \ {0} /\ parts \in Seq(Part)
        BY <1>2, <2>2
      <3> HIDE DEF next, parts, from
      <3>4. Begins(parts, r.v) /\ (next > Size => parts = from)
        BY <3>1, <3>2, <3>3, MovedBegins
      <3>5. QED
        BY <3>1, <3>2, <3>4
    <2>6. next \in Nat /\ next >= 1
      BY <1>2
    <2> HIDE DEF next, parts
    <2>7. e \in Proc /\ e.pc = "write" /\ e.v = r.v /\ e.h = r.h /\ e.job = r.job
          /\ e.item = r.item /\ e.src = r.src /\ e.at = next /\ e.buf = r.buf
      BY <1>1, <2>6 DEF Typed, Proc, PC
    <2> HIDE DEF e, from
    <2>8. Shape(e) /\ Searches(e, bundle', meta, had[c])
      BY <1>1, <1>2, <2>6, <2>7 DEF Shape, Searches
    <2>9. Transfers(e, bundle', contested')
      BY <2>4, <2>5, <2>7 DEF Transfers
    <2>10. Puts(c, e, bundle', held', contested')
      <3>1. ASSUME r.v \notin contested', next > Size
            PROVE  /\ Earned(s, r.v, held'[None])
                   /\ r.job.op = "publish" => <<s, r.job.files[r.item]>> \in held'[c]
        <4>1. WholeOf(parts, r.v) /\ parts = from
          BY <2>5, <3>1
        <4>2. r.job.op = "publish" =>
                /\ r.job.files[r.item] \in File /\ r.v = VersionOf[r.job.files[r.item]]
                /\ from = Whole(r.job.files[r.item])
          BY <1>1 DEF Typed, Shape, Open, from
        <4>3. QED
          BY <2>3, <2>4, <4>1, <4>2, Landed DEF Keys
      <3>2. QED
        BY <1>1, <2>4, <2>7, <3>1 DEF Puts
    <2>11. QED
      BY <1>2, <2>1, <2>2, <2>5, <2>7, <2>8, <2>9, <2>10, WriteInv DEF Sound
  <1>6. CASE ~(r.at <= Size /\ r.at <= Len(from))
    <2> DEFINE e == [r EXCEPT !.pc = "meta", !.at = 1]
    <2>1. Step(c, e)
      BY <1>4, <1>6 DEF CopyPart
    <2>2. e \in Proc /\ e.pc = "meta" /\ e.v = r.v /\ e.h = r.h /\ e.job = r.job
          /\ e.item = r.item /\ e.src = r.src /\ e.at = 1 /\ e.buf = r.buf
      BY <1>1 DEF Typed, Proc, PC
    <2>3. r.v \notin contested => r.at > Size
      <3>1. r.v \notin contested => Len(from) = Size
        BY <1>4, WholeBegins
      <3>2. QED
        BY <1>2, <1>6, <3>1, SourceAssumption
    <2> HIDE DEF e, from
    <2>4. Shape(e) /\ Searches(e, bundle, meta, had[c]) /\ Transfers(e, bundle, contested)
      BY <1>1, <1>2, <2>2 DEF Shape, Searches, Transfers
    <2>5. Puts(c, e, bundle, held, contested)
      BY <1>1, <2>2, <2>3 DEF Puts
    <2>6. QED
      BY <2>1, <2>2, <2>4, <2>5, StepInv DEF Sound
  <1>7. QED
    BY <1>5, <1>6

LEMMA UploadInv ==
  ASSUME IInv, NEW c \in Command, Upload(c)
  PROVE  IInv'
  <1> DEFINE r == proc[c]
             s == r.job.to
             from == Open(r.h, bundle)
  <1>1. /\ TypeOK /\ Typed(r) /\ Shape(r) /\ r.pc = "put" /\ Kind[s] = "s3"
        /\ Transfers(r, bundle, contested) /\ Puts(c, r, bundle, held, contested)
    BY CommandFacts DEF Upload
  <1>2. /\ s \in Source /\ r.v \in Version /\ r.at \in Nat \ {0} /\ r.buf \in Seq(Part)
        /\ r.h.kind # "none" /\ r.job.op # "get"
    BY <1>1 DEF Typed, Shape
  <1>3. /\ Contents(r.h) = from /\ from \in Seq(Part)
        /\ r.v \notin contested => WholeOf(from, r.v)
        /\ \A parts \in Seq(Part) : Written(c, s, r.v, parts) /\ r.v \notin contested'
              => Open(r.h, bundle') = from
    BY <1>1, SourceOpen
  <1>4. CASE r.at <= Size /\ r.at <= Len(from)
    <2> DEFINE more == Append(r.buf, from[r.at])
               next == r.at + 1
               e == [r EXCEPT !.buf = more, !.at = next]
    <2>1. Step(c, e)
      BY <1>2, <1>3, <1>4, SourceAssumption DEF Upload
    <2>2. more \in Seq(Part) /\ next \in Nat /\ next >= 1
      BY <1>2, <1>3, <1>4
    <2>3. r.v \notin contested => Moved(more, from, next)
      BY <1>1, <1>2, <1>3, <1>4, MoveOne DEF Transfers
    <2> HIDE DEF more, next
    <2>4. e \in Proc /\ e.pc = "put" /\ e.v = r.v /\ e.h = r.h /\ e.job = r.job
          /\ e.item = r.item /\ e.src = r.src /\ e.at = next /\ e.buf = more
      BY <1>1, <2>2 DEF Typed, Proc, PC
    <2> HIDE DEF e
    <2>5. Shape(e) /\ Puts(c, e, bundle, held, contested) /\ Searches(e, bundle, meta, had[c])
      BY <1>1, <1>2, <2>2, <2>4 DEF Shape, Puts, Searches
    <2>6. Transfers(e, bundle, contested)
      BY <1>1, <1>3, <2>3, <2>4 DEF Transfers
    <2>7. QED
      BY <2>1, <2>4, <2>5, <2>6, StepInv DEF Sound
  <1>5. CASE r.at > Size
    <2> DEFINE none == <<>>
               e == [r EXCEPT !.pc = "meta", !.at = 1, !.buf = none]
    <2>1. Set(c, e) /\ Write(c, s, r.v, r.buf) /\ UNCHANGED <<meta, starts, had>>
      BY <1>2, <1>5, SourceAssumption DEF Upload
    <2>2. Written(c, s, r.v, r.buf) /\ none \in Seq(Part)
      BY <1>1, <1>2, <2>1, WriteFacts
    <2>3. /\ bundle'[s][r.v].there /\ contested \subseteq contested' /\ held[c] \subseteq held'[c]
          /\ \A f \in File, k \in Keys : VersionOf[f] = r.v /\ r.buf = Whole(f) => <<s, f>> \in held'[k]
      BY <2>2 DEF Written, Keys
    <2>4. ASSUME r.v \notin contested'
          PROVE  /\ WholeOf(from, r.v) /\ Open(r.h, bundle') = from /\ r.buf = from
                 /\ Begins(r.buf, r.v) /\ Len(r.buf) = Size
      <3>1. WholeOf(from, r.v) /\ Open(r.h, bundle') = from /\ Moved(r.buf, from, r.at)
        BY <1>1, <1>2, <1>3, <2>2, <2>3, <2>4 DEF Transfers
      <3>2. QED
        BY <1>2, <1>5, <3>1, MovedBegins
    <2> HIDE DEF none, from
    <2>5. e \in Proc /\ e.pc = "meta" /\ e.v = r.v /\ e.h = r.h /\ e.job = r.job
          /\ e.item = r.item /\ e.src = r.src /\ e.at = 1
      BY <1>1, <2>2 DEF Typed, Proc, PC
    <2> HIDE DEF e
    <2>6. Shape(e) /\ Searches(e, bundle', meta, had[c])
      BY <1>1, <1>2, <2>5 DEF Shape, Searches
    <2>7. Transfers(e, bundle', contested')
      BY <2>4, <2>5 DEF Transfers
    <2>8. Puts(c, e, bundle', held', contested')
      <3>1. ASSUME r.v \notin contested'
            PROVE  /\ Earned(s, r.v, held'[None])
                   /\ r.job.op = "publish" => <<s, r.job.files[r.item]>> \in held'[c]
        <4>1. WholeOf(r.buf, r.v) /\ r.buf = from
          BY <2>4, <3>1
        <4>2. r.job.op = "publish" =>
                /\ r.job.files[r.item] \in File /\ r.v = VersionOf[r.job.files[r.item]]
                /\ from = Whole(r.job.files[r.item])
          BY <1>1 DEF Typed, Shape, Open, from
        <4>3. QED
          BY <2>2, <2>3, <4>1, <4>2, Landed DEF Keys
      <3>2. QED
        BY <1>1, <2>3, <2>5, <3>1 DEF Puts
    <2>9. QED
      BY <1>2, <2>1, <2>4, <2>5, <2>6, <2>7, <2>8, WriteInv DEF Sound
  <1>6. QED
    BY <1>3, <1>4, <1>5 DEF Upload

\* The metadata never go away: what a source had it still has.
LEMMA MetaInv ==
  ASSUME IInv, NEW c \in Command, NEW s \in Source, NEW m \in Version \cup {"bad"}, NEW r, Set(c, r),
         meta' = [meta EXCEPT ![s] = m], UNCHANGED <<bundle, starts, history>>,
         m \in Version => bundle[s][m].there /\ (m \notin contested => Earned(s, m, held[None])),
         Sound(c, r, bundle, meta', held, had[c], contested)
  PROVE  IInv'
  <1>1. /\ TypeOK /\ StoreSound(bundle, meta, held, contested) /\ bundle' = bundle
        /\ held' = held /\ had' = had /\ contested' = contested /\ starts' = starts
    BY DEF IInv, history
  <1>2. meta' \in [Source -> Version \cup {"none", "bad"}] /\ meta'[s] = m
        /\ \A t \in Source \ {s} : meta'[t] = meta[t]
    BY <1>1 DEF TypeOK
  <1>3. m # "none"
    BY SourceAssumption
  <1>4. TypeOK'
    BY <1>1, <1>2 DEF TypeOK, Set, Sound
  <1>5. "bad" \notin Version
    BY SourceAssumption
  <1>6. StoreSound(bundle, meta', held, contested)
    BY <1>1, <1>2, <1>5 DEF StoreSound, Named
  <1>7. ASSUME NEW d \in Command
        PROVE  Sound(d, proc'[d], bundle, meta', held, had[d], contested)
    <2>1. CASE d = c
      BY <2>1, <1>1 DEF TypeOK, Set
    <2>2. CASE d # c
      <3>1. proc'[d] = proc[d] /\ Sound(d, proc[d], bundle, meta, held, had[d], contested)
            /\ had[d] \subseteq Source
        BY <2>2, <1>1 DEF TypeOK, Set, IInv
      <3>2. ASSUME NEW t \in Source, NEW ref, HasIn(t, ref, bundle, meta)
            PROVE  HasIn(t, ref, bundle, meta')
        BY <3>2, <1>2, <1>3 DEF HasIn
      <3>3. Searches(proc[d], bundle, meta', had[d])
        BY <3>1, <3>2 DEF Sound, Searches
      <3>4. QED
        BY <3>1, <3>3 DEF Sound
    <2>3. QED
      BY <2>1, <2>2
  <1>8. QED
    BY <1>1, <1>4, <1>6, <1>7 DEF IInv

LEMMA PutMetadataInv ==
  ASSUME IInv, NEW c \in Command, PutMetadata(c)
  PROVE  IInv'
  <1> DEFINE r == proc[c]
             s == r.job.to
  <1>1. /\ TypeOK /\ Typed(r) /\ Shape(r) /\ r.pc = "meta" /\ UNCHANGED <<bundle, starts, history>>
        /\ Transfers(r, bundle, contested) /\ Puts(c, r, bundle, held, contested)
    BY CommandFacts DEF PutMetadata
  <1>2. s \in Source /\ r.v \in Version /\ r.job.op # "get"
    BY <1>1 DEF Typed, Shape
  <1>3. CASE Kind[s] = "directory" /\ r.at = 1
    <2> DEFINE e == [r EXCEPT !.at = 2]
    <2>1. Set(c, e) /\ meta' = [meta EXCEPT ![s] = "bad"]
      BY <1>3 DEF PutMetadata
    <2>2. e \in Proc /\ e.pc = "meta" /\ e.v = r.v /\ e.h = r.h /\ e.job = r.job
          /\ e.item = r.item /\ e.src = r.src /\ e.at = 2 /\ e.buf = r.buf
      BY <1>1 DEF Typed, Proc, PC
    <2> HIDE DEF e
    <2>3. Sound(c, e, bundle, meta', held, had[c], contested)
      <3>1. Shape(e) /\ Transfers(e, bundle, contested) /\ Searches(e, bundle, meta', had[c])
        BY <1>1, <1>2, <2>2 DEF Shape, Transfers, Searches
      <3>2. Puts(c, e, bundle, held, contested)
        BY <1>1, <2>2 DEF Puts
      <3>3. QED
        BY <2>2, <3>1, <3>2 DEF Sound
    <2>4. "bad" \notin Version
      BY SourceAssumption
    <2>5. QED
      BY <1>1, <1>2, <2>1, <2>3, <2>4, MetaInv
  <1>4. CASE ~(Kind[s] = "directory" /\ r.at = 1)
    <2> DEFINE e == [r EXCEPT !.pc = "decide"]
    <2>1. Set(c, e) /\ meta' = [meta EXCEPT ![s] = r.v]
      BY <1>4 DEF PutMetadata
    <2>2. e \in Proc /\ e.pc = "decide" /\ e.v = r.v /\ e.h = r.h /\ e.job = r.job
          /\ e.item = r.item /\ e.src = r.src /\ e.at = r.at /\ e.buf = r.buf
      BY <1>1 DEF Typed, Proc, PC
    <2> HIDE DEF e
    <2>3. Sound(c, e, bundle, meta', held, had[c], contested)
      <3>1. Shape(e) /\ Transfers(e, bundle, contested) /\ Searches(e, bundle, meta', had[c])
        BY <1>1, <1>2, <2>2 DEF Shape, Transfers, Searches
      <3>2. Puts(c, e, bundle, held, contested)
        BY <1>1, <2>2 DEF Puts
      <3>3. QED
        BY <2>2, <3>1, <3>2 DEF Sound
    <2>4. bundle[s][r.v].there /\ (r.v \notin contested => Earned(s, r.v, held[None]))
      BY <1>1 DEF Puts
    <2>5. QED
      BY <1>1, <1>2, <2>1, <2>3, <2>4, MetaInv
  <1>5. QED
    BY <1>3, <1>4

LEMMA ContinueInv ==
  ASSUME IInv, NEW c \in Command, Continue(c), PutBefore(proc[c], proc[c].item + 1, held[c])
  PROVE  IInv'
  <1>1. TypeOK /\ Typed(proc[c])
    BY CommandFacts
  <1>2. PICK i \in Nat \ {0} : i = proc[c].item + 1
    BY <1>1 DEF Typed
  <1>3. Turn(c, proc[c], i) /\ UNCHANGED <<Store, contested>> /\ starts' = starts /\ held' = held
    BY <1>2 DEF Continue
  <1>4. proc[c] \in Proc /\ starts' \in 0 .. MaxStart /\ held' \in [Keys -> SUBSET (Source \X File)]
    BY <1>1, <1>3 DEF Typed, TypeOK, Keys
  <1>5. QED
    BY <1>2, <1>3, <1>4, TurnInv

LEMMA PutDoneInv ==
  ASSUME IInv, NEW c \in Command, PutDone(c)
  PROVE  IInv'
  <1> DEFINE r == proc[c]
  <1>1. /\ Typed(r) /\ Shape(r) /\ Puts(c, r, bundle, held, contested)
        /\ r.pc = "decide" /\ Continue(c)
    BY CommandFacts DEF PutDone
  <1>2. PutBefore(r, r.item + 1, held[c])
    <2> SUFFICES ASSUME r.job.op = "publish", NEW n \in DOMAIN r.job.files, n < r.item + 1,
                        VersionOf[r.job.files[n]] \notin contested
                 PROVE  <<r.job.to, r.job.files[n]>> \in held[c]
      BY DEF PutBefore
    <2>1. n \in Nat /\ r.item \in Nat
      BY <1>1 DEF Typed
    <2>2. CASE n = r.item
      BY <1>1, <2>2 DEF Shape, Puts
    <2>3. CASE n < r.item
      BY <1>1, <2>3 DEF Puts
    <2>4. QED
      BY <2>1, <2>2, <2>3
  <1>3. QED
    BY <1>1, <1>2, ContinueInv

LEMMA PutErrorInv ==
  ASSUME IInv, NEW c \in Command, PutError(c)
  PROVE  IInv'
  <1>1. CASE proc[c].job.op = "copy"
    BY <1>1, ContinueInv DEF PutError, PutBefore
  <1>2. CASE proc[c].job.op # "copy"
    BY <1>2, FailedInv DEF PutError
  <1>3. QED
    BY <1>1, <1>2

LEMMA InvNext == IInv /\ [Next]_vars => IInv'
  <1> SUFFICES ASSUME IInv, [Next]_vars PROVE IInv'
    OBVIOUS
  <1>1. CASE Next
    <2> SUFFICES ASSUME NEW c \in Command,
                        \/ Start(c) \/ OpenLocal(c) \/ GetListed(c) \/ ReadMetadata(c) \/ OpenShared(c)
                        \/ Download(c) \/ Create(c) \/ CopyPart(c) \/ Upload(c) \/ PutMetadata(c)
                        \/ PutDone(c) \/ GetError(c) \/ PutError(c) \/ Kill(c)
                 PROVE  IInv'
      BY <1>1 DEF Next
    <2>1. CASE Start(c)        BY <2>1, StartInv
    <2>2. CASE OpenLocal(c)    BY <2>2, OpenLocalInv
    <2>3. CASE GetListed(c)    BY <2>3, GetListedInv
    <2>4. CASE ReadMetadata(c) BY <2>4, ReadMetadataInv
    <2>5. CASE OpenShared(c)   BY <2>5, OpenSharedInv
    <2>6. CASE Download(c)     BY <2>6, DownloadInv
    <2>7. CASE Create(c)       BY <2>7, CreateInv
    <2>8. CASE CopyPart(c)     BY <2>8, CopyPartInv
    <2>9. CASE Upload(c)       BY <2>9, UploadInv
    <2>10. CASE PutMetadata(c) BY <2>10, PutMetadataInv
    <2>11. CASE PutDone(c)     BY <2>11, PutDoneInv
    <2>12. CASE GetError(c)    BY <2>12, FailedInv DEF GetError
    <2>13. CASE PutError(c)    BY <2>13, PutErrorInv
    <2>14. CASE Kill(c)        BY <2>14, KillInv
    <2>15. QED
      BY <2>1, <2>2, <2>3, <2>4, <2>5, <2>6, <2>7, <2>8, <2>9, <2>10, <2>11, <2>12, <2>13, <2>14
  <1>2. CASE UNCHANGED vars
    <2>1. /\ bundle' = bundle /\ meta' = meta /\ proc' = proc /\ starts' = starts /\ held' = held
          /\ had' = had /\ contested' = contested
      BY <1>2 DEF vars
    <2>2. QED
      BY <2>1 DEF IInv, TypeOK
  <1>3. QED
    BY <1>1, <1>2

LEMMA InvHolds == Spec => []IInv
  BY InvInit, InvNext, PTL DEF Spec

-----------------------------------------------------------------------------
(* The theorems *)

\* The sources, their metadata and what the commands keep stay well-formed.
THEOREM TypeCorrect == Spec => []TypeOK
  <1>1. IInv => TypeOK
    BY DEF IInv
  <1>2. QED
    BY <1>1, InvHolds, PTL

\* The latest version that the metadata of a source name was held by it in full,
\* and a bucket still has it: DirectorySource.Put and S3Source.Put write the
\* metadata last.
THEOREM LatestIsEarned == Spec => []LatestEarned
  BY InvLatestEarned, InvHolds, PTL

\* A publish that succeeds has put each of its files, whole, in its source.
THEOREM PublishIsSound == Spec => []PublishSound
  BY InvPublishSound, InvHolds, PTL

\* What a Get returned is a whole bundle of the version it is named for, whatever
\* publications were interrupted, unless that version is rewritten under its users.
THEOREM GetIsWhole == Spec => []GetWhole
  BY InvGetWhole, InvHolds, PTL

\* MultiSource.Get passes by no source that had the bundle when it began.
THEOREM FirstIsFound == Spec => []FirstMatch
  BY InvFirstMatch, InvHolds, PTL
=============================================================================
