----------------------- MODULE BlockProductionProofs ------------------------
(***************************************************************************)
(* Theorems about BlockProduction, for any pool, interval, height, number  *)
(* of restarts and failures: the chain of headers, the three heights, the  *)
(* anchors, the snapshots, and how often a transaction runs; and that all  *)
(* of them hold beside those of the pool in Sequencer.                     *)
(***************************************************************************)
EXTENDS Sequencer, MempoolProofs

\* The stores of headers without a gap, and the snapshot files that may be
\* restored: a sound one holds the chain below its height.
HeaderMaps == UNION {[1 .. n -> HeaderSet] : n \in 0 .. MaxHeight}

Files == [height : 1 .. MaxHeight, headers : HeaderMaps, form : {"full", "truncated"},
          sound : BOOLEAN]

SoundFiles == {s \in Files : s.sound => Chain(s.headers, s.height)}

BlockTypes ==
  /\ backend \in Backends
  /\ boot \in 0 .. MaxBoots
  /\ pc \in Phases
  /\ header \in HeaderSet
  /\ engineHeight \in 0 .. MaxHeight
  /\ blockHeight \in 0 .. MaxHeight
  /\ blocksProduced \in 0 .. MaxHeight
  /\ headers \in HeaderMaps
  /\ snaps \in Seq(SoundFiles)
  /\ anchoring \subseteq 1 .. MaxHeight
  /\ lastAnchorHeight \in 0 .. MaxHeight
  /\ failures \in 0 .. MaxFailures

\* A process that is down has no height and no anchor.
DownIsClean ==
  pc = "down" =>
    /\ engineHeight = 0 /\ blocksProduced = 0
    /\ anchoring = {} /\ lastAnchorHeight = 0

\* The engine is the first to have the new height, and an anchor is of a height
\* that the engine and the sequencer have passed.
HeightsInStep ==
  /\ blocksProduced =< engineHeight
  /\ pc = "executing" => engineHeight < MaxHeight
  /\ pc \in {"building", "removing", "committing"} => blocksProduced < engineHeight
  /\ pc \in {"removing", "committing", "persisting", "snapshot", "writing"} =>
       header.height = engineHeight
  /\ pc \in {"persisting", "snapshot", "writing"} =>
       blockHeight = engineHeight /\ 0 < engineHeight
  /\ \A h \in anchoring : h =< blockHeight /\ h =< engineHeight
  /\ lastAnchorHeight =< blockHeight /\ lastAnchorHeight =< engineHeight

\* The store of a header's run holds those below it: in memory all of them, with
\* badger at least the one whose hash it carries.
HeadersInStep ==
  /\ backend = "memory" =>
       1 .. (IF pc \in {"building", "removing", "committing", "persisting"}
             THEN engineHeight - 1 ELSE engineHeight) \subseteq DOMAIN headers
  /\ pc \in {"removing", "committing", "persisting"} =>
       PreviousKnown /\ header.prev = PreviousHash

\* Until the storage fails, every height of the engine becomes a block, and the
\* store holds the chain of those that are persisted.
UntilFailure ==
  failures = 0 =>
    /\ engineHeight = IF pc \in {"building", "removing", "committing"}
                      THEN blocksProduced + 1 ELSE blocksProduced
    /\ blocksProduced > 0 => blockHeight = blocksProduced
    /\ Chain(headers, IF pc = "persisting" THEN blocksProduced - 1 ELSE blocksProduced)

\* The inductive invariant.
IInv == BlockTypes /\ DownIsClean /\ HeightsInStep /\ HeadersInStep /\ UntilFailure

----------------------------------------------------------------------------
LEMMA Bounds ==
  /\ MaxHeight \in Nat /\ MaxBoots \in Nat /\ MaxFailures \in Nat /\ Retain \in Nat
  /\ Backends \subseteq {"memory", "badger"}
BY ProductionAssumption

LEMMA NoHeadersYet == <<>> \in HeaderMaps /\ \A f : Chain(f, 0)
<1>1. <<>> \in [1 .. 0 -> HeaderSet] /\ 0 \in 0 .. MaxHeight
  BY Bounds
<1>2. \A f : Chain(f, 0)
  BY DEF Chain
<1> QED
  BY <1>1, <1>2 DEF HeaderMaps

LEMMA NoHeaderType == NoHeader \in HeaderSet
BY Bounds DEF NoHeader, Genesis, HeaderSet

\* The domain of a map of headers reaches from 1 to some height.
LEMMA HeaderMapTop ==
  ASSUME NEW f \in HeaderMaps
  PROVE  \E n \in 0 .. MaxHeight : f \in [1 .. n -> HeaderSet] /\ DOMAIN f = 1 .. n
BY DEF HeaderMaps

\* The smaller distance from a bound belongs to the larger number.
LEMMA NearerIsHigher ==
  ASSUME NEW m \in Nat, NEW a \in Nat, NEW b \in Nat, m - a =< m - b
  PROVE  b =< a
OBVIOUS

\* findLatestSnapshot returns one of the files.
LEMMA LatestIsFile ==
  ASSUME snaps \in Seq(SoundFiles), snaps # <<>>
  PROVE  Latest \in SoundFiles
<1> DEFINE n == Len(snaps)
           H == {MaxHeight - snaps[i].height : i \in 1 .. n}
<1>1. n \in Nat \ {0} /\ DOMAIN snaps = 1 .. n /\ \A i \in 1 .. n : snaps[i] \in SoundFiles
  BY EmptySeq, LenProperties
<1> HIDE DEF n
<1>2. \A i \in 1 .. n : snaps[i].height \in 1 .. MaxHeight
  BY <1>1 DEF SoundFiles, Files
<1>3. H \in SUBSET Nat /\ H # {}
  BY <1>1, <1>2, Bounds
<1>4. PICK h \in H : \A k \in H : h =< k
  BY <1>3, LeastNat
<1>5. PICK i \in 1 .. n : h = MaxHeight - snaps[i].height
  BY <1>4
<1>6. \A j \in 1 .. n : snaps[j].height =< snaps[i].height
  <2> TAKE j \in 1 .. n
  <2>1. MaxHeight - snaps[j].height \in H
    OBVIOUS
  <2>2. MaxHeight - snaps[i].height =< MaxHeight - snaps[j].height
    BY <1>4, <1>5, <2>1
  <2>3. MaxHeight \in Nat /\ snaps[i].height \in Nat /\ snaps[j].height \in Nat
    BY <1>2, Bounds
  <2> QED
    BY <2>2, <2>3, NearerIsHigher
<1>7. \E s \in Range(snaps) : \A r \in Range(snaps) : r.height =< s.height
  BY <1>1, <1>6 DEF Range
<1>8. Latest \in Range(snaps)
  BY <1>7 DEF Latest
<1> QED
  BY <1>1, <1>8 DEF Range

----------------------------------------------------------------------------
LEMMA InitInvariant == Init => IInv
<1> SUFFICES ASSUME Init PROVE IInv
  OBVIOUS
<1>1. snaps \in Seq(SoundFiles)
  BY EmptySeq DEF Init
<1>2. BlockTypes
  BY <1>1, Bounds, NoHeadersYet, NoHeaderType DEF Init, BlockTypes, Phases
<1>3. DownIsClean /\ HeightsInStep
  BY <1>2, Bounds DEF Init, DownIsClean, HeightsInStep
<1>4. HeadersInStep
  <2>1. 1 .. 0 = {}
    OBVIOUS
  <2> QED
    BY <2>1 DEF Init, HeadersInStep
<1>5. UntilFailure
  BY NoHeadersYet DEF Init, UntilFailure
<1> QED
  BY <1>2, <1>3, <1>4, <1>5 DEF IInv

\* What the steps of the pool, and those within a phase, leave alone.
LEMMA QuietPreserves ==
  ASSUME IInv,
         UNCHANGED <<backend, boot, pc, header, heightVars, headers, snaps, anchorVars, failures>>
  PROVE  IInv'
<1> USE DEF heightVars, anchorVars
<1>1. BlockTypes' /\ DownIsClean' /\ HeightsInStep'
  BY DEF IInv, BlockTypes, DownIsClean, HeightsInStep
<1>2. HeadersInStep' /\ UntilFailure'
  BY DEF IInv, HeadersInStep, PreviousKnown, PreviousHash, UntilFailure
<1> QED
  BY <1>1, <1>2 DEF IInv

LEMMA AnchorPreserves ==
  ASSUME IInv, NEW h \in 1 .. MaxHeight, AnchorDone(h) \/ AnchorFails(h)
  PROVE  IInv'
<1>1. /\ UNCHANGED <<backend, boot, pc, header, heightVars, headers, snaps, failures>>
      /\ h \in anchoring /\ anchoring' \subseteq anchoring
      /\ lastAnchorHeight' \in {lastAnchorHeight, h}
  BY DEF AnchorDone, AnchorFails, blockVars
<1> USE DEF heightVars
<1>2. BlockTypes' /\ DownIsClean' /\ HeightsInStep'
  BY <1>1, Bounds DEF IInv, BlockTypes, DownIsClean, HeightsInStep
<1>3. HeadersInStep' /\ UntilFailure'
  BY <1>1 DEF IInv, HeadersInStep, PreviousKnown, PreviousHash, UntilFailure
<1> QED
  BY <1>2, <1>3 DEF IInv

\* From one phase to the next with nothing else that counts here.
LEMMA PhasePreserves ==
  ASSUME IInv, LoopExits \/ BeginBlock \/ RemovalDone
  PROVE  IInv'
<1>1. /\ UNCHANGED <<backend, boot, header, heightVars, headers, snaps, anchorVars, failures>>
      /\ \/ pc = "idle" /\ pc' = "stopped"
         \/ pc = "idle" /\ pc' = "executing" /\ engineHeight < MaxHeight
         \/ pc = "removing" /\ pc' = "committing"
  BY DEF LoopExits, BeginBlock, RemovalDone, blockVars
<1> USE DEF heightVars, anchorVars
<1>2. BlockTypes' /\ DownIsClean' /\ HeightsInStep'
  BY <1>1, Bounds DEF IInv, BlockTypes, DownIsClean, HeightsInStep, Phases
<1>3. HeadersInStep' /\ UntilFailure'
  BY <1>1 DEF IInv, HeadersInStep, PreviousKnown, PreviousHash, UntilFailure
<1> QED
  BY <1>2, <1>3 DEF IInv

LEMMA FinishExecutionPreserves ==
  ASSUME IInv, FinishExecution
  PROVE  IInv'
<1>1. /\ UNCHANGED <<backend, boot, header, blockHeight, blocksProduced, headers, snaps,
                     anchorVars, failures>>
      /\ pc = "executing" /\ pc' = "building" /\ engineHeight' = engineHeight + 1
  BY DEF FinishExecution
<1> USE DEF anchorVars
<1>2. BlockTypes' /\ DownIsClean' /\ HeightsInStep'
  BY <1>1, Bounds DEF IInv, BlockTypes, DownIsClean, HeightsInStep, Phases
<1>3. engineHeight \in Nat /\ engineHeight' - 1 = engineHeight
  BY <1>1, Bounds DEF IInv, BlockTypes
<1>4. HeadersInStep' /\ UntilFailure'
  BY <1>1, <1>3 DEF IInv, HeadersInStep, UntilFailure
<1> QED
  BY <1>2, <1>4 DEF IInv

\* In memory the previous header is always there, and with badger a missing one
\* gives the block up.
LEMMA BuildPreserves ==
  ASSUME IInv, BuildFormalBlock
  PROVE  IInv'
<1>1. /\ UNCHANGED <<backend, boot, heightVars, headers, snaps, anchorVars, failures>>
      /\ pc = "building" /\ pc' = "removing"
      /\ header' = [boot |-> boot, height |-> engineHeight, prev |-> PreviousHash]
      /\ PreviousKnown \/ backend = "memory"
  BY DEF BuildFormalBlock
<1> USE DEF heightVars, anchorVars
<1>2. engineHeight \in 1 .. MaxHeight /\ MaxHeight \in Nat
  BY <1>1, Bounds DEF IInv, BlockTypes, HeightsInStep
<1>3. PreviousKnown
  <2> SUFFICES ASSUME backend = "memory", engineHeight # 1
               PROVE  engineHeight - 1 \in DOMAIN headers
    BY <1>1 DEF PreviousKnown
  <2>1. 1 .. engineHeight - 1 \subseteq DOMAIN headers
    BY <1>1 DEF IInv, HeadersInStep
  <2> QED
    BY <1>2, <2>1
<1>4. PreviousHash \in (0 .. MaxBoots) \X (0 .. MaxHeight)
  <2>1. CASE engineHeight = 1
    BY <2>1, Bounds DEF PreviousHash, Genesis
  <2>2. CASE engineHeight # 1
    <3>1. headers[engineHeight - 1] \in HeaderSet
      BY <1>3, <2>2, HeaderMapTop DEF PreviousKnown, IInv, BlockTypes
    <3>2. PreviousHash = Id(headers[engineHeight - 1])
      BY <1>3, <2>2 DEF PreviousHash
    <3> QED
      BY <3>1, <3>2 DEF Id, HeaderSet
  <2> QED
    BY <2>1, <2>2
<1>5. header' \in HeaderSet /\ header'.height = engineHeight /\ header'.prev = PreviousHash
  BY <1>1, <1>2, <1>4 DEF HeaderSet, IInv, BlockTypes
<1>6. BlockTypes' /\ DownIsClean' /\ HeightsInStep'
  BY <1>1, <1>5, Bounds DEF IInv, BlockTypes, DownIsClean, HeightsInStep, Phases
<1>7. PreviousKnown' /\ PreviousHash' = PreviousHash
  BY <1>1, <1>3 DEF PreviousKnown, PreviousHash
<1>8. HeadersInStep'
  BY <1>1, <1>5, <1>7 DEF IInv, HeadersInStep
<1>9. UntilFailure'
  BY <1>1 DEF IInv, UntilFailure
<1> QED
  BY <1>6, <1>8, <1>9 DEF IInv

\* As long as nothing has failed, the previous header is there.
LEMMA BlockGivenUp ==
  ASSUME IInv, BuildFails
  PROVE  failures' \in 0 .. MaxFailures /\ failures' # 0
<1>1. pc = "building" /\ (Fail \/ (~ PreviousKnown /\ failures' = failures))
  BY DEF BuildFails
<1>2. failures' \in 0 .. MaxFailures /\ failures' # 0
  <2>1. failures \in 0 .. MaxFailures
    BY DEF IInv, BlockTypes
  <2>2. CASE Fail
    BY <2>1, <2>2, Bounds DEF Fail
  <2>3. CASE ~ PreviousKnown /\ failures' = failures
    <3> SUFFICES ASSUME failures = 0 PROVE FALSE
      BY <2>1, <2>3
    <3>1. engineHeight = blocksProduced + 1 /\ Chain(headers, blocksProduced)
      BY <1>1 DEF IInv, UntilFailure
    <3>2. blocksProduced \in Nat
      BY Bounds DEF IInv, BlockTypes
    <3>3. engineHeight = 1 \/ engineHeight - 1 \in 1 .. blocksProduced
      BY <3>1, <3>2
    <3> QED
      BY <2>3, <3>1, <3>3 DEF Chain, PreviousKnown
  <2> QED
    BY <1>1, <2>2, <2>3
<1> QED
  BY <1>2

LEMMA BuildFailsPreserves ==
  ASSUME IInv, BuildFails
  PROVE  IInv'
<1>1. /\ UNCHANGED <<backend, boot, header, heightVars, headers, snaps, anchorVars>>
      /\ pc = "building" /\ pc' = "idle" /\ backend = "badger"
  BY DEF BuildFails
<1> USE DEF heightVars, anchorVars
<1>2. failures' \in 0 .. MaxFailures /\ failures' # 0
  BY BlockGivenUp
<1>3. BlockTypes' /\ DownIsClean' /\ HeightsInStep'
  BY <1>1, <1>2, Bounds DEF IInv, BlockTypes, DownIsClean, HeightsInStep, Phases
<1>4. HeadersInStep' /\ UntilFailure'
  BY <1>1, <1>2 DEF IInv, HeadersInStep, UntilFailure
<1> QED
  BY <1>3, <1>4 DEF IInv

LEMMA CommitPreserves ==
  ASSUME IInv, CommitBlock
  PROVE  IInv'
<1>1. /\ UNCHANGED <<backend, boot, header, engineHeight, headers, snaps, anchorVars, failures>>
      /\ pc = "committing" /\ pc' = "persisting"
      /\ blockHeight' = header.height /\ blocksProduced' = blocksProduced + 1
  BY DEF CommitBlock, blockVars
<1> USE DEF anchorVars
<1>2. /\ engineHeight \in 0 .. MaxHeight /\ blocksProduced \in 0 .. MaxHeight
      /\ blocksProduced < engineHeight /\ header.height = engineHeight
  BY <1>1 DEF IInv, BlockTypes, HeightsInStep
<1>3. BlockTypes' /\ DownIsClean' /\ HeightsInStep'
  BY <1>1, <1>2, Bounds DEF IInv, BlockTypes, DownIsClean, HeightsInStep, Phases
<1>4. HeadersInStep'
  BY <1>1 DEF IInv, HeadersInStep, PreviousKnown, PreviousHash
<1>5. blocksProduced' - 1 = blocksProduced
  BY <1>1, <1>2, Bounds
<1>6. UntilFailure'
  BY <1>1, <1>2, <1>5 DEF IInv, UntilFailure
<1> QED
  BY <1>3, <1>4, <1>6 DEF IInv

----------------------------------------------------------------------------
\* The header goes to the end of the chain, over whatever a former run of the
\* process left at its height.
LEMMA PersistPreserves ==
  ASSUME IInv, PersistBlockHeader
  PROVE  IInv'
<1> DEFINE e == engineHeight
           stored == [h \in DOMAIN headers \cup {header.height} |->
                        IF h = header.height THEN header ELSE headers[h]]
<1>1. /\ UNCHANGED <<backend, boot, header, heightVars, snaps, lastAnchorHeight>>
      /\ pc = "persisting" /\ pc' = "snapshot"
      /\ \/ headers' = stored /\ failures' = failures
         \/ backend = "badger" /\ Fail /\ headers' = headers
      /\ anchoring' \subseteq anchoring \cup {header.height}
  BY DEF PersistBlockHeader, blockVars
<1> USE DEF heightVars
<1>2. /\ e \in 1 .. MaxHeight /\ MaxHeight \in Nat
      /\ header.height = e /\ blockHeight = e
      /\ PreviousKnown /\ header.prev = PreviousHash
      /\ header \in HeaderSet
  BY <1>1, Bounds DEF IInv, BlockTypes, HeightsInStep, HeadersInStep
<1>3. PICK n \in 0 .. MaxHeight : headers \in [1 .. n -> HeaderSet] /\ DOMAIN headers = 1 .. n
  BY HeaderMapTop DEF IInv, BlockTypes
<1>4. e - 1 =< n
  BY <1>2, <1>3 DEF PreviousKnown
<1>5. /\ stored \in HeaderMaps
      /\ DOMAIN headers \subseteq DOMAIN stored /\ e \in DOMAIN stored
      /\ stored[e] = header
      /\ \A h \in DOMAIN headers : h # e => stored[h] = headers[h]
  <2> DEFINE m == IF e =< n THEN n ELSE e
  <2>1. m \in 0 .. MaxHeight /\ DOMAIN headers \cup {header.height} = 1 .. m
    BY <1>2, <1>3, <1>4
  <2> HIDE DEF m
  <2>2. stored \in [1 .. m -> HeaderSet]
    BY <1>2, <1>3, <2>1
  <2>3. stored \in HeaderMaps
    BY <2>1, <2>2 DEF HeaderMaps
  <2> QED
    BY <1>2, <2>3
<1> HIDE DEF stored
<1>6. failures' \in 0 .. MaxFailures /\ (failures' = 0 => failures = 0 /\ headers' = stored)
  BY <1>1, Bounds DEF Fail, IInv, BlockTypes
<1>7. BlockTypes' /\ DownIsClean'
  <2>1. headers' \in HeaderMaps
    BY <1>1, <1>5 DEF IInv, BlockTypes
  <2>2. anchoring' \subseteq 1 .. MaxHeight
    BY <1>1, <1>2 DEF IInv, BlockTypes
  <2> QED
    BY <1>1, <1>6, <2>1, <2>2 DEF IInv, BlockTypes, DownIsClean, Phases
<1>8. HeightsInStep'
  BY <1>1, <1>2, Bounds DEF IInv, BlockTypes, HeightsInStep
<1>9. HeadersInStep'
  <2> SUFFICES ASSUME backend = "memory" PROVE 1 .. e \subseteq DOMAIN stored
    BY <1>1 DEF HeadersInStep
  <2>1. 1 .. e - 1 \subseteq DOMAIN headers
    BY <1>1 DEF IInv, HeadersInStep
  <2> QED
    BY <1>2, <1>5, <2>1
<1>10. UntilFailure'
  <2> SUFFICES ASSUME failures' = 0 PROVE e = blocksProduced /\ Chain(stored, e)
    <3>1. /\ engineHeight' = e /\ blockHeight' = e /\ blocksProduced' = blocksProduced
          /\ failures' = 0 => headers' = stored
      BY <1>1, <1>2, <1>6
    <3> QED
      BY <1>1, <3>1 DEF UntilFailure
  <2>1. e = blocksProduced /\ Chain(headers, e - 1)
    BY <1>1, <1>6 DEF IInv, UntilFailure
  <2>2. 1 .. e \subseteq DOMAIN stored
    BY <1>2, <1>5, <2>1 DEF Chain
  <2>3. \A h \in 2 .. e : stored[h].prev = Id(stored[h - 1])
    <3> TAKE h \in 2 .. e
    <3>1. h - 1 \in 1 .. e - 1 /\ h - 1 # e
      BY <1>2
    <3>2. stored[h - 1] = headers[h - 1] /\ h - 1 \in DOMAIN headers
      BY <1>5, <2>1, <3>1 DEF Chain
    <3>3. CASE h = e
      <4>1. e # 1
        BY <3>1
      <4>2. PreviousHash = Id(headers[e - 1])
        BY <1>2, <4>1 DEF PreviousHash
      <4> QED
        BY <1>2, <1>5, <3>2, <3>3, <4>2
    <3>4. CASE h # e
      <4>1. h \in 2 .. e - 1 /\ h \in 1 .. e - 1
        BY <1>2, <3>4
      <4>2. headers[h].prev = Id(headers[h - 1]) /\ stored[h] = headers[h]
        BY <1>5, <2>1, <3>4, <4>1 DEF Chain
      <4> QED
        BY <3>2, <4>2
    <3> QED
      BY <3>3, <3>4
  <2>4. stored[1].prev = Genesis
    <3>1. CASE e = 1
      BY <1>2, <1>5, <3>1 DEF PreviousHash
    <3>2. CASE e # 1
      <4>1. 1 \in 1 .. e - 1 /\ e - 1 > 0
        BY <1>2, <3>2
      <4> QED
        BY <1>5, <2>1, <3>2, <4>1 DEF Chain
    <3> QED
      BY <3>1, <3>2
  <2> QED
    BY <2>1, <2>2, <2>3, <2>4 DEF Chain
<1> QED
  BY <1>7, <1>8, <1>9, <1>10 DEF IInv

----------------------------------------------------------------------------
\* The snapshots.  What TakeSnapshot does to the files leaves sound ones.
LEMMA PruneKeeps ==
  ASSUME NEW files \in Seq(SoundFiles)
  PROVE  PruneOld(files) \in Seq(SoundFiles)
<1>1. CASE Retain > 0 /\ Len(files) > Retain
  <2>1. Len(files) \in Nat /\ files \in [1 .. Len(files) -> SoundFiles] /\ Retain \in Nat
    BY LenProperties, Bounds
  <2>2. Len(files) - Retain + 1 \in 1 .. Len(files)
    BY <1>1, <2>1
  <2>3. \A i \in Len(files) - Retain + 1 .. Len(files) : files[i] \in SoundFiles
    BY <2>1, <2>2
  <2>4. SubSeq(files, Len(files) - Retain + 1, Len(files)) \in Seq(SoundFiles)
    BY <2>1, <2>2, <2>3, SubSeqProperties
  <2> QED
    BY <1>1, <2>4 DEF PruneOld
<1>2. CASE ~ (Retain > 0 /\ Len(files) > Retain)
  BY <1>2 DEF PruneOld
<1> QED
  BY <1>1, <1>2

LEMMA CompleteKeeps ==
  ASSUME snaps \in Seq(SoundFiles)
  PROVE  [snaps EXCEPT ![Len(snaps)].form = "full"] \in Seq(SoundFiles)
<1> DEFINE n == Len(snaps)
           r == [snaps EXCEPT ![n].form = "full"]
<1>1. n \in Nat /\ snaps \in [1 .. n -> SoundFiles]
  BY LenProperties
<1>2. \A s \in SoundFiles : [s EXCEPT !.form = "full"] \in SoundFiles
  BY DEF SoundFiles, Files
<1> HIDE DEF n
<1>3. r \in [1 .. n -> SoundFiles]
  BY <1>1, <1>2
<1> HIDE DEF r
<1> QED
  BY <1>1, <1>3, SeqDef DEF n, r

LEMMA CreatePreserves ==
  ASSUME IInv, CreateSnapshot
  PROVE  IInv'
<1> DEFINE file == [height |-> header.height, headers |-> headers,
                    form |-> "truncated", sound |-> failures = 0]
<1>1. /\ UNCHANGED <<backend, boot, header, heightVars, headers, anchorVars, failures>>
      /\ pc = "snapshot" /\ pc' = "writing"
      /\ snaps' = Append(WithoutFile(header.height), file)
  BY DEF CreateSnapshot, blockVars
<1> USE DEF heightVars, anchorVars
<1>2. /\ header.height \in 1 .. MaxHeight /\ header.height = engineHeight
  BY <1>1, Bounds DEF IInv, BlockTypes, HeightsInStep
<1>3. file \in SoundFiles
  <2>1. file \in Files
    BY <1>2 DEF Files, IInv, BlockTypes
  <2>2. file.sound => Chain(file.headers, file.height)
    BY <1>1, <1>2 DEF IInv, UntilFailure
  <2> QED
    BY <2>1, <2>2 DEF SoundFiles
<1> HIDE DEF file
<1>4. snaps' \in Seq(SoundFiles)
  <2>1. WithoutFile(header.height) \in Seq(SoundFiles)
    BY WithoutSome DEF WithoutFile, IInv, BlockTypes
  <2> QED
    BY <1>1, <1>3, <2>1, AppendProperties
<1>5. BlockTypes' /\ DownIsClean' /\ HeightsInStep'
  BY <1>1, <1>4, Bounds DEF IInv, BlockTypes, DownIsClean, HeightsInStep, Phases
<1>6. HeadersInStep' /\ UntilFailure'
  BY <1>1 DEF IInv, HeadersInStep, UntilFailure
<1> QED
  BY <1>5, <1>6 DEF IInv

\* The end of a block, with a snapshot or without.
LEMMA EndPreserves ==
  ASSUME IInv, SkipSnapshot \/ FinishSnapshot
  PROVE  IInv'
<1>1. /\ UNCHANGED <<backend, boot, heightVars, headers, anchorVars>>
      /\ pc \in {"snapshot", "writing"} /\ pc' = "idle" /\ header' = NoHeader
      /\ failures' = failures \/ Fail
  BY DEF SkipSnapshot, FinishSnapshot, EndBlock
<1> USE DEF heightVars, anchorVars
<1>2. failures' \in 0 .. MaxFailures /\ (failures' = 0 => failures = 0)
  BY <1>1, Bounds DEF Fail, IInv, BlockTypes
<1>3. snaps' \in Seq(SoundFiles)
  <2>1. snaps \in Seq(SoundFiles)
    BY DEF IInv, BlockTypes
  <2>2. /\ [snaps EXCEPT ![Len(snaps)].form = "full"] \in Seq(SoundFiles)
        /\ WithoutFile(header.height) \in Seq(SoundFiles)
    BY <2>1, CompleteKeeps, WithoutSome DEF WithoutFile
  <2>3. /\ PruneOld([snaps EXCEPT ![Len(snaps)].form = "full"]) \in Seq(SoundFiles)
        /\ PruneOld(snaps) \in Seq(SoundFiles)
    BY <2>1, <2>2, PruneKeeps
  <2> QED
    BY <2>1, <2>2, <2>3 DEF SkipSnapshot, FinishSnapshot
<1>4. BlockTypes' /\ DownIsClean' /\ HeightsInStep'
  BY <1>1, <1>2, <1>3, Bounds, NoHeaderType DEF IInv, BlockTypes, DownIsClean, HeightsInStep, Phases
<1>5. HeadersInStep' /\ UntilFailure'
  BY <1>1, <1>2 DEF IInv, HeadersInStep, UntilFailure
<1> QED
  BY <1>4, <1>5 DEF IInv

----------------------------------------------------------------------------
\* A new run of the process counts from 0, over a store that may hold headers.
LEMMA StartPreserves ==
  ASSUME IInv, Start
  PROVE  IInv'
<1>1. /\ UNCHANGED <<backend, header, engineHeight, blocksProduced, snaps, anchorVars, failures>>
      /\ pc = "down" /\ pc' = "idle" /\ boot < MaxBoots /\ boot' = boot + 1
      /\ \/ headers' = headers /\ blockHeight' = 0
         \/ snaps # <<>> /\ headers' = Latest.headers /\ blockHeight' = Latest.height
  BY DEF Start, Restores, blockVars
<1> USE DEF anchorVars
<1>2. snaps # <<>> => Latest.headers \in HeaderMaps /\ Latest.height \in 1 .. MaxHeight
  BY LatestIsFile DEF SoundFiles, Files, IInv, BlockTypes
<1>3. /\ engineHeight = 0 /\ blocksProduced = 0
      /\ anchoring = {} /\ lastAnchorHeight = 0
  BY <1>1 DEF IInv, DownIsClean
<1>4. headers' \in HeaderMaps /\ blockHeight' \in 0 .. MaxHeight
  BY <1>1, <1>2, Bounds DEF IInv, BlockTypes
<1>5. BlockTypes' /\ DownIsClean' /\ HeightsInStep'
  BY <1>1, <1>3, <1>4, Bounds DEF IInv, BlockTypes, DownIsClean, HeightsInStep, Phases
<1>6. HeadersInStep' /\ UntilFailure'
  BY <1>1, <1>3, NoHeadersYet DEF HeadersInStep, UntilFailure
<1> QED
  BY <1>5, <1>6 DEF IInv

LEMMA CrashPreserves ==
  ASSUME IInv, Crash
  PROVE  IInv'
<1>1. /\ UNCHANGED <<backend, boot, snaps, failures>>
      /\ pc' = "down" /\ header' = NoHeader
      /\ engineHeight' = 0 /\ blockHeight' = 0 /\ blocksProduced' = 0
      /\ headers' \in {<<>>, headers}
      /\ anchoring' = {} /\ lastAnchorHeight' = 0
  BY DEF Crash
<1>2. BlockTypes' /\ DownIsClean' /\ HeightsInStep'
  BY <1>1, Bounds, NoHeadersYet, NoHeaderType DEF IInv, BlockTypes, DownIsClean, HeightsInStep, Phases
<1>3. HeadersInStep' /\ UntilFailure'
  BY <1>1, NoHeadersYet DEF HeadersInStep, UntilFailure
<1> QED
  BY <1>2, <1>3 DEF IInv

LEMMA NextPreserves == IInv /\ [Next]_vars => IInv'
<1> SUFFICES ASSUME IInv, [Next]_vars PROVE IInv'
  OBVIOUS
<1>1. CASE \/ \E t \in Txs, m \in {0, MaxAge} : SubmitTransaction(t, m)
           \/ PoolChanges \/ Stop \/ UpdateConfig \/ ExecuteNext \/ RemoveNext
           \/ UNCHANGED vars
  <2>1. UNCHANGED <<backend, boot, pc, header, heightVars, headers, snaps, anchorVars, failures>>
    BY <1>1 DEF SubmitTransaction, PoolChanges, Stop, UpdateConfig, ExecuteNext, RemoveNext, vars,
         blockVars
  <2> QED
    BY <2>1, QuietPreserves
<1> QED
  BY <1>1, StartPreserves, CrashPreserves, AnchorPreserves, PhasePreserves,
     FinishExecutionPreserves, BuildPreserves, BuildFailsPreserves, CommitPreserves,
     PersistPreserves, CreatePreserves, EndPreserves
  DEF Next, LoopStep

\* The inductive invariant holds throughout (produceBlock and what runs beside it).
THEOREM ProductionInvariant == Spec => []IInv
BY InitInvariant, NextPreserves, PTL DEF Spec

\* What the invariant says of headers, heights, anchors and snapshots.
LEMMA ProductionFacts ==
  IInv => ChainIntact /\ NoHeaderGap /\ HeightsAgree /\ AnchorNotAhead /\ SnapshotsHoldChain
<1> SUFFICES ASSUME IInv
             PROVE  ChainIntact /\ NoHeaderGap /\ HeightsAgree /\ AnchorNotAhead
                    /\ SnapshotsHoldChain
  OBVIOUS
<1>1. ChainIntact /\ HeightsAgree
  BY DEF IInv, UntilFailure, ChainIntact, HeightsAgree
<1>2. NoHeaderGap
  BY HeaderMapTop DEF IInv, BlockTypes, NoHeaderGap
<1>3. AnchorNotAhead
  BY DEF IInv, HeightsInStep, AnchorNotAhead
<1>4. ASSUME NEW s \in Range(snaps), s.form = "full" /\ s.sound
      PROVE  Chain(s.headers, s.height)
  <2>1. s \in SoundFiles
    BY LenProperties DEF IInv, BlockTypes, Range
  <2> QED
    BY <1>4, <2>1 DEF SoundFiles
<1> QED
  BY <1>1, <1>2, <1>3, <1>4 DEF SnapshotsHoldChain

\* No header is stored above a missing one, whatever fails and however often the
\* process dies (persistBlockHeader, getPreviousBlockHash).
THEOREM ProductionNoHeaderGap == Spec => []NoHeaderGap
BY ProductionFacts, ProductionInvariant, PTL

\* An anchor is never ahead of the committed height (writeBlockHeader).
THEOREM ProductionAnchorNotAhead == Spec => []AnchorNotAhead
BY ProductionFacts, ProductionInvariant, PTL

\* Between blocks the heights agree, until the storage fails (loop.go, exec.go).
THEOREM ProductionHeightsAgree == Spec => []HeightsAgree
BY ProductionFacts, ProductionInvariant, PTL

\* The blocks of this run are a chain in the store, until the storage fails
\* (buildFormalBlock, persistBlockHeader).
THEOREM ProductionChainIntact == Spec => []ChainIntact
BY ProductionFacts, ProductionInvariant, PTL

\* A complete snapshot taken before any failure holds the chain up to its height
\* (TakeSnapshot).
THEOREM ProductionSnapshotsHoldChain == Spec => []SnapshotsHoldChain
BY ProductionFacts, ProductionInvariant, PTL

----------------------------------------------------------------------------
\* The pool under the blocks keeps the invariant of MempoolProofs.  A process that
\* dies leaves what a new one begins with.
LEMMA PoolOfDead ==
  ASSUME Crash
  PROVE  PoolInv' /\ transactions' = {} /\ ~running'
<1>1. NewMempool'
  BY DEF Crash, NewMempool
<1>2. NewMempool' => PoolInv'
  BY NewMempoolInvariant, PTL
<1> QED
  BY <1>1, <1>2 DEF NewMempool

LEMMA PoolUnchanged ==
  ASSUME PoolInv, UNCHANGED poolVars
  PROVE  PoolInv' /\ transactions' = transactions /\ running' = running
BY UnchangedInvariant DEF PoolInv, PoolTypeOK, poolVars, indexVars, lifeVars

\* What the other goroutines do to the pool adds nothing to it.
LEMMA PoolSteps ==
  ASSUME PoolInv, PoolStart \/ PoolStop \/ Cleanup \/ CleanerExits \/ Flush
  PROVE  PoolInv' /\ transactions' \subseteq transactions
<1>1. PoolInv'
  BY PoolNextInvariant DEF PoolNext
<1>2. transactions' \subseteq transactions
  BY DEF PoolStart, PoolStop, Cleanup, CleanerExits, Flush, Evict, indexVars
<1> QED
  BY <1>1, <1>2

----------------------------------------------------------------------------
\* The batch that produceBlock works on, and how far it is.
BatchInStep ==
  /\ batch \in Seq(Txs) /\ Len(batch) =< MaxTransactions
  /\ done \in 0 .. Len(batch)
  /\ runs \in [Txs -> 0 .. 2]
  /\ stale \in BOOLEAN
  /\ pc = "down" => transactions = {} /\ ~running
  /\ pc \in {"down", "idle", "building"} => done = 0

\* A pooled transaction that has run is in the part of the batch that is still to
\* be removed from the pool, and one still to run has not run since it was added.
RunsInStep ==
  failures = 0 =>
    /\ \A i, j \in DOMAIN batch : batch[i] = batch[j] => i = j
    /\ pc = "executing" => \A i \in DOMAIN batch : i > done => runs[batch[i]] = 0
    /\ \A t \in transactions :
         runs[t] # 0 =>
           \E i \in DOMAIN batch :
             /\ batch[i] = t
             /\ \/ pc = "executing" /\ i =< done
                \/ pc = "building"
                \/ pc = "removing" /\ i > done
    /\ \A t \in Txs : runs[t] =< 1

\* The inductive invariant of the transactions, on top of IInv.
RInv == PoolInv /\ BatchInStep /\ RunsInStep

LEMMA BatchLength ==
  ASSUME BatchInStep
  PROVE  /\ Len(batch) \in Nat /\ DOMAIN batch = 1 .. Len(batch)
         /\ \A i \in 1 .. Len(batch) : batch[i] \in Txs
BY LenProperties DEF BatchInStep

LEMMA NoBatch ==
  /\ <<>> \in Seq(Txs) /\ Len(<<>>) = 0 /\ DOMAIN <<>> = {}
  /\ MaxTransactions \in Nat
BY ProductionAssumption

LEMMA RunsInit == Init => RInv
<1> SUFFICES ASSUME Init PROVE RInv
  OBVIOUS
<1>1. transactions = {} /\ running = FALSE
  BY DEF Init, NewMempool
<1>4. PoolInv
  BY NewMempoolInvariant DEF Init
<1>5. BatchInStep
  <2>1. /\ batch = <<>> /\ done = 0 /\ pc = "down" /\ stale = FALSE
        /\ runs = [t \in Txs |-> 0]
    BY DEF Init
  <2>2. batch \in Seq(Txs) /\ Len(batch) = 0 /\ runs \in [Txs -> 0 .. 2]
    BY <2>1, NoBatch
  <2>3. Len(batch) =< MaxTransactions /\ done \in 0 .. Len(batch)
    BY <2>1, <2>2, NoBatch
  <2> QED
    BY <1>1, <2>1, <2>2, <2>3 DEF BatchInStep
<1>6. RunsInStep
  BY <1>1 DEF Init, RunsInStep
<1> QED
  BY <1>4, <1>5, <1>6 DEF RInv

\* Other goroutines: what leaves the pool or comes to it meanwhile.
LEMMA RunsMeanwhile ==
  ASSUME RInv, UNCHANGED <<pc, batch, done, failures>>, PoolInv', stale' \in BOOLEAN,
         pc = "down" => transactions' = {} /\ ~running',
         \/ transactions' \subseteq transactions /\ runs' = runs
         \/ \E t \in Txs : transactions' = transactions \cup {t} /\ runs' = [runs EXCEPT ![t] = 0]
  PROVE  RInv'
<1>1. CASE transactions' \subseteq transactions /\ runs' = runs
  BY <1>1 DEF RInv, BatchInStep, RunsInStep
<1>2. ASSUME NEW t \in Txs, transactions' = transactions \cup {t}, runs' = [runs EXCEPT ![t] = 0]
      PROVE  RInv'
  <2>1. runs \in [Txs -> 0 .. 2]
    BY DEF RInv, BatchInStep
  <2>2. runs' \in [Txs -> 0 .. 2] /\ runs'[t] = 0 /\ \A u \in Txs \ {t} : runs'[u] = runs[u]
    BY <1>2, <2>1
  <2>3. BatchInStep'
    BY <1>2, <2>2 DEF RInv, BatchInStep
  <2>4. transactions \subseteq Txs /\ \A i \in DOMAIN batch : batch[i] \in Txs
    BY BatchLength DEF RInv, PoolInv, PoolTypeOK, IndexesAgree
  <2>5. RunsInStep'
    BY <1>2, <2>2, <2>4 DEF RInv, RunsInStep
  <2> QED
    BY <2>3, <2>5 DEF RInv
<1> QED
  BY <1>1, <1>2

LEMMA RunsOthers ==
  ASSUME RInv,
         \/ \E t \in Txs, m \in {0, MaxAge} : SubmitTransaction(t, m)
         \/ PoolChanges \/ Stop \/ UpdateConfig
         \/ \E h \in 1 .. MaxHeight : AnchorDone(h) \/ AnchorFails(h)
  PROVE  RInv'
<1> USE DEF blockVars
<1>1. PoolInv /\ stale \in BOOLEAN
  BY DEF RInv, BatchInStep
<1>2. ASSUME NEW t \in Txs, NEW m \in {0, MaxAge}, SubmitTransaction(t, m)
      PROVE  RInv'
  <2>1. m \in 0 .. MaxAge
    BY ConfigAssumption
  <2>2. PoolInv'
    BY <1>1, <1>2, <2>1, AddInvariant DEF SubmitTransaction
  <2>3. /\ transactions' = transactions \cup {t} /\ runs' = [runs EXCEPT ![t] = 0]
        /\ UNCHANGED <<pc, batch, done, failures, stale>>
        /\ pc # "down"
    BY <1>2 DEF SubmitTransaction, AddTransaction, RInv, BatchInStep
  <2> QED
    BY <1>1, <2>2, <2>3, RunsMeanwhile
<1>3. CASE PoolChanges \/ Stop
  <2>1. PoolInv' /\ transactions' \subseteq transactions
    BY <1>1, <1>3, PoolSteps DEF PoolChanges, Stop
  <2>2. UNCHANGED <<pc, batch, done, failures, stale, runs>> /\ pc # "down"
    BY <1>3 DEF PoolChanges, Stop
  <2> QED
    BY <1>1, <2>1, <2>2, RunsMeanwhile
<1>4. CASE UpdateConfig \/ \E h \in 1 .. MaxHeight : AnchorDone(h) \/ AnchorFails(h)
  <2>1. UNCHANGED <<poolVars, pc, batch, done, failures, runs>> /\ stale' \in BOOLEAN
    BY <1>1, <1>4 DEF UpdateConfig, AnchorDone, AnchorFails
  <2>2. PoolInv' /\ transactions' \subseteq transactions
    BY <1>1, <2>1, PoolUnchanged
  <2>3. pc = "down" => transactions' = {} /\ ~running'
    BY <2>1 DEF poolVars, indexVars, lifeVars, RInv, BatchInStep
  <2> QED
    BY <2>1, <2>2, <2>3, RunsMeanwhile
<1> QED
  BY <1>2, <1>3, <1>4

\* The process starts with a pool that is still empty, and dies without one.
LEMMA RunsStart ==
  ASSUME RInv, Start
  PROVE  RInv'
<1>1. /\ UNCHANGED <<batch, done, failures, stale, runs>>
      /\ pc = "down" /\ pc' = "idle" /\ PoolStart
  BY DEF Start, blockVars
<1>2. PoolInv' /\ transactions' \subseteq transactions
  BY <1>1, PoolSteps DEF RInv
<1>3. BatchInStep' /\ transactions' = {}
  BY <1>1, <1>2 DEF RInv, BatchInStep
<1>4. RunsInStep'
  BY <1>1, <1>3 DEF RInv, RunsInStep
<1> QED
  BY <1>2, <1>3, <1>4 DEF RInv

LEMMA RunsCrash ==
  ASSUME Crash
  PROVE  RInv'
<1>1. PoolInv'
  BY PoolOfDead
<1>2. /\ batch' = <<>> /\ done' = 0 /\ runs' = [t \in Txs |-> 0] /\ transactions' = {}
      /\ stale' = FALSE /\ ~running'
  BY DEF Crash
<1>3. batch' \in Seq(Txs) /\ Len(batch') = 0 /\ runs' \in [Txs -> 0 .. 2]
  BY <1>2, NoBatch
<1>4. Len(batch') =< MaxTransactions /\ done' \in 0 .. Len(batch')
  BY <1>2, <1>3, NoBatch
<1>5. BatchInStep'
  BY <1>2, <1>3, <1>4 DEF BatchInStep
<1>6. RunsInStep'
  BY <1>2 DEF RunsInStep
<1> QED
  BY <1>1, <1>5, <1>6 DEF RInv

\* The block gets the first transactions of the pool, none of which has run.
LEMMA RunsBegin ==
  ASSUME RInv, BeginBlock
  PROVE  RInv'
<1> DEFINE n == Len(byPriority)
           c == IF MaxTransactions < n THEN MaxTransactions ELSE n
<1>1. /\ UNCHANGED <<poolVars, done, stale, runs, failures>>
      /\ pc = "idle" /\ pc' = "executing"
      /\ batch' = SubSeq(byPriority, 1, c)
  BY DEF BeginBlock, GetTopTransactions
<1>2. /\ byPriority \in Seq(Txs) /\ n \in Nat
      /\ byPriority \in [1 .. n -> Txs] /\ DOMAIN byPriority = 1 .. n
      /\ Lists(byPriority, transactions)
  BY LenProperties DEF RInv, PoolInv, PoolTypeOK, IndexesAgree
<1>3. c \in 0 .. n /\ c =< MaxTransactions
  BY <1>2, ProductionAssumption
<1> HIDE DEF c
<1>4. /\ batch' \in Seq(Txs) /\ Len(batch') = c /\ DOMAIN batch' = 1 .. c
      /\ \A i \in 1 .. c : batch'[i] = byPriority[i]
  <2>1. \A i \in 1 .. c : byPriority[i] \in Txs
    BY <1>2, <1>3
  <2>2. /\ SubSeq(byPriority, 1, c) \in Seq(Txs)
        /\ Len(SubSeq(byPriority, 1, c)) = IF 1 =< c THEN c - 1 + 1 ELSE 0
        /\ \A i \in 1 .. c - 1 + 1 : SubSeq(byPriority, 1, c)[i] = byPriority[1 + i - 1]
    BY <1>2, <1>3, <2>1, SubSeqProperties
  <2>3. Len(batch') = c
    BY <1>1, <1>3, <2>2
  <2>4. DOMAIN batch' = 1 .. c
    BY <1>1, <2>2, <2>3, LenProperties
  <2> QED
    BY <1>1, <1>3, <2>2, <2>3, <2>4
<1>5. PoolInv'
  BY <1>1, PoolUnchanged DEF RInv
<1>6. done' = 0 /\ runs' \in [Txs -> 0 .. 2] /\ stale' \in BOOLEAN
  BY <1>1 DEF RInv, BatchInStep
<1>7. BatchInStep'
  BY <1>1, <1>3, <1>4, <1>6 DEF BatchInStep
<1>8. ASSUME failures' = 0
      PROVE  /\ \A i \in 1 .. c : batch'[i] \in transactions
             /\ \A i, j \in 1 .. c : batch'[i] = batch'[j] => i = j
             /\ \A t \in transactions : runs[t] = 0
             /\ \A t \in Txs : runs[t] =< 1
  <2>1. /\ \A t \in transactions : runs[t] = 0
        /\ \A t \in Txs : runs[t] =< 1
    BY <1>1, <1>8 DEF RInv, RunsInStep
  <2>2. /\ \A i \in 1 .. c : byPriority[i] \in transactions
        /\ \A i, j \in 1 .. c : byPriority[i] = byPriority[j] => i = j
    BY <1>2, <1>3 DEF Lists
  <2> QED
    BY <1>1, <1>4, <2>1, <2>2
<1>9. RunsInStep'
  BY <1>1, <1>4, <1>8 DEF RunsInStep, poolVars, indexVars
<1> QED
  BY <1>5, <1>7, <1>9 DEF RInv

\* A transaction of the block that runs has not run since it came to the pool.
LEMMA RunsExecute ==
  ASSUME RInv, ExecuteNext
  PROVE  RInv'
<1> DEFINE t == batch[done + 1]
<1>1. /\ UNCHANGED <<poolVars, batch, pc, stale, failures>>
      /\ pc = "executing" /\ done < Len(batch) /\ done' = done + 1
      /\ runs' = [runs EXCEPT ![t] = IF @ = 2 THEN 2 ELSE @ + 1]
  BY DEF ExecuteNext
<1>2. /\ Len(batch) \in Nat /\ DOMAIN batch = 1 .. Len(batch)
      /\ \A i \in 1 .. Len(batch) : batch[i] \in Txs
      /\ done \in 0 .. Len(batch) /\ runs \in [Txs -> 0 .. 2]
  BY BatchLength DEF RInv, BatchInStep
<1>3. done + 1 \in 1 .. Len(batch) /\ t \in Txs
  BY <1>1, <1>2
<1>4. PoolInv' /\ transactions' = transactions
  BY <1>1, PoolUnchanged DEF RInv
<1>5. /\ runs' \in [Txs -> 0 .. 2] /\ runs'[t] = (IF runs[t] = 2 THEN 2 ELSE runs[t] + 1)
      /\ \A u \in Txs \ {t} : runs'[u] = runs[u]
  BY <1>1, <1>2, <1>3
<1>6. done' \in 0 .. Len(batch)
  BY <1>1, <1>2
<1>7. BatchInStep'
  BY <1>1, <1>5, <1>6 DEF RInv, BatchInStep
<1>8. RunsInStep'
  <2> SUFFICES ASSUME failures = 0
               PROVE  /\ \A i, j \in DOMAIN batch : batch[i] = batch[j] => i = j
                      /\ \A i \in DOMAIN batch : i > done + 1 => runs'[batch[i]] = 0
                      /\ \A u \in transactions : runs'[u] # 0 =>
                           \E i \in DOMAIN batch : batch[i] = u /\ i =< done + 1
                      /\ \A u \in Txs : runs'[u] =< 1
    BY <1>1, <1>4 DEF RunsInStep
  <2>1. /\ \A i, j \in DOMAIN batch : batch[i] = batch[j] => i = j
        /\ \A i \in DOMAIN batch : i > done => runs[batch[i]] = 0
        /\ \A u \in transactions : runs[u] # 0 =>
             \E i \in DOMAIN batch : batch[i] = u /\ i =< done
        /\ \A u \in Txs : runs[u] =< 1
    BY <1>1 DEF RInv, RunsInStep
  <2>2. runs[t] = 0 /\ runs'[t] = 1
    BY <1>2, <1>3, <1>5, <2>1
  <2>3. ASSUME NEW i \in DOMAIN batch, i > done + 1 PROVE runs'[batch[i]] = 0
    <3>1. batch[i] # t /\ i > done /\ batch[i] \in Txs
      BY <1>2, <1>3, <2>1, <2>3
    <3> QED
      BY <1>5, <2>1, <3>1
  <2>4. ASSUME NEW u \in transactions, runs'[u] # 0
        PROVE  \E i \in DOMAIN batch : batch[i] = u /\ i =< done + 1
    <3>1. u \in Txs
      BY DEF RInv, PoolInv, PoolTypeOK, IndexesAgree
    <3>2. CASE u = t
      BY <1>2, <1>3, <3>2
    <3>3. CASE u # t
      BY <1>2, <1>5, <2>1, <2>4, <3>1, <3>3
    <3> QED
      BY <3>2, <3>3
  <2>5. \A u \in Txs : runs'[u] =< 1
    BY <1>5, <2>1, <2>2
  <2> QED
    BY <2>1, <2>3, <2>4, <2>5
<1> QED
  BY <1>4, <1>7, <1>8 DEF RInv

\* From phase to phase with the batch as it is.
LEMMA RunsPhase ==
  ASSUME RInv, UNCHANGED <<poolVars, batch, stale, runs, failures>>,
         \/ done' = done /\ pc = "idle" /\ pc' = "stopped"
         \/ done' = 0 /\ pc = "executing" /\ done = Len(batch) /\ pc' = "building"
         \/ done' = done /\ pc = "building" /\ pc' = "removing"
         \/ done' = done /\ pc = "removing" /\ done = Len(batch) /\ pc' = "committing"
         \/ done' = done /\ pc = "committing" /\ pc' = "persisting"
         \/ done' = done /\ pc = "snapshot" /\ pc' = "writing"
  PROVE  RInv'
<1>1. PoolInv' /\ transactions' = transactions
  BY PoolUnchanged DEF RInv
<1>2. /\ Len(batch) \in Nat /\ DOMAIN batch = 1 .. Len(batch) /\ done \in 0 .. Len(batch)
  BY BatchLength DEF RInv, BatchInStep
<1>3. done' \in 0 .. Len(batch) /\ (pc' \in {"down", "idle", "building"} => done' = 0)
      /\ pc' # "down"
  <2>1. (pc' \in {"down", "idle", "building"} => done' = 0) /\ pc' # "down"
    OBVIOUS
  <2>2. done' = 0 \/ done' = done
    OBVIOUS
  <2>3. done' \in 0 .. Len(batch)
    BY ONLY <1>2, <2>2
  <2> QED
    BY <2>1, <2>3
<1>4. BatchInStep'
  BY <1>3 DEF RInv, BatchInStep
<1>5. RunsInStep'
  <2> SUFFICES ASSUME failures = 0, NEW t \in transactions, runs[t] # 0
               PROVE  \E i \in DOMAIN batch :
                        batch[i] = t /\ (pc' = "building" \/ (pc' = "removing" /\ i > done'))
    BY <1>1 DEF RInv, RunsInStep
  <2>1. PICK i \in DOMAIN batch :
           /\ batch[i] = t
           /\ \/ pc = "executing" /\ i =< done
              \/ pc = "building"
              \/ pc = "removing" /\ i > done
    BY DEF RInv, RunsInStep
  <2>2. i \in 1 .. Len(batch)
    BY <1>2
  <2>3. CASE pc = "executing" /\ i =< done
    <3>1. pc' = "building"
      BY <2>3
    <3> QED
      BY <2>1, <3>1
  <2>4. CASE pc = "building"
    <3>1. done = 0
      BY <2>4 DEF RInv, BatchInStep
    <3>2. pc' = "removing" /\ done' = done
      BY <2>4
    <3>3. i > done'
      BY ONLY <1>2, <2>2, <3>1, <3>2
    <3> QED
      BY <2>1, <3>2, <3>3
  <2>5. CASE pc = "removing" /\ i > done
    <3>1. done = Len(batch)
      BY <2>5
    <3> QED
      BY ONLY <1>2, <2>2, <2>5, <3>1
  <2> QED
    BY <2>1, <2>3, <2>4, <2>5
<1> QED
  BY <1>1, <1>4, <1>5 DEF RInv

\* The block is over, or given up after a failure.
LEMMA RunsEnd ==
  ASSUME RInv, UNCHANGED <<poolVars, stale, runs>>, batch' = <<>>, done' = 0,
         pc' = "idle", failures' = 0 => failures = 0 /\ pc \in {"snapshot", "writing"}
  PROVE  RInv'
<1>1. PoolInv' /\ transactions' = transactions
  BY PoolUnchanged DEF RInv
<1>2. batch' \in Seq(Txs) /\ Len(batch') = 0 /\ runs' \in [Txs -> 0 .. 2] /\ stale' \in BOOLEAN
  BY NoBatch DEF RInv, BatchInStep
<1>3. Len(batch') =< MaxTransactions /\ done' \in 0 .. Len(batch')
  BY <1>2, NoBatch
<1>4. BatchInStep'
  BY <1>2, <1>3 DEF BatchInStep
<1>5. RunsInStep'
  BY <1>1, NoBatch DEF RInv, RunsInStep
<1> QED
  BY <1>1, <1>4, <1>5 DEF RInv

\* The header is persisted, or that fails.
LEMMA RunsPersist ==
  ASSUME IInv, RInv, PersistBlockHeader
  PROVE  RInv'
<1>1. /\ UNCHANGED <<poolVars, batch, done, stale, runs>>
      /\ pc = "persisting" /\ pc' = "snapshot" /\ (failures' = failures \/ Fail)
  BY DEF PersistBlockHeader, blockVars
<1>2. failures' = 0 => failures = 0
  BY <1>1, Bounds DEF Fail, IInv, BlockTypes
<1>3. PoolInv' /\ transactions' = transactions
  BY <1>1, PoolUnchanged DEF RInv
<1>4. BatchInStep' /\ RunsInStep'
  BY <1>1, <1>2, <1>3 DEF RInv, BatchInStep, RunsInStep
<1> QED
  BY <1>3, <1>4 DEF RInv

\* A transaction of the block leaves the pool, if it is still there.
LEMMA RunsRemove ==
  ASSUME RInv, RemoveNext
  PROVE  RInv'
<1> DEFINE t == batch[done + 1]
<1>1. /\ UNCHANGED <<batch, pc, stale, failures, runs>>
      /\ pc = "removing" /\ done < Len(batch) /\ done' = done + 1
      /\ RemoveTransaction(t) \/ (t \notin transactions /\ UNCHANGED poolVars)
  BY DEF RemoveNext
<1>2. /\ Len(batch) \in Nat /\ DOMAIN batch = 1 .. Len(batch) /\ done \in 0 .. Len(batch)
  BY BatchLength DEF RInv, BatchInStep
<1>3. PoolInv' /\ transactions' = transactions \ {t}
  <2>1. CASE t \notin transactions /\ UNCHANGED poolVars
    BY <2>1, PoolUnchanged DEF RInv
  <2>2. CASE RemoveTransaction(t)
    <3>1. PICK u \in transactions : u = t
      BY <2>2 DEF RemoveTransaction
    <3>2. /\ {u} \in SUBSET transactions /\ Evict({u})
          /\ UNCHANGED lifeVars
      BY <2>2, <3>1 DEF RemoveTransaction
    <3>3. PoolInv'
      BY <3>2, EvictInvariant DEF RInv
    <3>4. transactions' = transactions \ {u}
      BY <3>2 DEF Evict
    <3> QED
      BY <3>1, <3>3, <3>4
  <2> QED
    BY <1>1, <2>1, <2>2
<1>4. done' \in 0 .. Len(batch)
  BY <1>1, <1>2
<1>5. BatchInStep'
  BY <1>1, <1>4 DEF RInv, BatchInStep
<1>6. RunsInStep'
  <2> SUFFICES ASSUME failures = 0, NEW u \in transactions, u # t, runs[u] # 0
               PROVE  \E i \in DOMAIN batch : batch[i] = u /\ i > done + 1
    BY <1>1, <1>3 DEF RInv, RunsInStep
  <2>1. PICK i \in DOMAIN batch : batch[i] = u /\ i > done
    BY <1>1 DEF RInv, RunsInStep
  <2> QED
    BY <1>2, <2>1
<1> QED
  BY <1>3, <1>5, <1>6 DEF RInv

LEMMA RunsNext == IInv /\ RInv /\ [Next]_vars => RInv'
<1> SUFFICES ASSUME IInv, RInv, [Next]_vars PROVE RInv'
  OBVIOUS
<1> USE DEF blockVars
<1>1. CASE LoopExits \/ FinishExecution \/ BuildFormalBlock \/ RemovalDone \/ CommitBlock
           \/ CreateSnapshot
  BY <1>1, RunsPhase
  DEF LoopExits, FinishExecution, BuildFormalBlock, RemovalDone, CommitBlock, CreateSnapshot
<1>2. CASE BuildFails
  <2>1. /\ UNCHANGED <<poolVars, stale, runs>> /\ batch' = <<>> /\ done' = 0 /\ pc' = "idle"
    BY <1>2 DEF BuildFails, RInv, BatchInStep
  <2> QED
    BY <1>2, <2>1, BlockGivenUp, RunsEnd
<1>3. CASE SkipSnapshot \/ FinishSnapshot
  <2>1. /\ UNCHANGED <<poolVars, stale, runs>> /\ batch' = <<>> /\ done' = 0 /\ pc' = "idle"
        /\ pc \in {"snapshot", "writing"} /\ (failures' = failures \/ Fail)
    BY <1>3 DEF SkipSnapshot, FinishSnapshot, EndBlock
  <2>2. failures' = 0 => failures = 0
    BY <2>1, Bounds DEF Fail, IInv, BlockTypes
  <2> QED
    BY <2>1, <2>2, RunsEnd
<1>4. CASE UNCHANGED vars
  <2>1. UNCHANGED <<poolVars, pc, batch, done, stale, runs, failures>>
    BY <1>4 DEF vars
  <2>2. PoolInv'
    BY <2>1, PoolUnchanged DEF RInv
  <2> QED
    BY <2>1, <2>2 DEF poolVars, indexVars, lifeVars, RInv, BatchInStep, RunsInStep
<1> QED
  BY <1>1, <1>2, <1>3, <1>4, RunsStart, RunsCrash, RunsOthers, RunsBegin, RunsExecute,
     RunsRemove, RunsPersist
  DEF Next, LoopStep

\* The pool, the batch and the executions stay in step (produceBlock).
THEOREM ProductionRunsInvariant == Spec => []RInv
<1>1. Init => RInv
  BY RunsInit
<1>2. IInv /\ RInv /\ [Next]_vars => RInv'
  BY RunsNext
<1> QED
  BY <1>1, <1>2, ProductionInvariant, PTL DEF Spec

\* Until the storage fails, a transaction runs at most once for each time it is
\* accepted (ExecuteTransactions, RemoveTransaction).
THEOREM ProductionRunsAtMostOnce == Spec => []RunsAtMostOnce
<1>1. RInv => RunsAtMostOnce
  BY DEF RInv, RunsInStep, RunsAtMostOnce
<1> QED
  BY <1>1, ProductionRunsInvariant, PTL

LEMMA HeaderMapType ==
  ASSUME NEW f \in HeaderMaps
  PROVE  IsHeaderMap(f)
<1>1. PICK n \in 0 .. MaxHeight : f \in [1 .. n -> HeaderSet] /\ DOMAIN f = 1 .. n
  BY HeaderMapTop
<1> QED
  BY <1>1, Bounds DEF IsHeaderMap

BatchTypes ==
  /\ batch \in Seq(Txs) /\ Len(batch) =< MaxTransactions
  /\ done \in 0 .. Len(batch)
  /\ runs \in [Txs -> 0 .. 2]
  /\ stale \in BOOLEAN

LEMMA ProductionTypes ==
  ASSUME IInv, PoolTypeOK, BatchTypes
  PROVE  TypeOK
<1>1. /\ backend \in Backends /\ boot \in 0 .. MaxBoots /\ pc \in Phases
      /\ header \in HeaderSet
      /\ engineHeight \in 0 .. MaxHeight /\ blockHeight \in 0 .. MaxHeight
      /\ blocksProduced \in 0 .. MaxHeight
      /\ anchoring \subseteq 1 .. MaxHeight /\ lastAnchorHeight \in 0 .. MaxHeight
      /\ failures \in 0 .. MaxFailures
  BY DEF IInv, BlockTypes
<1>2. IsHeaderMap(headers)
  BY HeaderMapType DEF IInv, BlockTypes
<1>3. ASSUME NEW i \in DOMAIN snaps
      PROVE  /\ snaps[i].height \in 1 .. MaxHeight
             /\ IsHeaderMap(snaps[i].headers)
             /\ snaps[i].form \in {"full", "truncated"}
             /\ snaps[i].sound \in BOOLEAN
  <2>1. snaps[i] \in SoundFiles
    BY LenProperties DEF IInv, BlockTypes
  <2>2. snaps[i] \in Files
    BY <2>1 DEF SoundFiles
  <2>3. snaps[i].headers \in HeaderMaps
    BY <2>2 DEF Files
  <2> QED
    BY <2>2, <2>3, HeaderMapType DEF Files
<1> QED
  BY <1>1, <1>2, <1>3 DEF BatchTypes, TypeOK

\* The variables of block production have their types (Sequencer, Mempool).
THEOREM ProductionTypeOK == Spec => []TypeOK
<1>1. IInv /\ RInv => TypeOK
  BY ProductionTypes DEF RInv, PoolInv, BatchInStep, BatchTypes
<1> QED
  BY <1>1, ProductionInvariant, ProductionRunsInvariant, PTL

----------------------------------------------------------------------------
\* The behaviours of Sequencer: in those about the pool nothing is produced.
IdleLoop == batch = <<>> /\ done = 0 /\ stale = FALSE /\ runs = [t \in Txs |-> 0]

SequencerInv ==
  /\ part \in {"pool", "blocks"}
  /\ PoolInv /\ IInv
  /\ part = "blocks" => RInv
  /\ part = "pool" => IdleLoop

LEMMA SequencerInitInvariant == SequencerInit => SequencerInv
<1> SUFFICES ASSUME SequencerInit PROVE SequencerInv
  OBVIOUS
<1>1. IInv /\ RInv
  BY InitInvariant, RunsInit DEF SequencerInit
<1>2. IdleLoop
  BY DEF SequencerInit, Init, IdleLoop
<1> QED
  BY <1>1, <1>2 DEF SequencerInit, SequencerInv, RInv

LEMMA SequencerNextPreserves ==
  SequencerInv /\ [SequencerNext]_sequencerVars => SequencerInv'
<1> SUFFICES ASSUME SequencerInv, [SequencerNext]_sequencerVars PROVE SequencerInv'
  OBVIOUS
<1> USE DEF SequencerInv
<1>1. CASE part = "pool" /\ part' = part /\ [PoolNext]_poolVars /\ UNCHANGED loopVars
  <2>1. PoolInv'
    BY <1>1, PoolNextInvariant
  <2>2. IInv'
    BY <1>1, QuietPreserves DEF loopVars, blockVars
  <2>3. IdleLoop'
    BY <1>1 DEF loopVars, blockVars, IdleLoop
  <2> QED
    BY <1>1, <2>1, <2>2, <2>3
<1>2. CASE part = "blocks" /\ part' = part /\ [Next]_vars
  BY <1>2, NextPreserves, RunsNext DEF RInv
<1>3. CASE UNCHANGED sequencerVars
  <2>1. UNCHANGED part /\ UNCHANGED vars
    BY <1>3 DEF sequencerVars
  <2>2. PoolInv' /\ IInv'
    BY <2>1, NextPreserves, PoolUnchanged DEF vars
  <2>3. RInv => RInv'
    BY <2>1, RunsNext
  <2>4. IdleLoop => IdleLoop'
    BY <2>1 DEF vars, blockVars, IdleLoop
  <2> QED
    BY <2>1, <2>2, <2>3, <2>4
<1> QED
  BY <1>1, <1>2, <1>3 DEF SequencerNext

\* The pool keeps its invariant under every sequence of calls and under the blocks, and
\* block production its own.
THEOREM SequencerInvariant == SequencerSpec => []SequencerInv
BY SequencerInitInvariant, SequencerNextPreserves, PTL DEF SequencerSpec

\* Every invariant of the pool and of block production in the behaviours of Sequencer: types,
\* stores, order, limits and totals; headers, heights, executions, anchors and snapshots.
THEOREM SequencerIsSafe ==
  SequencerSpec => [](/\ TypeOK /\ IndexesAgree /\ SortedByPriority /\ WithinCapacity
                      /\ MetricsAgree /\ ChainIntact /\ NoHeaderGap /\ HeightsAgree
                      /\ RunsAtMostOnce /\ AnchorNotAhead /\ SnapshotsHoldChain)
<1>1. SequencerInv => TypeOK
  <2> SUFFICES ASSUME SequencerInv PROVE TypeOK
    OBVIOUS
  <2>1. CASE part = "blocks"
    BY <2>1, ProductionTypes
    DEF SequencerInv, RInv, PoolInv, BatchInStep, BatchTypes
  <2>2. CASE part = "pool"
    <3>1. batch = <<>> /\ done = 0 /\ stale = FALSE /\ runs = [t \in Txs |-> 0]
      BY <2>2 DEF SequencerInv, IdleLoop
    <3>2. MaxTransactions >= 0
      BY ProductionAssumption
    <3>3. batch \in Seq(Txs) /\ Len(batch) = 0
      BY <3>1, NoBatch
    <3>4. runs \in [Txs -> 0 .. 2] /\ stale \in BOOLEAN
      <4>1. 0 \in 0 .. 2
        OBVIOUS
      <4>2. [t \in Txs |-> 0] \in [Txs -> 0 .. 2]
        BY <4>1
      <4> QED
        BY <3>1, <4>2
    <3>5. BatchTypes
      BY <3>1, <3>2, <3>3, <3>4 DEF BatchTypes
    <3> QED
      BY <3>5, ProductionTypes DEF SequencerInv, PoolInv
  <2> QED
    BY <2>1, <2>2 DEF SequencerInv
<1>2. SequencerInv => /\ IndexesAgree /\ SortedByPriority /\ WithinCapacity /\ MetricsAgree
  BY DEF SequencerInv, PoolInv
<1>3. SequencerInv => RunsAtMostOnce
  BY DEF SequencerInv, IdleLoop, RInv, RunsInStep, RunsAtMostOnce
<1>4. SequencerInv => ChainIntact /\ NoHeaderGap /\ HeightsAgree /\ AnchorNotAhead
                      /\ SnapshotsHoldChain
  BY ProductionFacts DEF SequencerInv
<1> QED
  BY <1>1, <1>2, <1>3, <1>4, SequencerInvariant, PTL

\* Under the calls of the pool and under blocks, deaths and restarts, no transaction that
\* stays in the pool is overtaken but by UpdatePriorities.
THEOREM SequencerNoOvertaking == SequencerSpec => NoOvertaking
<1>1. SequencerInv /\ [SequencerNext]_sequencerVars => [UpdatePriorities \/ KeepsOrder]_poolVars
  <2> SUFFICES ASSUME PoolInv, [SequencerNext]_sequencerVars
               PROVE  [UpdatePriorities \/ KeepsOrder]_poolVars
    BY DEF SequencerInv
  <2>1. CASE [PoolNext]_poolVars
    BY <2>1, PoolKeepsOrder
  <2>2. CASE Crash
    BY <2>2 DEF Crash, KeepsOrder
  <2>3. CASE ~ Crash /\ [Next]_vars
    <3>1. CASE Start \/ Stop \/ PoolChanges
      BY <2>1, <3>1 DEF Start, Stop, PoolChanges, PoolNext
    <3>2. CASE \E t \in Txs, m \in {0, MaxAge} : SubmitTransaction(t, m)
      BY <2>1, <3>2 DEF SubmitTransaction, PoolNext
    <3>3. CASE RemoveNext
      <4>1. CASE \E t \in Txs : RemoveTransaction(t)
        BY <2>1, <4>1 DEF PoolNext
      <4>2. CASE UNCHANGED poolVars
        BY <4>2
      <4> QED
        BY <3>3, <4>1, <4>2 DEF RemoveNext, RemoveTransaction, PoolInv, PoolTypeOK
    <3>4. CASE UNCHANGED poolVars
      BY <3>4
    <3>5. ASSUME \/ BeginBlock \/ ExecuteNext \/ FinishExecution \/ BuildFormalBlock
                 \/ BuildFails \/ RemovalDone \/ CommitBlock \/ PersistBlockHeader
                 \/ SkipSnapshot \/ CreateSnapshot \/ FinishSnapshot
                 \/ LoopExits \/ UpdateConfig \/ UNCHANGED vars
                 \/ \E h \in 1 .. MaxHeight : AnchorDone(h) \/ AnchorFails(h)
          PROVE  UNCHANGED poolVars
      BY <3>5
      DEF BeginBlock, ExecuteNext, FinishExecution, BuildFormalBlock, BuildFails, RemovalDone,
          CommitBlock, PersistBlockHeader, SkipSnapshot, CreateSnapshot, FinishSnapshot,
          LoopExits, UpdateConfig, AnchorDone, AnchorFails, vars
    <3> QED
      BY <2>3, <3>1, <3>2, <3>3, <3>4, <3>5 DEF Next, LoopStep
  <2> QED
    BY <2>1, <2>2, <2>3 DEF SequencerNext, sequencerVars
<1> QED
  BY <1>1, SequencerInvariant, PTL DEF SequencerSpec, NoOvertaking, KeepsOrder
=============================================================================
