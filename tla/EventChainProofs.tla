---------------------------- MODULE EventChainProofs ----------------------------
(***************************************************************************)
(* What is proved about EventChain, for any bounds: what was relied upon   *)
(* stands, readers without the lock see the chain as it is, and mutations  *)
(* follow one another whole.                                               *)
(***************************************************************************)
EXTENDS EventChain, SequenceTheorems, FiniteSetTheorems, TLAPS

(***************************************************************************)
(* The inductive invariant                                                 *)
(***************************************************************************)

\* t begins with s.
Begins(s, t) == Len(s) <= Len(t) /\ \A i \in 1 .. Len(s) : s[i] = t[i]

\* Events are numbered in their order, by growing contents, and no mutation has
\* more effects than it declared.
InOrder(chain) ==
    /\ \A i \in 1 .. Len(chain) :
          /\ chain[i].at = i /\ i <= chain[i].id /\ chain[i].id <= envelopes
          /\ chain[i].of <= chain[i].id /\ chain[i].index <= chain[i].size
          /\ chain[i].hold <= holds
    /\ \A i, j \in 1 .. Len(chain) : i < j => chain[i].id < chain[j].id

\* A witness of the event after the last.
Ahead(witness, chain) ==
    /\ witness.at = Len(chain) + 1
    /\ \A i \in 1 .. Len(chain) : chain[i].id < witness.id

\* A witness names the last event or the one after it, and the durable one is never
\* the only one ahead.
WitnessTracks ==
    /\ disk.witness = Tip(disk.chain) \/ Ahead(disk.witness, disk.chain)
    /\ durable.witness = Tip(disk.chain) \/ Ahead(durable.witness, disk.chain)
    /\ durable.witness.at = Len(disk.chain) + 1 => disk.witness.at = Len(disk.chain) + 1
    /\ disk.witness.id <= envelopes /\ durable.witness.id <= envelopes

\* At most the last event is not durable, and then its witness is.
LastAtRisk ==
    \/ durable.chain = disk.chain
    \/ disk.chain = Append(durable.chain, disk.witness) /\ durable.witness = disk.witness

\* A projection is of an event that cannot be lost.
Projects(projection) ==
    projection # Nothing =>
        projection.at <= Len(durable.chain) /\ projection = durable.chain[projection.at]

\* What was to be seen is there, or its loss has stopped the run for good.
Stopped == At("idle") /\ durable = disk /\ disk.witness.at > Len(disk.chain)
SeenStands == seen = disk.chain \/ Stopped

FilesFit ==
    /\ InOrder(disk.chain) /\ WitnessTracks /\ LastAtRisk
    /\ Projects(disk.projection) /\ Projects(durable.projection)
    /\ SeenStands
    /\ Begins(relied, durable.chain)

\* What the command knows is the chain, all of it durable ...
Level == proc.known = disk.chain /\ durable.chain = disk.chain

\* ... or its last event is there and it was told otherwise: it can publish nothing
\* more, unless that event was the first, which it may try again in vain.
Unaware ==
    /\ disk.chain = Append(proc.known, disk.witness) /\ durable.witness = disk.witness
    /\ \/ proc.known # <<>> /\ proc.pc \in {"failed", "append"}
       \/ /\ proc.known = <<>> /\ proc.envelope = disk.witness
          /\ proc.pc \in {"failed", "witness", "event"}

\* The envelope in hand is the last one built.
EnvelopeFits ==
    proc.envelope # Nothing =>
        /\ proc.envelope.id = envelopes /\ proc.envelope.hold = holds
        /\ proc.envelope.of <= proc.envelope.id
        /\ proc.envelope.at = Len(proc.known) + 1 =>
              /\ proc.envelope.at <= proc.envelope.id
              /\ \A i \in 1 .. Len(proc.known) : proc.known[i].id < proc.envelope.id

\* What the place of the command in its commit says of the envelope.
InHand == {"witness", "event", "projection", "receipt"}
PlaceFits ==
    /\ proc.pc \in InHand => proc.envelope # Nothing
    /\ proc.pc \in {"witness", "event"} => Folds(proc.known, proc.envelope)
    /\ At("event") =>
          /\ disk.witness = proc.envelope /\ durable.witness = proc.envelope
          /\ proc.witness = proc.envelope
    /\ proc.pc \in {"opened", "projection"} => proc.known # <<>>
    /\ At("opened") => proc.envelope = Nothing

QueueFits ==
    /\ At("append") => proc.queue # <<>>
    /\ Len(proc.known) < Len(Bootstrap) =>
          \A n \in 1 .. Len(proc.queue) : proc.queue[n] = Single(FALSE)

\* Only the command that declared a mutation goes on with it.
OneDeclares ==
    Incomplete(proc.known) =>
        \/ proc.pc \in {"idle", "opened"} \/ (At("failed") /\ proc.envelope = Nothing)
        \/ Last(proc.known).hold = holds

CommandFits ==
    /\ ~At("idle") => (Level \/ Unaware) /\ holds > 0
    /\ EnvelopeFits /\ PlaceFits /\ QueueFits /\ OneDeclares

\* What a reader goes by is not newer than what is there.
ReaderFits ==
    /\ reader.tries < MaxTries
    /\ reader.pc \in {"list", "witness"} => reader.before.id <= disk.witness.id
    /\ reader.pc \in {"witness", "projection", "after"} =>
          reader.list # <<>> /\ Begins(reader.list, disk.chain)
    /\ reader.pc \in {"projection", "after"} => reader.before.id <= Last(reader.list).id

Inv == TypeOK /\ FilesFit /\ CommandFits /\ ReaderFits

--------------------------------------------------------------------------------
(***************************************************************************)
(* Sequences                                                               *)
(***************************************************************************)

LEMMA BeginsIsPrefix ==
    ASSUME NEW s \in Seq(Event), NEW t \in Seq(Event)
    PROVE  Begins(s, t) <=> IsPrefix(s, t)
<1>1. SubSeq(s, 1, Len(s)) = s
  BY SubSeqFull
<1>2. ASSUME Len(s) <= Len(t)
      PROVE  /\ SubSeq(t, 1, Len(s)) \in Seq(Event)
             /\ Len(SubSeq(t, 1, Len(s))) = Len(s)
             /\ \A i \in 1 .. Len(s) : SubSeq(t, 1, Len(s))[i] = t[i]
  <2>1. \A i \in 1 .. Len(s) : t[i] \in Event
    BY <1>2, ElementOfSeq, LenProperties
  <2>. QED BY <2>1, <1>2, SubSeqProperties, LenProperties
<1>3. ASSUME Begins(s, t) PROVE IsPrefix(s, t)
  <2>1. s = SubSeq(t, 1, Len(s))
    BY <1>2, <1>3, SeqEqual DEF Begins
  <2>. QED BY <1>1, <1>3, <2>1 DEF Begins, IsPrefix
<1>4. ASSUME IsPrefix(s, t) PROVE Begins(s, t)
  BY <1>1, <1>2, <1>4 DEF Begins, IsPrefix
<1>. QED BY <1>3, <1>4

LEMMA BeginsItself ==
    ASSUME NEW s \in Seq(Event)
    PROVE  Begins(s, s)
BY LenProperties DEF Begins

LEMMA BeginsAgain ==
    ASSUME NEW s \in Seq(Event), NEW t \in Seq(Event), NEW u \in Seq(Event),
           Begins(s, t), Begins(t, u)
    PROVE  Begins(s, u)
BY LenProperties DEF Begins

LEMMA Appending ==
    ASSUME NEW s \in Seq(Event), NEW e \in Event
    PROVE  /\ Append(s, e) \in Seq(Event) /\ Len(Append(s, e)) = Len(s) + 1
           /\ Append(s, e)[Len(s) + 1] = e /\ Last(Append(s, e)) = e
           /\ Append(s, e) # <<>>
           /\ \A i \in 1 .. Len(s) : Append(s, e)[i] = s[i]
           /\ Begins(s, Append(s, e))
           /\ Front(Append(s, e)) = s
<1>1. /\ Append(s, e) \in Seq(Event) /\ Len(Append(s, e)) = Len(s) + 1
      /\ Append(s, e)[Len(s) + 1] = e
      /\ \A i \in 1 .. Len(s) : Append(s, e)[i] = s[i]
  BY AppendProperties
<1>2. Len(s) \in Nat /\ Append(s, e) # <<>>
  BY <1>1, LenProperties, EmptySeq
<1>3. Front(Append(s, e)) = s
  <2>. DEFINE t == SubSeq(Append(s, e), 1, Len(s))
  <2>1. \A i \in 1 .. Len(s) : Append(s, e)[i] \in Event
    BY <1>1, ElementOfSeq
  <2>2. t \in Seq(Event) /\ Len(t) = Len(s) /\ \A i \in 1 .. Len(s) : t[i] = Append(s, e)[i]
    BY <1>1, <1>2, <2>1, SubSeqProperties
  <2>3. t = s
    <3>. HIDE DEF t
    <3>. QED BY <1>1, <2>2, SeqEqual
  <2>. QED BY <1>1, <1>2, <2>3 DEF Front
<1>. QED BY <1>1, <1>2, <1>3 DEF Last, Begins

LEMMA LastOfSome ==
    ASSUME NEW s \in Seq(Event), s # <<>>
    PROVE  Len(s) \in Nat \ {0} /\ Len(s) \in 1 .. Len(s) /\ Last(s) = s[Len(s)] /\ Last(s) \in Event
BY EmptySeq, LenProperties, ElementOfSeq DEF Last

LEMMA NoneBegins ==
    ASSUME NEW s \in Seq(Event)
    PROVE  Begins(<<>>, s) /\ (Len(s) = 0 <=> s = <<>>)
BY EmptySeq, LenProperties DEF Begins

\* Of two that begin the same chain, the longer one does.
LEMMA LongerBegins ==
    ASSUME NEW s \in Seq(Event), NEW t \in Seq(Event), NEW u \in Seq(Event),
           Begins(s, u), Begins(t, u)
    PROVE  Longer(s, t) \in Seq(Event) /\ Begins(Longer(s, t), u)
BY DEF Longer

\* Nothing is longer than a chain that another begins.
LEMMA LongerIsWhole ==
    ASSUME NEW s \in Seq(Event), NEW t \in Seq(Event), Begins(s, t)
    PROVE  Longer(s, t) = t
<1>1. CASE Len(s) < Len(t)
  BY <1>1 DEF Longer
<1>2. CASE Len(s) = Len(t)
  BY <1>2, SeqEqual DEF Longer, Begins
<1>. QED BY <1>1, <1>2, LenProperties DEF Begins

--------------------------------------------------------------------------------
(***************************************************************************)
(* Types                                                                   *)
(***************************************************************************)

Commands ==
    [pc : {"idle", "opened", "append", "witness", "event", "projection", "receipt", "ready",
           "failed"},
     known : Seq(Event), witness : Marks, published : 0 .. MaxEnvelopes,
     queue : Seq(Draft), envelope : Marks]
Readers ==
    [pc : {"away", "legacy", "list", "witness", "projection", "after", "view", "alarm", "probe",
           "contention", "broken"},
     before : Marks, list : Seq(Event), tries : 0 .. MaxTries]

LEMMA EventType ==
    ASSUME NEW e \in Event
    PROVE  /\ e.id \in 1 .. MaxEnvelopes /\ e.at \in 1 .. MaxEnvelopes
           /\ e.of \in 1 .. MaxEnvelopes /\ e.size \in 1 .. MaxSize
           /\ e.index \in 0 .. MaxSize /\ e.causes \in BOOLEAN /\ e.hold \in 1 .. MaxHolds
           /\ e # Nothing /\ e \in Marks
BY BoundsAssumption DEF Event, Nothing, Marks

LEMMA MarkType ==
    ASSUME NEW m \in Marks
    PROVE  /\ m.id \in Nat /\ m.at \in Nat /\ m.of \in Nat /\ m.hold \in Nat
           /\ m # Nothing => m \in Event
BY BoundsAssumption, EventType DEF Nothing, Marks

LEMMA NothingType == Nothing \in Marks /\ Nothing.id = 0 /\ Nothing.at = 0 /\ Nothing.hold = 0
BY DEF Nothing, Marks

LEMMA FileTypes ==
    ASSUME NEW f \in Files
    PROVE  /\ f.chain \in Seq(Event) /\ f.witness \in Marks /\ f.projection \in Marks
           /\ f.receipts \in SUBSET (1 .. MaxEnvelopes)
BY DEF Files

\* A file is replaced.
LEMMA Replaced ==
    ASSUME NEW f \in Files, NEW chain \in Seq(Event), NEW m \in Marks,
           NEW receipts \in SUBSET (1 .. MaxEnvelopes)
    PROVE  /\ LET g == [f EXCEPT !["chain"] = chain]
              IN  /\ g \in Files /\ g.chain = chain /\ g.witness = f.witness
                  /\ g.projection = f.projection
           /\ LET g == [f EXCEPT !["witness"] = m]
              IN  /\ g \in Files /\ g.chain = f.chain /\ g.witness = m
                  /\ g.projection = f.projection
           /\ LET g == [f EXCEPT !["projection"] = m]
              IN  /\ g \in Files /\ g.chain = f.chain /\ g.witness = f.witness
                  /\ g.projection = m
           /\ LET g == [f EXCEPT !["receipts"] = receipts]
              IN  /\ g \in Files /\ g.chain = f.chain /\ g.witness = f.witness
                  /\ g.projection = f.projection
BY DEF Files

LEMMA CommandTypes ==
    ASSUME NEW p \in Commands
    PROVE  /\ p.known \in Seq(Event) /\ p.witness \in Marks /\ p.published \in 0 .. MaxEnvelopes
           /\ p.queue \in Seq(Draft) /\ p.envelope \in Marks
           /\ LET q == [p EXCEPT !.pc = "failed"]
              IN  /\ q \in Commands /\ q.pc = "failed" /\ q.known = p.known
                  /\ q.witness = p.witness /\ q.queue = p.queue /\ q.envelope = p.envelope
BY DEF Commands

LEMMA Typed ==
    ASSUME TypeOK
    PROVE  /\ disk \in Files /\ durable \in Files /\ proc \in Commands /\ reader \in Readers
           /\ envelopes \in Nat /\ envelopes <= MaxEnvelopes
           /\ holds \in Nat /\ holds <= MaxHolds /\ incidents \in Nat
           /\ relied \in Seq(Event) /\ seen \in Seq(Event)
           /\ disk.chain \in Seq(Event) /\ durable.chain \in Seq(Event)
           /\ disk.witness \in Marks /\ durable.witness \in Marks
           /\ disk.projection \in Marks /\ durable.projection \in Marks
           /\ proc.known \in Seq(Event) /\ proc.queue \in Seq(Draft) /\ proc.envelope \in Marks
           /\ reader.before \in Marks /\ reader.list \in Seq(Event) /\ reader.tries \in 0 .. MaxTries
<1>1. /\ disk \in Files /\ durable \in Files /\ proc \in Commands /\ reader \in Readers
      /\ relied \in Seq(Event) /\ seen \in Seq(Event)
  BY DEF TypeOK, Commands, Readers
<1>2. reader.before \in Marks /\ reader.list \in Seq(Event) /\ reader.tries \in 0 .. MaxTries
  BY <1>1 DEF Readers
<1>. QED BY <1>1, <1>2, FileTypes, CommandTypes, BoundsAssumption DEF TypeOK

LEMMA Types ==
    ASSUME disk' \in Files, durable' \in Files, proc' \in Commands, reader' \in Readers,
           envelopes' \in 0 .. MaxEnvelopes, holds' \in 0 .. MaxHolds,
           incidents' \in 0 .. MaxIncidents, relied' \in Seq(Event), seen' \in Seq(Event)
    PROVE  TypeOK'
BY DEF TypeOK, Commands, Readers

--------------------------------------------------------------------------------
(***************************************************************************)
(* What a step keeps that does not touch it                                *)
(***************************************************************************)

LEMMA InOrderKept ==
    ASSUME TypeOK, InOrder(disk.chain), NEW s \in Seq(Event), Begins(s, disk.chain),
           envelopes' \in Nat, envelopes <= envelopes', holds' \in Nat, holds <= holds'
    PROVE  InOrder(s)'
<1>1. \A i \in 1 .. Len(s) : i \in 1 .. Len(disk.chain) /\ s[i] = disk.chain[i] /\ s[i] \in Event
  BY Typed, LenProperties, ElementOfSeq DEF Begins
<1>2. \A i \in 1 .. Len(s) : s[i].id \in Nat /\ s[i].hold \in Nat
  BY <1>1, EventType
<1>3. envelopes \in Nat /\ holds \in Nat
  BY Typed
<1>4. ASSUME NEW i \in 1 .. Len(s)
      PROVE  /\ s[i].at = i /\ i <= s[i].id /\ s[i].id <= envelopes'
             /\ s[i].of <= s[i].id /\ s[i].index <= s[i].size
             /\ s[i].hold <= holds'
  BY SMTT(30), <1>1, <1>2, <1>3 DEF InOrder
<1>5. ASSUME NEW i \in 1 .. Len(s), NEW j \in 1 .. Len(s), i < j
      PROVE  s[i].id < s[j].id
  BY <1>1, <1>5 DEF InOrder
<1>. QED BY <1>4, <1>5 DEF InOrder

LEMMA ProjectsKept ==
    ASSUME TypeOK, durable' \in Files, Begins(durable.chain, durable'.chain),
           NEW m \in Marks, Projects(m)
    PROVE  Projects(m)'
<1>1. m # Nothing => m.at \in 1 .. Len(durable.chain)
  BY MarkType, EventType, Typed, LenProperties DEF Projects
<1>. QED BY SMTT(30), <1>1, Typed, FileTypes, LenProperties DEF Projects, Begins

\* A command that works has everything before it that was there to be seen.
LEMMA SeenByCommand ==
    ASSUME FilesFit, ~At("idle")
    PROVE  seen = disk.chain
BY DEF FilesFit, SeenStands, Stopped

LEMMA OnlyEventsAppended ==
    ASSUME NEW s \in Seq(Event), NEW m \in Marks, Append(s, m) \in Seq(Event)
    PROVE  m \in Event
<1>1. Append(s, m)[Len(s) + 1] = m /\ Len(Append(s, m)) = Len(s) + 1
  BY SeqMonotonic, AppendProperties DEF Marks
<1>. QED BY <1>1, ElementOfSeq, LenProperties

LEMMA DurableBegins ==
    ASSUME TypeOK, LastAtRisk
    PROVE  /\ Begins(durable.chain, disk.chain)
           /\ durable.chain # disk.chain =>
                 /\ disk.witness \in Event /\ durable.witness = disk.witness
                 /\ disk.chain = Append(durable.chain, disk.witness)
                 /\ Len(disk.chain) = Len(durable.chain) + 1
                 /\ Last(disk.chain) = disk.witness
<1>1. CASE durable.chain = disk.chain
  BY <1>1, Typed, BeginsItself
<1>2. CASE durable.chain # disk.chain
  <2>1. disk.chain = Append(durable.chain, disk.witness) /\ durable.witness = disk.witness
    BY <1>2 DEF LastAtRisk
  <2>3. disk.witness \in Event
    BY <2>1, Typed, OnlyEventsAppended
  <2>. QED BY <2>1, <2>3, Typed, Appending
<1>. QED BY <1>1, <1>2

\* Steps that leave the files alone.
LEMMA FilesKept ==
    ASSUME TypeOK, FilesFit, UNCHANGED <<disk, durable, relied, seen>>,
           envelopes' \in Nat, envelopes <= envelopes', holds' \in Nat, holds <= holds',
           ~Stopped \/ proc'.pc = "idle"
    PROVE  FilesFit'
<1>1. InOrder(disk.chain)'
  BY Typed, BeginsItself, InOrderKept DEF FilesFit
<1>2. (disk.witness.id <= envelopes /\ durable.witness.id <= envelopes)'
  <2>1. disk.witness.id \in Nat /\ durable.witness.id \in Nat /\ envelopes \in Nat
    BY Typed, MarkType
  <2>2. disk.witness.id <= envelopes' /\ durable.witness.id <= envelopes'
    BY <2>1 DEF FilesFit, WitnessTracks
  <2>. QED BY <2>2
<1>3. WitnessTracks'
  BY <1>2 DEF FilesFit, WitnessTracks, Ahead
<1>4. LastAtRisk' /\ Projects(disk.projection)' /\ Projects(durable.projection)'
  BY DEF FilesFit, LastAtRisk, Projects
<1>5. SeenStands'
  BY DEF FilesFit, SeenStands, Stopped, At
<1>. QED BY <1>1, <1>3, <1>4, <1>5 DEF FilesFit

\* Steps that only add to the files.
LEMMA ReaderKept ==
    ASSUME TypeOK, ReaderFits, UNCHANGED reader, disk' \in Files,
           disk.witness.id <= disk'.witness.id, Begins(disk.chain, disk'.chain)
    PROVE  ReaderFits'
<1>1. disk'.witness.id \in Nat /\ disk.witness.id \in Nat /\ reader.before.id \in Nat
  BY Typed, FileTypes, MarkType
<1>2. disk'.chain \in Seq(Event)
  BY FileTypes
<1>3. Begins(reader.list, disk.chain) => Begins(reader.list, disk'.chain)
  BY <1>2, Typed, BeginsAgain
<1>. QED BY <1>1, <1>3 DEF ReaderFits

LEMMA ReaderKeptStill ==
    ASSUME TypeOK, ReaderFits, UNCHANGED <<reader, disk>>
    PROVE  ReaderFits'
BY DEF ReaderFits

\* What a command knows is there, all of it or all but the last event.
LEMMA KnownStands ==
    ASSUME TypeOK, Level \/ Unaware
    PROVE  /\ Begins(proc.known, disk.chain)
           /\ Unaware => Len(disk.chain) = Len(proc.known) + 1 /\ Last(disk.chain) = disk.witness
           /\ Level \/ Len(disk.chain) # Len(proc.known)
<1>1. CASE Level
  <2>1. ~Unaware
    <3>1. SUFFICES ASSUME Unaware PROVE FALSE
      OBVIOUS
    <3>2. disk.chain = Append(disk.chain, disk.witness)
      BY <1>1, <3>1 DEF Level, Unaware
    <3>. QED BY <3>2, Typed, OnlyEventsAppended, Appending, LenProperties
  <2>. QED BY <1>1, <2>1, Typed, BeginsItself DEF Level
<1>2. CASE ~Level
  <2>1. disk.chain = Append(proc.known, disk.witness)
    BY <1>2 DEF Unaware
  <2>2. disk.witness \in Event
    BY <2>1, Typed, OnlyEventsAppended
  <2>. QED BY <1>2, <2>1, <2>2, Typed, Appending, LenProperties
<1>. QED BY <1>1, <1>2

\* Who knows all of it can go on.
LEMMA TipSeen ==
    ASSUME TypeOK, Level \/ Unaware, TipUnchanged
    PROVE  Level \/ proc.known = <<>>
<1>1. SUFFICES ASSUME DOMAIN disk.chain = DOMAIN proc.known PROVE Level
  BY DEF TipUnchanged, EventNames
<1>2. 1 .. Len(disk.chain) = 1 .. Len(proc.known) /\ Len(disk.chain) \in Nat /\ Len(proc.known) \in Nat
  BY <1>1, Typed, LenProperties
<1>3. Len(disk.chain) = Len(proc.known)
  BY <1>2
<1>. QED BY <1>3, KnownStands

LEMMA KnownInOrder ==
    ASSUME TypeOK, FilesFit, Level \/ Unaware
    PROVE  InOrder(proc.known)
<1>1. InOrder(disk.chain) /\ Begins(proc.known, disk.chain)
  BY KnownStands DEF FilesFit
<1>2. \A i \in 1 .. Len(proc.known) :
          i \in 1 .. Len(disk.chain) /\ proc.known[i] = disk.chain[i]
  BY <1>1, Typed, LenProperties DEF Begins
<1>3. ASSUME NEW i \in 1 .. Len(proc.known)
      PROVE  LET e == proc.known[i]
             IN  /\ e.at = i /\ i <= e.id /\ e.id <= envelopes
                 /\ e.of <= e.id /\ e.index <= e.size /\ e.hold <= holds
  BY <1>1, <1>2 DEF InOrder
<1>4. ASSUME NEW i \in 1 .. Len(proc.known), NEW j \in 1 .. Len(proc.known), i < j
      PROVE  proc.known[i].id < proc.known[j].id
  BY <1>1, <1>2, <1>4 DEF InOrder
<1>. QED BY <1>3, <1>4 DEF InOrder

LEMMA Within ==
    ASSUME NEW chain \in Seq(Event), Len(chain) <= MaxEnvelopes
    PROVE  Body(chain) \in 0 .. MaxEnvelopes
<1>. DEFINE effects == {i \in DOMAIN chain : chain[i].index > 0}
<1>1. Len(chain) \in Nat /\ effects \in SUBSET (1 .. Len(chain))
  BY LenProperties
<1>2. IsFiniteSet(1 .. Len(chain)) /\ Cardinality(1 .. Len(chain)) = Len(chain)
  <2>1. 1 \in Int /\ Len(chain) \in Int /\ (1 > Len(chain) => Len(chain) = 0)
    BY <1>1
  <2>2. /\ IsFiniteSet(1 .. Len(chain))
        /\ Cardinality(1 .. Len(chain)) = IF 1 > Len(chain) THEN 0 ELSE Len(chain) - 1 + 1
    BY <2>1, FS_Interval
  <2>. QED BY <1>1, <2>1, <2>2
<1>3. Cardinality(effects) <= Len(chain) /\ Cardinality(effects) \in Nat
  <2>. HIDE DEF effects
  <2>. QED BY <1>1, <1>2, FS_Subset, FS_CardinalityType
<1>. QED BY <1>1, <1>3, BoundsAssumption DEF Body

\* There are no more events than envelopes were built.
LEMMA AsManyAsBuilt ==
    ASSUME TypeOK, NEW chain \in Seq(Event), InOrder(chain)
    PROVE  Len(chain) <= envelopes /\ Body(chain) \in 0 .. MaxEnvelopes
<1>1. Len(chain) <= envelopes
  <2>1. CASE chain = <<>>
    BY <2>1, EmptySeq, Typed
  <2>2. CASE chain # <<>>
    <3>1. Len(chain) \in 1 .. Len(chain) /\ chain[Len(chain)] \in Event
      BY <2>2, LastOfSome, ElementOfSeq
    <3>2. chain[Len(chain)].id \in Nat
      BY <3>1, EventType
    <3>3. Len(chain) <= chain[Len(chain)].id /\ chain[Len(chain)].id <= envelopes
      BY <3>1 DEF InOrder
    <3>. QED BY <3>2, <3>3, Typed, LenProperties
  <2>. QED BY <2>1, <2>2
<1>. QED BY <1>1, Within, Typed, LenProperties, BoundsAssumption

--------------------------------------------------------------------------------
(***************************************************************************)
(* The steps of a command that publish nothing                             *)
(***************************************************************************)

LEMMA IdleCommand ==
    /\ Idle \in Commands /\ Idle.pc = "idle" /\ Idle.known = <<>> /\ Idle.queue = <<>>
    /\ Idle.envelope = Nothing
BY EmptySeq, NothingType, BoundsAssumption DEF Idle, Commands

LEMMA BootstrapType ==
    /\ Bootstrap \in Seq(Draft) /\ Len(Bootstrap) = 3 /\ Bootstrap # <<>>
    /\ \A n \in 1 .. 3 : Bootstrap[n] = Single(FALSE)
    /\ Single(FALSE) \in Draft
BY BoundsAssumption DEF Bootstrap, Single, Draft

LEMMA RestOfBootstrap ==
    ASSUME NEW k \in Nat \ {0}
    PROVE  LET rest == SubSeq(Bootstrap, k, Len(Bootstrap))
           IN  rest \in Seq(Draft) /\ \A n \in 1 .. Len(rest) : rest[n] = Single(FALSE)
<1>. DEFINE rest == SubSeq(Bootstrap, k, Len(Bootstrap))
<1>1. \A i \in k .. Len(Bootstrap) : Bootstrap[i] = Single(FALSE) /\ Bootstrap[i] \in Draft
  <2>1. k .. Len(Bootstrap) \subseteq 1 .. 3
    BY BootstrapType
  <2>. QED BY <2>1, BootstrapType
<1>2. k \in Int /\ Len(Bootstrap) \in Int
  BY BootstrapType
<1>3. /\ rest \in Seq(Draft)
      /\ Len(rest) = IF k <= Len(Bootstrap) THEN Len(Bootstrap) - k + 1 ELSE 0
      /\ \A i \in 1 .. Len(Bootstrap) - k + 1 : rest[i] = Bootstrap[k + i - 1]
  <2>1. \A i \in k .. Len(Bootstrap) : Bootstrap[i] \in Draft
    BY <1>1
  <2>. QED BY <1>2, <2>1, SubSeqProperties
<1>4. ASSUME NEW n \in 1 .. Len(rest) PROVE rest[n] = Single(FALSE)
  <2>. HIDE DEF rest
  <2>1. n \in 1 .. Len(Bootstrap) - k + 1 /\ k + n - 1 \in k .. Len(Bootstrap)
    BY <1>2, <1>3
  <2>. QED BY <1>1, <1>3, <2>1
<1>. QED BY <1>3, <1>4

LEMMA ExitStep ==
    ASSUME Inv, Exit
    PROVE  Inv'
<1>1. FilesFit'
  BY Typed, FilesKept, IdleCommand DEF Inv, Exit, Counters, Others
<1>2. CommandFits'
  BY IdleCommand, EmptySeq
     DEF Exit, CommandFits, At, EnvelopeFits, PlaceFits, QueueFits, OneDeclares, InHand
<1>3. ReaderFits'
  BY ReaderKeptStill DEF Inv, Exit, Others
<1>4. TypeOK'
  BY Typed, Types, IdleCommand DEF Inv, Exit, Counters, Others, TypeOK
<1>. QED BY <1>1, <1>2, <1>3, <1>4 DEF Inv

LEMMA BeginStep ==
    ASSUME Inv, Begin
    PROVE  Inv'
<1>. DEFINE p == [Idle EXCEPT !.pc = "append", !.queue = Bootstrap]
<1>1. /\ p \in Commands /\ p.pc = "append" /\ p.known = <<>> /\ p.queue = Bootstrap
      /\ p.envelope = Nothing
  BY IdleCommand, BootstrapType DEF Commands
<1>2. proc' = p
  BY DEF Begin
<1>3. durable.chain = <<>>
  BY DurableBegins, Typed, NoneBegins DEF Inv, FilesFit, Begin, Begins
<1>4. ~Stopped
  BY NothingType, NoneBegins, Typed DEF Stopped, Begin
<1>5. FilesFit'
  <2>. HIDE DEF p
  <2>. QED BY <1>4, Typed, FilesKept DEF Inv, Begin, Others
<1>6. CommandFits'
  <2>1. Level' /\ holds' > 0
    BY <1>1, <1>2, <1>3, Typed DEF Inv, Level, Begin
  <2>2. EnvelopeFits' /\ PlaceFits'
    BY <1>1, <1>2 DEF EnvelopeFits, PlaceFits, InHand, At
  <2>3. QueueFits'
    <3>1. proc'.queue = Bootstrap
      BY <1>1, <1>2
    <3>2. \A n \in 1 .. Len(proc'.queue) : proc'.queue[n] = Single(FALSE)
      BY <3>1, BootstrapType
    <3>. QED BY <3>1, <3>2, BootstrapType DEF QueueFits
  <2>4. OneDeclares'
    BY <1>1, <1>2 DEF OneDeclares, Incomplete
  <2>. QED BY <2>1, <2>2, <2>3, <2>4 DEF CommandFits
<1>7. ReaderFits'
  BY ReaderKeptStill DEF Inv, Begin, Others
<1>8. TypeOK'
  <2>. HIDE DEF p
  <2>. QED BY SMTT(30), <1>1, <1>2, Typed, Types, BoundsAssumption DEF Inv, Begin, Others, TypeOK
<1>. QED BY <1>5, <1>6, <1>7, <1>8 DEF Inv

\* The event is established: what the command is then.
LEMMA EstablishedFits ==
    ASSUME TypeOK, FilesFit, NEW p \in Commands, Level,
           p.known = proc.known, p.envelope = proc.envelope
    PROVE  /\ Established(p) \in Commands /\ Established(p).known = p.known
           /\ Established(p).pc \in {"append", "ready"}
           /\ Established(p).pc = "append" => p.queue # <<>>
           /\ Established(p).queue = p.queue
           /\ Established(p).envelope \in {Nothing, p.envelope}
<1>1. Body(p.known) \in 0 .. MaxEnvelopes
  BY Typed, KnownInOrder, AsManyAsBuilt DEF FilesFit
<1>2. CASE p.queue # <<>>
  BY <1>2, CommandTypes DEF Established, Commands
<1>3. CASE p.queue = <<>>
  <2>. DEFINE b == Body(p.known)
  <2>. HIDE DEF b
  <2>. QED BY <1>1, <1>3, NothingType DEF Established, Commands, b
<1>. QED BY <1>2, <1>3

LEMMA AdmitStep ==
    ASSUME Inv, Admit
    PROVE  Inv'
<1>. DEFINE rest == SubSeq(Bootstrap, Len(proc.known) + 1, Len(Bootstrap))
            p == [proc EXCEPT !.queue = rest]
<1>1. /\ rest \in Seq(Draft)
      /\ \A n \in 1 .. Len(rest) : rest[n] = Single(FALSE)
  <2>. DEFINE k == Len(proc.known) + 1
  <2>1. k \in Nat \ {0}
    BY Typed, LenProperties DEF Inv
  <2>2. rest = SubSeq(Bootstrap, k, Len(Bootstrap))
    OBVIOUS
  <2>. HIDE DEF rest, k
  <2>. QED BY <2>1, <2>2, RestOfBootstrap
<1>2. p \in Commands /\ p.known = proc.known /\ p.envelope = proc.envelope /\ p.queue = rest
  BY <1>1, Typed DEF Inv, Commands
<1>3. proc' = Established(p) /\ proc.pc = "opened"
  BY DEF Admit, At
<1>. HIDE DEF p, rest
<1>4. Level /\ proc.envelope = Nothing
  BY <1>3 DEF Inv, CommandFits, PlaceFits, At, Unaware
<1>5. /\ proc' \in Commands /\ proc'.known = proc.known /\ proc'.pc \in {"append", "ready"}
      /\ proc'.pc = "append" => proc'.queue # <<>>
      /\ proc'.queue = rest /\ proc'.envelope = Nothing
  BY <1>2, <1>3, <1>4, EstablishedFits DEF Inv
<1>6. FilesFit'
  BY <1>3, Typed, FilesKept DEF Inv, Admit, Counters, Others, Stopped, At
<1>7. CommandFits'
  <2>1. Level' /\ holds' > 0
    BY <1>3, <1>4, <1>5 DEF Inv, CommandFits, Level, Admit, Counters, At
  <2>2. EnvelopeFits' /\ PlaceFits'
    BY <1>5 DEF EnvelopeFits, PlaceFits, InHand, At
  <2>3. QueueFits'
    BY <1>1, <1>5 DEF QueueFits, At
  <2>4. OneDeclares'
    BY <1>5 DEF OneDeclares, Incomplete, Admit
  <2>. QED BY <2>1, <2>2, <2>3, <2>4 DEF CommandFits
<1>8. ReaderFits'
  BY ReaderKeptStill DEF Inv, Admit, Others
<1>9. TypeOK'
  BY <1>5, Typed, Types DEF Inv, Admit, Counters, Others, TypeOK
<1>. QED BY <1>6, <1>7, <1>8, <1>9 DEF Inv

LEMMA CommitStep ==
    ASSUME Inv, Commit
    PROVE  Inv'
<1>1. PICK size \in 1 .. MaxSize, causing \in 0 .. MaxSize :
          LET effects == [i \in 1 .. size |->
                  [size |-> size, index |-> i, causes |-> i = causing]]
              declaration == [size |-> size, index |-> 0, causes |-> FALSE]
          IN  proc' = [proc EXCEPT !.pc = "append", !.envelope = Nothing,
                 !.queue = IF size = 1 THEN effects ELSE <<declaration>> \o effects]
  BY DEF Commit
<1>. DEFINE effects == [i \in 1 .. size |-> [size |-> size, index |-> i, causes |-> i = causing]]
            declaration == [size |-> size, index |-> 0, causes |-> FALSE]
            queue == IF size = 1 THEN effects ELSE <<declaration>> \o effects
<1>2. queue \in Seq(Draft) /\ queue # <<>>
  <2>1. size \in Nat \ {0} /\ size \in 1 .. MaxSize
    BY BoundsAssumption
  <2>2. \A i \in 1 .. size : [size |-> size, index |-> i, causes |-> i = causing] \in Draft
    BY <2>1, BoundsAssumption DEF Draft
  <2>3. effects \in Seq(Draft)
    BY <2>1, <2>2, IsASeq
  <2>4. Len(effects) = size
    <3>1. DOMAIN effects = 1 .. size /\ effects \in Seq(Draft)
      BY <2>3
    <3>. HIDE DEF effects
    <3>2. 1 .. Len(effects) = 1 .. size /\ Len(effects) \in Nat
      BY <3>1, LenProperties
    <3>. QED BY <2>1, <3>2
  <2>5. <<declaration>> \in Seq(Draft) /\ Len(<<declaration>>) = 1
    BY <2>1, BoundsAssumption DEF Draft
  <2>. HIDE DEF effects, declaration
  <2>6. /\ <<declaration>> \o effects \in Seq(Draft)
        /\ Len(<<declaration>> \o effects) = 1 + size
    BY <2>3, <2>4, <2>5, ConcatProperties
  <2>. QED BY <2>1, <2>3, <2>4, <2>6, EmptySeq
<1>3. proc' = [proc EXCEPT !.pc = "append", !.envelope = Nothing, !.queue = queue]
  BY <1>1
<1>. HIDE DEF queue
<1>4. /\ proc' \in Commands /\ proc'.known = proc.known /\ proc'.pc = "append"
      /\ proc'.queue = queue /\ proc'.envelope = Nothing
  BY <1>2, <1>3, Typed, NothingType DEF Inv, Commands
<1>5. proc.pc \in {"ready", "failed"}
  BY DEF Commit, At
<1>6. FilesFit'
  BY SMTT(30), <1>5, Typed, FilesKept DEF Inv, Commit, Counters, Others, Stopped, At
<1>7. Len(proc.known) >= 3 /\ proc.known # <<>>
  BY BootstrapType, EmptySeq DEF Commit
<1>8. CommandFits'
  <2>1. (Level' \/ Unaware') /\ holds' > 0
    BY <1>4, <1>5, <1>7 DEF Inv, CommandFits, Level, Unaware, Commit, Counters, At
  <2>2. EnvelopeFits' /\ PlaceFits'
    BY <1>4 DEF EnvelopeFits, PlaceFits, InHand, At
  <2>3. QueueFits'
    <3>1. ~(Len(proc'.known) < Len(Bootstrap))
      BY <1>4, <1>7, BootstrapType, Typed, LenProperties DEF Inv
    <3>. QED BY <1>2, <1>4, <3>1 DEF QueueFits
  <2>4. OneDeclares'
    BY <1>4 DEF OneDeclares, Incomplete, Commit
  <2>. QED BY <2>1, <2>2, <2>3, <2>4 DEF CommandFits
<1>9. ReaderFits'
  BY ReaderKeptStill DEF Inv, Commit, Others
<1>10. TypeOK'
  BY <1>4, Typed, Types DEF Inv, Commit, Counters, Others, TypeOK
<1>. QED BY SMTT(30), <1>6, <1>8, <1>9, <1>10 DEF Inv

\* The command's last event was established, or it has nothing in hand that could
\* take the place of one.
LEMMA EnvelopeStep ==
    ASSUME Inv, Envelope
    PROVE  Inv'
<1>. DEFINE draft == Head(proc.queue)
            event == [id |-> envelopes', at |-> Len(proc.known) + 1,
                      of |-> IF draft.index > 0 /\ draft.size > 1 THEN Last(proc.known).of
                             ELSE envelopes',
                      size |-> draft.size, index |-> draft.index, causes |-> draft.causes,
                      hold |-> holds]
            pc == IF Folds(proc.known, event) /\ TipUnchanged THEN "witness" ELSE "failed"
<1>1. proc' = [proc EXCEPT !.envelope = event, !.queue = Tail(proc.queue), !.pc = pc]
  BY DEF Envelope
<1>2. /\ proc.pc = "append" /\ proc.queue # <<>> /\ (Level \/ Unaware) /\ holds > 0
      /\ InOrder(proc.known) /\ Len(proc.known) <= envelopes /\ Len(proc.known) \in Nat
      /\ envelopes' = envelopes + 1 /\ envelopes' \in 1 .. MaxEnvelopes
      /\ envelopes \in Nat /\ holds \in 1 .. MaxHolds
  <2>1. proc.pc = "append" /\ proc.queue # <<>> /\ (Level \/ Unaware) /\ holds > 0
    BY DEF Inv, Envelope, CommandFits, QueueFits, At
  <2>2. InOrder(proc.known) /\ Len(proc.known) <= envelopes /\ Len(proc.known) \in Nat
    BY <2>1, Typed, KnownInOrder, AsManyAsBuilt, LenProperties DEF Inv
  <2>3. /\ envelopes \in Nat /\ holds \in Nat /\ holds <= MaxHolds
        /\ envelopes' = envelopes + 1 /\ envelopes < MaxEnvelopes
    BY Typed DEF Inv, Envelope
  <2>. QED BY <2>1, <2>2, <2>3, BoundsAssumption
<1>3. /\ draft \in Draft /\ Tail(proc.queue) \in Seq(Draft)
      /\ Len(Tail(proc.queue)) = Len(proc.queue) - 1
      /\ \A i \in 1 .. Len(Tail(proc.queue)) : Tail(proc.queue)[i] = proc.queue[i + 1]
      /\ draft = proc.queue[1] /\ Len(proc.queue) \in Nat \ {0}
  BY <1>2, Typed, HeadTailProperties, EmptySeq DEF Inv
<1>4. /\ draft.size \in 1 .. MaxSize /\ draft.index \in 0 .. MaxSize /\ draft.causes \in BOOLEAN
  <2>. HIDE DEF draft
  <2>. QED BY <1>3 DEF Draft
<1>5. proc.known = <<>> => draft = Single(FALSE)
  <2>1. ASSUME proc.known = <<>> PROVE Len(proc.known) < Len(Bootstrap)
    BY <2>1, BootstrapType, EmptySeq
  <2>2. 1 \in 1 .. Len(proc.queue)
    BY <1>3
  <2>. HIDE DEF draft
  <2>. QED BY <1>3, <2>1, <2>2 DEF Inv, CommandFits, QueueFits
<1>6. event.of \in 1 .. MaxEnvelopes /\ event.of <= envelopes'
  <2>. HIDE DEF draft
  <2>1. CASE proc.known = <<>>
    BY <1>2, <1>5, <2>1 DEF Single
  <2>2. CASE proc.known # <<>>
    <3>1. Last(proc.known) \in Event /\ Last(proc.known) = proc.known[Len(proc.known)]
          /\ Len(proc.known) \in 1 .. Len(proc.known)
      BY <2>2, Typed, LastOfSome DEF Inv
    <3>2. Last(proc.known).of <= Last(proc.known).id /\ Last(proc.known).id <= envelopes
      BY <1>2, <3>1 DEF InOrder
    <3>. QED BY <1>2, <3>1, <3>2, EventType
  <2>. QED BY <2>1, <2>2
<1>7. event \in Event
  <2>1. Len(proc.known) + 1 \in 1 .. MaxEnvelopes
    BY <1>2, BoundsAssumption
  <2>. HIDE DEF draft
  <2>. QED BY <1>2, <1>4, <1>6, <2>1 DEF Event
<1>8. event.id = envelopes' /\ event.at = Len(proc.known) + 1 /\ event.hold = holds
  OBVIOUS
<1>. HIDE DEF event, draft
<1>9. /\ proc' \in Commands /\ proc'.known = proc.known /\ proc'.pc \in {"witness", "failed"}
      /\ proc'.pc = "witness" => Folds(proc.known, event) /\ TipUnchanged
      /\ proc'.envelope = event /\ proc'.queue = Tail(proc.queue)
  BY <1>1, <1>3, <1>7, EventType, Typed DEF Inv, Commands
<1>10. FilesFit'
  BY <1>2, Typed, FilesKept DEF Inv, Envelope, Others, Stopped, At
<1>11. CommandFits'
  <2>1. (Level' \/ Unaware') /\ holds' > 0
    <3>1. CASE Level
      BY <1>2, <1>9, <3>1 DEF Level, Envelope
    <3>2. CASE Unaware
      <4>1. proc.known # <<>>
        BY <1>2, <3>2 DEF Unaware
      <4>2. ~Level => proc'.pc = "failed"
        BY <1>2, <1>9, <4>1, TipSeen DEF Inv
      <4>. QED BY <1>2, <1>9, <3>1, <3>2, <4>1, <4>2 DEF Unaware, Envelope
    <3>. QED BY <1>2, <3>1, <3>2
  <2>2. EnvelopeFits'
    <3>1. \A i \in 1 .. Len(proc.known) : proc.known[i].id < event.id
      <4>1. ASSUME NEW i \in 1 .. Len(proc.known) PROVE proc.known[i].id < event.id
        <5>1. proc.known[i].id <= envelopes /\ proc.known[i] \in Event
          BY <1>2, Typed, ElementOfSeq DEF Inv, InOrder
        <5>. QED BY <1>2, <1>8, <5>1, EventType
      <4>. QED BY <4>1
    <3>2. event.of <= event.id /\ event.at <= event.id
      BY <1>2, <1>6, <1>8
    <3>. QED BY <1>8, <1>9, <3>1, <3>2 DEF EnvelopeFits, Envelope
  <2>3. PlaceFits'
    BY <1>7, <1>9, EventType DEF PlaceFits, InHand, At
  <2>4. QueueFits'
    <3>1. ASSUME Len(proc.known) < Len(Bootstrap), NEW n \in 1 .. Len(Tail(proc.queue))
          PROVE  Tail(proc.queue)[n] = Single(FALSE)
      <4>1. n + 1 \in 1 .. Len(proc.queue)
        BY <1>3
      <4>. QED BY <1>3, <3>1, <4>1 DEF Inv, CommandFits, QueueFits
    <3>. QED BY <1>9, <3>1 DEF QueueFits, At
  <2>5. OneDeclares'
    BY <1>2, <1>9 DEF Inv, CommandFits, OneDeclares, Incomplete, Envelope, At
  <2>. QED BY <2>1, <2>2, <2>3, <2>4, <2>5 DEF CommandFits
<1>12. ReaderFits'
  BY SMTT(30), ReaderKeptStill DEF Inv, Envelope, Others
<1>13. TypeOK'
  BY <1>2, <1>9, Typed, Types DEF Inv, Envelope, Others, TypeOK
<1>. QED BY <1>10, <1>11, <1>12, <1>13 DEF Inv

LEMMA RetryNextStep ==
    ASSUME Inv, RetryNext
    PROVE  Inv'
<1>1. /\ proc' \in Commands /\ proc'.known = proc.known /\ proc'.pc = "witness"
      /\ proc'.envelope = proc.envelope /\ proc'.queue = proc.queue /\ proc.pc = "failed"
  BY Typed DEF Inv, RetryNext, Commands, At
<1>2. proc.envelope # Nothing /\ Folds(proc.known, proc.envelope) /\ TipUnchanged
  BY DEF RetryNext
<1>3. FilesFit'
  BY <1>1, Typed, FilesKept DEF Inv, RetryNext, Counters, Others, Stopped, At
<1>4. CommandFits'
  <2>1. Level \/ (Unaware /\ proc.known = <<>>)
    BY <1>1, <1>2, TipSeen DEF Inv, CommandFits, At
  <2>2. (Level' \/ Unaware') /\ holds' > 0
    BY <1>1, <2>1 DEF Inv, CommandFits, Level, Unaware, RetryNext, Counters, At
  <2>3. EnvelopeFits'
    BY <1>1 DEF Inv, CommandFits, EnvelopeFits, RetryNext, Counters
  <2>4. PlaceFits'
    BY <1>1, <1>2 DEF PlaceFits, InHand, At
  <2>5. QueueFits'
    BY <1>1 DEF Inv, CommandFits, QueueFits, At
  <2>6. OneDeclares'
    BY <1>1, <1>2 DEF Inv, CommandFits, OneDeclares, Incomplete, RetryNext, Counters, At
  <2>. QED BY <2>2, <2>3, <2>4, <2>5, <2>6 DEF CommandFits
<1>5. ReaderFits'
  BY ReaderKeptStill DEF Inv, RetryNext, Others
<1>6. TypeOK'
  BY <1>1, Typed, Types DEF Inv, RetryNext, Counters, Others, TypeOK
<1>. QED BY <1>3, <1>4, <1>5, <1>6 DEF Inv

\* A command whose last event is established.
LEMMA GoesOn ==
    ASSUME Inv, Level, Level', ~At("idle"), proc.envelope # Nothing,
           proc' \in {Appended, Established(proc)}, UNCHANGED <<envelopes, holds>>
    PROVE  CommandFits' /\ proc' \in Commands
<1>. DEFINE after == Established(proc)
<1>1. /\ after \in Commands /\ after.known = proc.known /\ after.pc \in {"append", "ready"}
      /\ after.pc = "append" => proc.queue # <<>>
      /\ after.queue = proc.queue /\ after.envelope \in {Nothing, proc.envelope}
  BY Typed, EstablishedFits DEF Inv
<1>2. /\ proc' \in Commands /\ proc'.known = proc.known
      /\ proc'.pc \in {"append", "ready", "receipt"}
      /\ proc'.pc = "append" => proc.queue # <<>>
      /\ proc'.queue = proc.queue /\ proc'.envelope \in {Nothing, proc.envelope}
      /\ proc'.pc = "receipt" => proc'.envelope # Nothing
  <2>1. CASE proc' = after
    BY <1>1, <2>1
  <2>2. CASE proc' = [proc EXCEPT !.pc = "receipt"]
    BY <2>2, Typed DEF Inv, Commands
  <2>. QED BY <2>1, <2>2 DEF Appended
<1>. HIDE DEF after
<1>3. EnvelopeFits'
  BY <1>2 DEF Inv, CommandFits, EnvelopeFits
<1>4. PlaceFits'
  BY <1>2 DEF PlaceFits, InHand, At
<1>5. QueueFits'
  BY <1>2 DEF Inv, CommandFits, QueueFits, At
<1>6. OneDeclares'
  <2>1. proc.pc # "opened" /\ proc.pc # "idle"
    BY DEF Inv, CommandFits, PlaceFits, At
  <2>. QED BY <1>2, <2>1 DEF Inv, CommandFits, OneDeclares, Incomplete
<1>. QED BY <1>2, <1>3, <1>4, <1>5, <1>6 DEF Inv, CommandFits

\* A command that has an exception.
LEMMA HasFailed ==
    ASSUME Inv, (Level \/ Unaware)', ~At("idle"), proc' = [proc EXCEPT !.pc = "failed"],
           UNCHANGED <<envelopes, holds>>
    PROVE  CommandFits' /\ proc' \in Commands
<1>1. /\ proc' \in Commands /\ proc'.known = proc.known /\ proc'.pc = "failed"
      /\ proc'.queue = proc.queue /\ proc'.envelope = proc.envelope
  BY Typed, CommandTypes DEF Inv
<1>2. EnvelopeFits'
  BY <1>1 DEF Inv, CommandFits, EnvelopeFits
<1>3. PlaceFits'
  BY <1>1 DEF PlaceFits, InHand, At
<1>4. QueueFits'
  BY <1>1 DEF Inv, CommandFits, QueueFits, At
<1>5. OneDeclares'
  BY <1>1 DEF Inv, CommandFits, OneDeclares, PlaceFits, Incomplete, At
<1>. QED BY <1>1, <1>2, <1>3, <1>4, <1>5 DEF Inv, CommandFits

\* Every event there is becomes durable.
LEMMA FilesConfirmed ==
    ASSUME TypeOK, FilesFit, UNCHANGED <<disk, seen, envelopes>>, durable' \in Files,
           durable'.chain = disk.chain,
           durable'.witness \in {disk.witness, durable.witness}, ~Stopped,
           durable'.projection \in {disk.projection, durable.projection},
           relied' \in Seq(Event), Begins(relied', disk.chain),
           holds' \in Nat, holds <= holds'
    PROVE  FilesFit'
<1>1. InOrder(disk.chain)'
  BY Typed, BeginsItself, InOrderKept DEF FilesFit
<1>2. WitnessTracks'
  BY DEF FilesFit, WitnessTracks, Ahead
<1>3. LastAtRisk'
  BY DEF LastAtRisk
<1>4. Begins(durable.chain, durable'.chain)
  BY Typed, DurableBegins DEF FilesFit
<1>5. Projects(disk.projection)' /\ Projects(durable.projection)'
  <2>1. \A m \in {disk.projection, durable.projection} :
            m # Nothing => m.at <= Len(durable'.chain) /\ m = durable'.chain[m.at]
    <3>1. ASSUME NEW m \in {disk.projection, durable.projection} PROVE Projects(m)'
      BY <1>4, Typed, ProjectsKept DEF FilesFit
    <3>. QED BY <3>1 DEF Projects
  <2>2. disk'.projection = disk.projection
    OBVIOUS
  <2>3. Projects(disk.projection)'
    BY <2>1, <2>2 DEF Projects
  <2>. QED BY <2>1, <2>3 DEF Projects
<1>6. SeenStands'
  BY DEF FilesFit, SeenStands
<1>7. Begins(relied, durable.chain)'
  OBVIOUS
<1>. QED BY <1>1, <1>2, <1>3, <1>5, <1>6, <1>7 DEF FilesFit

\* Whatever was relied upon begins the chain.
LEMMA ReliedBegins ==
    ASSUME TypeOK, FilesFit
    PROVE  Begins(relied, disk.chain)
BY Typed, DurableBegins, BeginsAgain DEF FilesFit

LEMMA EventExistsStep ==
    ASSUME Inv, EventExists
    PROVE  Inv'
<1>1. proc.pc = "event" /\ proc' = [proc EXCEPT !.pc = "failed"] /\ ~Stopped /\ ~At("idle")
  BY DEF EventExists, At, Stopped
<1>2. /\ durable' \in Files /\ durable'.chain = disk.chain /\ durable'.witness = durable.witness
      /\ durable'.projection = durable.projection
  BY Typed, Replaced DEF Inv, EventExists
<1>3. FilesFit'
  BY <1>1, <1>2, Typed, FilesConfirmed, ReliedBegins DEF Inv, EventExists, Counters, Others
<1>4. Unaware /\ proc.known = <<>> /\ proc.envelope = disk.witness
  <2>1. proc.envelope.at = Len(proc.known) + 1
    BY <1>1 DEF Inv, CommandFits, PlaceFits, Folds
  <2>2. ~Level
    BY <2>1, Typed, LenProperties DEF Inv, EventExists, Level
  <2>. QED BY <1>1, <2>2 DEF Inv, CommandFits, Unaware, At
<1>5. Unaware'
  <2>1. proc'.known = proc.known /\ proc'.pc = "failed" /\ proc'.envelope = proc.envelope
    BY <1>1, Typed, CommandTypes DEF Inv
  <2>. QED BY <1>2, <1>4, <2>1 DEF Unaware, EventExists
<1>6. CommandFits' /\ proc' \in Commands
  BY <1>1, <1>5, HasFailed DEF EventExists, Counters
<1>7. ReaderFits'
  BY ReaderKeptStill DEF Inv, EventExists, Others
<1>8. TypeOK'
  BY <1>2, <1>6, Typed, Types DEF Inv, EventExists, Counters, Others, TypeOK
<1>. QED BY <1>3, <1>6, <1>7, <1>8 DEF Inv

LEMMA RetryDuplicateStep ==
    ASSUME Inv, RetryDuplicate
    PROVE  Inv'
<1>1. proc.pc = "failed" /\ ~Stopped /\ ~At("idle") /\ proc.envelope # Nothing
  BY DEF RetryDuplicate, At, Stopped
<1>2. /\ durable' \in Files /\ durable'.chain = disk.chain /\ durable'.witness = disk.witness
      /\ durable'.projection = durable.projection
  BY Typed DEF Inv, RetryDuplicate, Files
<1>3. Level
  <2>1. proc.envelope \in Event
    BY <1>1, Typed, MarkType DEF Inv
  <2>2. proc.known # <<>>
    BY <2>1, EventType, EmptySeq DEF RetryDuplicate
  <2>. QED BY <1>1, <2>2, TipSeen DEF Inv, RetryDuplicate, CommandFits
<1>4. relied' \in Seq(Event) /\ Begins(relied', disk.chain)
  BY <1>3, Typed, ReliedBegins, BeginsItself, LongerBegins DEF Inv, RetryDuplicate, Level
<1>5. FilesFit'
  BY <1>1, <1>2, <1>4, Typed, FilesConfirmed DEF Inv, RetryDuplicate, Counters, Others
<1>6. Level' /\ proc' \in {Appended, Established(proc)}
  <2>1. proc' \in {[proc EXCEPT !.pc = "receipt"], Established(proc)}
    BY DEF RetryDuplicate, Appended
  <2>2. proc'.known = proc.known
    BY <1>3, <2>1, Typed, EstablishedFits DEF Inv, Commands
  <2>. QED BY <1>2, <1>3, <2>2 DEF Level, RetryDuplicate
<1>7. CommandFits' /\ proc' \in Commands
  BY <1>1, <1>3, <1>6, GoesOn DEF RetryDuplicate, Counters
<1>8. ReaderFits'
  BY ReaderKeptStill DEF Inv, RetryDuplicate, Others
<1>9. TypeOK'
  BY <1>2, <1>4, <1>7, Typed, Types DEF Inv, RetryDuplicate, Counters, Others, TypeOK
<1>. QED BY <1>5, <1>7, <1>8, <1>9 DEF Inv

\* What a load takes for sound has not stopped the run.
LEMMA SoundIsNotStopped ==
    ASSUME TypeOK, FilesFit, Sound(disk)
    PROVE  /\ ~Stopped /\ disk.witness = Last(disk.chain) /\ disk.chain # <<>>
           /\ disk.witness.at = Len(disk.chain)
<1>1. Len(disk.chain) \in 1 .. Len(disk.chain) /\ disk.witness = disk.chain[Len(disk.chain)]
  BY Typed, LastOfSome DEF Sound
<1>2. disk.witness.at = Len(disk.chain)
  BY <1>1 DEF FilesFit, InOrder
<1>. QED BY <1>1, <1>2 DEF Sound, Stopped

LEMMA OpenStep ==
    ASSUME Inv, Open
    PROVE  Inv'
<1>1. /\ ~Stopped /\ disk.witness = Last(disk.chain) /\ disk.chain # <<>>
      /\ disk.witness \in Event
  BY SoundIsNotStopped, Typed, LastOfSome DEF Inv, Open
<1>2. /\ durable' \in Files /\ durable'.chain = disk.chain /\ durable'.witness = disk.witness
      /\ durable'.projection \in {disk.projection, durable.projection}
  BY Typed DEF Inv, Open, Confirmed, Files
<1>3. relied' \in Seq(Event) /\ Begins(relied', disk.chain)
  BY Typed, ReliedBegins, BeginsItself, LongerBegins DEF Inv, Open
<1>4. holds' = holds + 1 /\ holds' \in 1 .. MaxHolds /\ holds \in Nat
  BY Typed, BoundsAssumption DEF Inv, Open
<1>5. FilesFit'
  BY <1>1, <1>2, <1>3, <1>4, Typed, FilesConfirmed DEF Inv, Open, Others
<1>6. /\ proc' \in Commands /\ proc'.known = disk.chain /\ proc'.pc = "opened"
      /\ proc'.queue = <<>> /\ proc'.envelope = Nothing
  BY IdleCommand, Typed DEF Inv, Open, Primed, Commands
<1>7. CommandFits'
  <2>1. Level' /\ holds' > 0
    BY <1>2, <1>4, <1>6 DEF Level, Open
  <2>2. EnvelopeFits'
    BY <1>6 DEF EnvelopeFits
  <2>3. PlaceFits'
    BY <1>1, <1>6 DEF PlaceFits, InHand, At
  <2>4. QueueFits' /\ OneDeclares'
    BY <1>6, EmptySeq DEF QueueFits, OneDeclares, At
  <2>. QED BY <2>1, <2>2, <2>3, <2>4 DEF CommandFits
<1>8. ReaderFits'
  BY ReaderKeptStill DEF Inv, Open, Others
<1>9. TypeOK'
  BY <1>2, <1>3, <1>4, <1>6, Typed, Types DEF Inv, Open, Others, TypeOK
<1>. QED BY <1>5, <1>7, <1>8, <1>9 DEF Inv

--------------------------------------------------------------------------------
(***************************************************************************)
(* The steps of a command that publish                                     *)
(***************************************************************************)

\* What a publication leaves of the other files, and of the one it replaces.
LEMMA WroteFile ==
    ASSUME TypeOK, NEW outcome \in Outcomes, NEW file, NEW content, Wrote(file, content, outcome),
           [disk EXCEPT ![file] = content] \in Files, [durable EXCEPT ![file] = content] \in Files
    PROVE  /\ incidents' \in 0 .. MaxIncidents
           /\ disk' \in Files /\ durable' \in Files
           /\ disk' \in {disk, [disk EXCEPT ![file] = content]}
           /\ durable' \in {durable, [durable EXCEPT ![file] = content]}
           /\ outcome = "durable" => /\ disk' = [disk EXCEPT ![file] = content]
                                     /\ durable' = [durable EXCEPT ![file] = content]
           /\ outcome # "durable" => durable' = durable
           /\ seen' = Longer(seen, disk'.chain)
<1>1. incidents' \in 0 .. MaxIncidents
  BY SMTT(30), Typed, BoundsAssumption DEF Wrote
<1>. QED BY <1>1, Typed DEF Wrote, Outcomes

\* A witness, a projection or a receipt is written: the chain is as it was.
LEMMA FilesWritten ==
    ASSUME TypeOK, FilesFit, ~At("idle"), disk' \in Files, durable' \in Files,
           disk'.chain = disk.chain, durable'.chain = durable.chain,
           seen' = Longer(seen, disk'.chain), UNCHANGED <<envelopes, holds>>,
           WitnessTracks', LastAtRisk',
           Projects(disk.projection)', Projects(durable.projection)',
           Begins(relied, durable.chain)'
    PROVE  FilesFit'
<1>1. InOrder(disk.chain)'
  <2>1. ASSUME NEW s \in Seq(Event), s = disk.chain PROVE InOrder(s)'
    <3>1. /\ envelopes' \in Nat /\ envelopes <= envelopes' /\ holds' \in Nat /\ holds <= holds'
          /\ InOrder(disk.chain) /\ Begins(s, disk.chain)
      BY <2>1, Typed, BeginsItself DEF FilesFit
    <3>. QED BY <3>1, InOrderKept
  <2>. QED BY <2>1, Typed DEF InOrder
<1>2. SeenStands'
  <2>1. seen = disk.chain /\ Begins(seen, disk'.chain)
    BY Typed, SeenByCommand, BeginsItself
  <2>2. seen' = disk'.chain
    BY <2>1, Typed, LongerIsWhole
  <2>. QED BY <2>2 DEF SeenStands
<1>. QED BY <1>1, <1>2 DEF FilesFit

\* So are the witnesses, and what can be lost.
LEMMA WitnessesKept ==
    ASSUME FilesFit, disk'.chain = disk.chain, durable'.chain = durable.chain,
           disk'.witness = disk.witness, durable'.witness = durable.witness, envelopes' = envelopes
    PROVE  WitnessTracks' /\ LastAtRisk'
BY DEF FilesFit, WitnessTracks, Ahead, LastAtRisk

LEMMA PublishWitnessStep ==
    ASSUME Inv, NEW outcome \in Outcomes, PublishWitness(outcome)
    PROVE  Inv'
<1>. DEFINE e == proc.envelope
<1>1. /\ proc.pc = "witness" /\ ~At("idle") /\ e \in Event /\ Folds(proc.known, e)
      /\ e # Nothing /\ (Level \/ Unaware) /\ holds > 0
  BY Typed, MarkType DEF Inv, PublishWitness, At, CommandFits, PlaceFits, InHand
<1>2. /\ e.at = Len(proc.known) + 1 /\ e.id = envelopes /\ e.hold = holds
      /\ \A i \in 1 .. Len(proc.known) : proc.known[i].id < e.id
  BY <1>1 DEF Inv, CommandFits, EnvelopeFits, Folds
<1>3. e \in Marks
  BY <1>1, EventType
<1>4. /\ incidents' \in 0 .. MaxIncidents /\ disk' \in Files /\ durable' \in Files
      /\ disk'.chain = disk.chain /\ durable'.chain = durable.chain
      /\ disk'.projection = disk.projection /\ durable'.projection = durable.projection
      /\ disk'.witness \in {disk.witness, e} /\ durable'.witness \in {durable.witness, e}
      /\ outcome = "durable" => disk'.witness = e /\ durable'.witness = e
      /\ outcome # "durable" => durable'.witness = durable.witness
      /\ seen' = Longer(seen, disk'.chain)
  <2>. DEFINE d == [disk EXCEPT !["witness"] = e]
              s == [durable EXCEPT !["witness"] = e]
  <2>1. /\ d \in Files /\ d.chain = disk.chain /\ d.projection = disk.projection
        /\ d.witness = e
        /\ s \in Files /\ s.chain = durable.chain /\ s.projection = durable.projection
        /\ s.witness = e
    BY <1>3, Typed DEF Inv, Files
  <2>2. Wrote("witness", e, outcome)
    BY DEF PublishWitness
  <2>3. /\ incidents' \in 0 .. MaxIncidents /\ disk' \in Files /\ durable' \in Files
        /\ disk' \in {disk, d} /\ durable' \in {durable, s}
        /\ outcome = "durable" => disk' = d /\ durable' = s
        /\ outcome # "durable" => durable' = durable
        /\ seen' = Longer(seen, disk'.chain)
    BY <2>1, <2>2, WroteFile DEF Inv
  <2>. HIDE DEF d, s, e
  <2>. QED BY <2>1, <2>3
<1>. HIDE DEF e
<1>5. UNCHANGED <<envelopes, holds, relied, reader>>
  BY DEF PublishWitness
<1>6. Unaware => /\ proc.known = <<>>
                 /\ disk'.witness = disk.witness /\ durable'.witness = durable.witness
  BY <1>1, <1>4 DEF Unaware, e
<1>7. Level => Ahead(e, disk.chain)
  BY <1>2 DEF Level, Ahead
<1>8. disk.witness.id \in Nat /\ disk.witness.id <= e.id /\ e.id \in Nat
  BY <1>1, <1>2, Typed, MarkType, EventType DEF Inv, FilesFit, WitnessTracks
<1>9. WitnessTracks'
  <2>1. CASE Unaware
    BY <1>4, <1>5, <1>6, <2>1, WitnessesKept DEF Inv
  <2>2. CASE Level
    <3>1. /\ disk'.witness = Tip(disk.chain) \/ Ahead(disk'.witness, disk.chain)
          /\ durable'.witness = Tip(disk.chain) \/ Ahead(durable'.witness, disk.chain)
      BY <1>4, <1>7, <2>2 DEF Inv, FilesFit, WitnessTracks
    <3>2. e.at = Len(disk.chain) + 1
      BY <1>2, <2>2 DEF Level
    <3>3. durable'.witness.at = Len(disk.chain) + 1 => disk'.witness.at = Len(disk.chain) + 1
      BY <1>4, <3>2 DEF Inv, FilesFit, WitnessTracks
    <3>4. disk'.witness.id <= envelopes /\ durable'.witness.id <= envelopes
      BY <1>2, <1>4, <1>8 DEF Inv, FilesFit, WitnessTracks
    <3>. QED BY <1>4, <1>5, <3>1, <3>3, <3>4 DEF WitnessTracks, Ahead
  <2>. QED BY <1>1, <2>1, <2>2
<1>10. LastAtRisk'
  BY <1>1, <1>4, <1>6 DEF Inv, FilesFit, LastAtRisk, Level
<1>11. FilesFit'
  <2>1. Projects(disk.projection)' /\ Projects(durable.projection)' /\ Begins(relied, durable.chain)'
    BY <1>4, <1>5 DEF Inv, FilesFit, Projects
  <2>. QED BY <1>1, <1>4, <1>5, <1>9, <1>10, <2>1, FilesWritten DEF Inv
<1>12. CommandFits' /\ proc' \in Commands
  <2>1. CASE outcome = "durable"
    <3>1. /\ proc' \in Commands /\ proc'.pc = "event" /\ proc'.known = proc.known
          /\ proc'.queue = proc.queue /\ proc'.envelope = e /\ proc'.witness = e
      BY <1>3, <2>1, Typed DEF Inv, PublishWitness, Then, Succeeded, e, Commands
    <3>2. (Level' \/ Unaware') /\ holds' > 0
      BY <1>1, <1>4, <1>5, <1>6, <2>1, <3>1 DEF Level, Unaware
    <3>3. EnvelopeFits'
      BY <1>5, <3>1 DEF Inv, CommandFits, EnvelopeFits, e
    <3>4. PlaceFits'
      BY <1>1, <1>4, <2>1, <3>1 DEF PlaceFits, InHand, At
    <3>5. QueueFits'
      BY <3>1 DEF Inv, CommandFits, QueueFits, At
    <3>6. OneDeclares'
      BY <1>1, <1>5, <3>1 DEF Inv, CommandFits, OneDeclares, Incomplete, At
    <3>. QED BY <3>1, <3>2, <3>3, <3>4, <3>5, <3>6 DEF CommandFits
  <2>2. CASE outcome # "durable"
    <3>1. proc' = [proc EXCEPT !.pc = "failed"]
      BY <2>2 DEF PublishWitness, Then, Succeeded
    <3>2. proc'.known = proc.known /\ proc'.pc = "failed" /\ proc'.envelope = e
      BY <3>1, Typed, CommandTypes DEF Inv, e
    <3>3. Level' \/ Unaware'
      BY <1>1, <1>4, <1>6, <3>2 DEF Level, Unaware, e
    <3>. QED BY <1>1, <1>5, <3>1, <3>3, HasFailed
  <2>. QED BY <2>1, <2>2
<1>13. ReaderFits'
  <2>1. disk.witness.id <= disk'.witness.id
    BY <1>4, <1>8
  <2>2. Begins(disk.chain, disk'.chain)
    BY <1>4, Typed, BeginsItself DEF Inv
  <2>. QED BY <1>4, <1>5, <2>1, <2>2, ReaderKept DEF Inv
<1>14. TypeOK'
  <2>1. seen' \in Seq(Event)
    BY <1>4, Typed DEF Inv, Longer
  <2>. QED BY <1>4, <1>5, <1>12, <2>1, Typed, Types DEF Inv, TypeOK
<1>. QED BY <1>11, <1>12, <1>13, <1>14 DEF Inv

LEMMA InOrderAppended ==
    ASSUME NEW s \in Seq(Event), InOrder(s), NEW e \in Event,
           e.at = Len(s) + 1, e.at <= e.id, e.id <= envelopes, e.of <= e.id,
           e.index <= e.size, e.hold <= holds,
           \A i \in 1 .. Len(s) : s[i].id < e.id
    PROVE  InOrder(Append(s, e))
<1>. DEFINE t == Append(s, e)
<1>1. /\ Len(s) \in Nat /\ Len(t) = Len(s) + 1
      /\ t[Len(s) + 1] = e /\ \A i \in 1 .. Len(s) : t[i] = s[i]
  BY Appending, LenProperties
<1>. HIDE DEF t
<1>2. \A i \in 1 .. Len(t) : i \in 1 .. Len(s) \/ i = Len(s) + 1
  BY <1>1
<1>3. ASSUME NEW i \in 1 .. Len(t)
      PROVE  /\ t[i].at = i /\ i <= t[i].id /\ t[i].id <= envelopes
             /\ t[i].of <= t[i].id /\ t[i].index <= t[i].size /\ t[i].hold <= holds
  <2>1. CASE i \in 1 .. Len(s)
    BY <1>1, <2>1 DEF InOrder
  <2>2. CASE i = Len(s) + 1
    BY <1>1, <2>2
  <2>. QED BY <1>2, <2>1, <2>2
<1>4. ASSUME NEW i \in 1 .. Len(t), NEW j \in 1 .. Len(t), i < j
      PROVE  t[i].id < t[j].id
  <2>1. i \in 1 .. Len(s)
    BY <1>1, <1>4
  <2>2. CASE j \in 1 .. Len(s)
    BY <1>1, <1>4, <2>1, <2>2 DEF InOrder
  <2>3. CASE j = Len(s) + 1
    BY <1>1, <2>1, <2>3
  <2>. QED BY <1>2, <2>2, <2>3
<1>5. InOrder(t)
  BY <1>3, <1>4 DEF InOrder
<1>. QED BY <1>5 DEF t

\* An event that folds has an index its size allows.
LEMMA FoldsWithin ==
    ASSUME NEW chain \in Seq(Event), NEW e \in Event, Folds(chain, e)
    PROVE  e.index <= e.size
<1>1. CASE Incomplete(chain)
  <2>1. Last(chain) \in Event
    BY <1>1, LastOfSome DEF Incomplete
  <2>. QED BY <1>1, <2>1, EventType DEF Folds, Incomplete
<1>2. CASE ~Incomplete(chain)
  BY <1>2, EventType, BoundsAssumption DEF Folds
<1>. QED BY <1>1, <1>2

LEMMA PublishEventStep ==
    ASSUME Inv, NEW outcome \in Outcomes, PublishEvent(outcome)
    PROVE  Inv'
<1>. DEFINE e == proc.envelope
            longer == Append(disk.chain, e)
<1>1. /\ proc.pc = "event" /\ ~At("idle") /\ e \in Event /\ Folds(proc.known, e)
      /\ e # Nothing /\ (Level \/ Unaware) /\ holds > 0
      /\ disk.witness = e /\ durable.witness = e
  BY Typed, MarkType DEF Inv, PublishEvent, At, CommandFits, PlaceFits, InHand
<1>2. /\ e.at = Len(proc.known) + 1 /\ e.id = envelopes /\ e.hold = holds /\ e.of <= e.id
      /\ e.at <= e.id /\ \A i \in 1 .. Len(proc.known) : proc.known[i].id < e.id
  BY <1>1 DEF Inv, CommandFits, EnvelopeFits, Folds
<1>3. Level
  <2>1. e.at > Len(disk.chain)
    BY DEF PublishEvent
  <2>. QED BY <1>1, <1>2, <2>1, Typed, LenProperties, KnownStands DEF Inv
<1>4. /\ disk.chain = proc.known /\ durable.chain = disk.chain
      /\ longer \in Seq(Event) /\ Len(longer) = Len(disk.chain) + 1
      /\ longer # <<>> /\ Last(longer) = e /\ Begins(disk.chain, longer)
      /\ Len(disk.chain) \in Nat
  BY <1>1, <1>3, Typed, Appending, LenProperties DEF Inv, Level
<1>5. /\ incidents' \in 0 .. MaxIncidents /\ disk' \in Files /\ durable' \in Files
      /\ disk'.witness = e /\ durable'.witness = e
      /\ disk'.projection = disk.projection /\ durable'.projection = durable.projection
      /\ disk'.chain \in {disk.chain, longer} /\ durable'.chain \in {disk.chain, longer}
      /\ outcome = "durable" => disk'.chain = longer /\ durable'.chain = longer
      /\ outcome # "durable" => durable'.chain = disk.chain
      /\ seen' = Longer(seen, disk'.chain)
  <2>. DEFINE d == [disk EXCEPT !["chain"] = longer]
              s == [durable EXCEPT !["chain"] = longer]
  <2>. HIDE DEF e, longer
  <2>1. /\ d \in Files /\ d.chain = longer /\ d.projection = disk.projection
        /\ d.witness = disk.witness
        /\ s \in Files /\ s.chain = longer /\ s.projection = durable.projection
        /\ s.witness = durable.witness
    BY <1>4, Typed DEF Inv, Files
  <2>2. Wrote("chain", longer, outcome)
    BY DEF PublishEvent, e, longer
  <2>3. /\ incidents' \in 0 .. MaxIncidents /\ disk' \in Files /\ durable' \in Files
        /\ disk' \in {disk, d} /\ durable' \in {durable, s}
        /\ outcome = "durable" => disk' = d /\ durable' = s
        /\ outcome # "durable" => durable' = durable
        /\ seen' = Longer(seen, disk'.chain)
    BY <2>1, <2>2, WroteFile DEF Inv
  <2>. HIDE DEF d, s
  <2>. QED BY <1>1, <1>4, <2>1, <2>3
<1>6. UNCHANGED <<envelopes, holds, relied, reader>>
  BY DEF PublishEvent
<1>7. InOrder(longer)
  <2>1. e.index <= e.size /\ e.hold <= holds /\ e.id <= envelopes
    BY <1>1, <1>2, Typed, FoldsWithin DEF Inv
  <2>2. e.at = Len(disk.chain) + 1 /\ \A i \in 1 .. Len(disk.chain) : disk.chain[i].id < e.id
    BY <1>2, <1>4
  <2>. HIDE DEF e
  <2>. QED BY <1>1, <1>2, <2>1, <2>2, Typed, InOrderAppended DEF Inv, FilesFit
<1>. HIDE DEF e, longer
<1>8. FilesFit'
  <2>1. InOrder(disk.chain)'
    <3>1. ASSUME NEW s \in {disk.chain, longer} PROVE InOrder(s)'
      BY <1>6, <1>7 DEF Inv, FilesFit, InOrder
    <3>. QED BY <1>5, <3>1 DEF InOrder
  <2>2. WitnessTracks'
    <3>1. e.id <= envelopes'
      BY <1>1, <1>2, <1>6, EventType
    <3>2. CASE disk'.chain = longer
      BY <1>2, <1>4, <1>5, <3>1, <3>2 DEF WitnessTracks, Tip
    <3>3. CASE disk'.chain = disk.chain
      BY <1>1, <1>5, <3>1, <3>3 DEF Inv, FilesFit, WitnessTracks, Ahead
    <3>. QED BY <1>5, <3>2, <3>3
  <2>3. LastAtRisk'
    BY <1>5 DEF LastAtRisk, longer
  <2>4. Begins(durable.chain, durable'.chain)
    BY <1>4, <1>5, Typed, BeginsItself DEF Inv
  <2>5. Projects(disk.projection)' /\ Projects(durable.projection)'
    <3>1. ASSUME NEW m \in {disk.projection, durable.projection}
          PROVE  m # Nothing => m.at <= Len(durable'.chain) /\ m = durable'.chain[m.at]
      <4>1. Projects(m)'
        BY <1>5, <2>4, Typed, ProjectsKept DEF Inv, FilesFit
      <4>. QED BY <4>1 DEF Projects
    <3>. QED BY <1>5, <3>1 DEF Projects
  <2>6. SeenStands'
    <3>1. seen = disk.chain /\ Begins(disk.chain, disk'.chain) /\ disk'.chain \in Seq(Event)
      BY <1>1, <1>4, <1>5, Typed, SeenByCommand, BeginsItself DEF Inv
    <3>. QED BY <1>5, <3>1, Typed, LongerIsWhole DEF Inv, SeenStands
  <2>7. Begins(relied, durable.chain)'
    BY <1>5, <1>6, <2>4, Typed, FileTypes, BeginsAgain DEF Inv, FilesFit
  <2>. QED BY <2>1, <2>2, <2>3, <2>5, <2>6, <2>7 DEF FilesFit
<1>9. CommandFits' /\ proc' \in Commands
  <2>1. CASE outcome = "durable"
    <3>1. /\ proc' \in Commands /\ proc'.pc = "projection" /\ proc'.known = longer
          /\ proc'.queue = proc.queue /\ proc'.envelope = e
      BY <1>4, <2>1, Typed DEF Inv, PublishEvent, Then, Succeeded, e, longer, Commands
    <3>2. Level' /\ holds' > 0
      BY <1>1, <1>5, <1>6, <2>1, <3>1 DEF Level
    <3>3. EnvelopeFits'
      BY <1>2, <1>4, <1>6, <3>1 DEF EnvelopeFits
    <3>4. PlaceFits'
      BY <1>1, <1>4, <3>1 DEF PlaceFits, InHand, At
    <3>5. QueueFits'
      <4>1. Len(proc'.known) < Len(Bootstrap) => Len(proc.known) < Len(Bootstrap)
        BY <1>4, <3>1, BootstrapType
      <4>. QED BY <3>1, <4>1 DEF Inv, CommandFits, QueueFits, At
    <3>6. OneDeclares'
      BY <1>2, <1>4, <1>6, <3>1 DEF OneDeclares
    <3>. QED BY <3>1, <3>2, <3>3, <3>4, <3>5, <3>6 DEF CommandFits
  <2>2. CASE outcome # "durable"
    <3>1. proc' = [proc EXCEPT !.pc = "failed"]
      BY <2>2 DEF PublishEvent, Then, Succeeded
    <3>2. proc'.known = proc.known /\ proc'.pc = "failed" /\ proc'.envelope = e
      BY <3>1, Typed, CommandTypes DEF Inv, e
    <3>3. Level' \/ Unaware'
      BY <1>4, <1>5, <2>2, <3>2 DEF Level, Unaware, longer
    <3>. QED BY <1>1, <1>6, <3>1, <3>3, HasFailed
  <2>. QED BY <2>1, <2>2
<1>10. ReaderFits'
  <2>1. Begins(disk.chain, disk'.chain) /\ disk.witness.id <= disk'.witness.id
    BY SMTT(30), <1>1, <1>4, <1>5, Typed, BeginsItself, EventType DEF Inv
  <2>. QED BY <1>5, <1>6, <2>1, ReaderKept DEF Inv
<1>11. TypeOK'
  <2>1. seen' \in Seq(Event)
    BY <1>4, <1>5, Typed DEF Inv, Longer
  <2>. QED BY <1>5, <1>6, <1>9, <2>1, Typed, Types DEF Inv, TypeOK
<1>. QED BY <1>8, <1>9, <1>10, <1>11 DEF Inv

\* A projection or a receipt is written: of the two, one is as it was.
LEMMA WroteProjection ==
    ASSUME TypeOK, FilesFit, NEW outcome \in Outcomes, durable.chain = disk.chain,
           disk.chain # <<>>, ~At("idle"), Wrote("projection", Last(disk.chain), outcome),
           UNCHANGED <<envelopes, holds>>, Begins(relied', disk.chain)
    PROVE  /\ incidents' \in 0 .. MaxIncidents /\ disk' \in Files /\ durable' \in Files
           /\ seen' \in Seq(Event)
           /\ disk'.chain = disk.chain /\ durable'.chain = disk.chain
           /\ disk'.witness = disk.witness
           /\ FilesFit'
<1>. DEFINE m == Last(disk.chain)
            d == [disk EXCEPT !["projection"] = m]
            s == [durable EXCEPT !["projection"] = m]
<1>1. /\ m \in Event /\ m \in Marks /\ m.at = Len(disk.chain) /\ m = disk.chain[m.at]
  <2>1. m \in Event /\ m = disk.chain[Len(disk.chain)] /\ Len(disk.chain) \in 1 .. Len(disk.chain)
    BY Typed, LastOfSome
  <2>. HIDE DEF m
  <2>. QED BY <2>1, EventType DEF FilesFit, InOrder
<1>. HIDE DEF m
<1>2. /\ d \in Files /\ d.chain = disk.chain /\ d.witness = disk.witness /\ d.projection = m
      /\ s \in Files /\ s.chain = durable.chain /\ s.witness = durable.witness
      /\ s.projection = m
  BY <1>1, Typed DEF Files
<1>3. /\ incidents' \in 0 .. MaxIncidents /\ disk' \in Files /\ durable' \in Files
      /\ disk' \in {disk, d} /\ durable' \in {durable, s} /\ seen' = Longer(seen, disk'.chain)
  BY <1>2, WroteFile DEF m
<1>. HIDE DEF d, s
<1>4. /\ disk'.chain = disk.chain /\ durable'.chain = durable.chain
      /\ disk'.witness = disk.witness /\ durable'.witness = durable.witness
      /\ disk'.projection \in {disk.projection, m}
      /\ durable'.projection \in {durable.projection, m}
  BY <1>2, <1>3
<1>5. seen' \in Seq(Event)
  BY <1>3, <1>4, Typed DEF Longer
<1>6. Projects(disk.projection)' /\ Projects(durable.projection)'
  <2>1. Len(disk.chain) \in Nat
    BY Typed, LenProperties
  <2>2. ASSUME NEW p \in {disk.projection, durable.projection, m}
        PROVE  p # Nothing => p.at <= Len(disk.chain) /\ p = disk.chain[p.at]
    BY <1>1, <2>1 DEF FilesFit, Projects
  <2>. QED BY <1>4, <2>2 DEF Projects
<1>7. FilesFit'
  BY <1>3, <1>4, <1>6, FilesWritten, WitnessesKept
<1>. QED BY <1>3, <1>4, <1>5, <1>7

LEMMA WroteReceipt ==
    ASSUME TypeOK, FilesFit, NEW outcome \in Outcomes, NEW id \in 1 .. MaxEnvelopes, ~At("idle"),
           Wrote("receipts", disk.receipts \union {id}, outcome),
           UNCHANGED <<envelopes, holds, relied>>
    PROVE  /\ incidents' \in 0 .. MaxIncidents /\ disk' \in Files /\ durable' \in Files
           /\ seen' \in Seq(Event)
           /\ disk'.chain = disk.chain /\ durable'.chain = durable.chain
           /\ disk'.witness = disk.witness
           /\ FilesFit'
<1>. DEFINE r == disk.receipts \union {id}
            d == [disk EXCEPT !["receipts"] = r]
            s == [durable EXCEPT !["receipts"] = r]
<1>1. r \in SUBSET (1 .. MaxEnvelopes)
  BY Typed, FileTypes
<1>. HIDE DEF r
<1>2. /\ d \in Files /\ d.chain = disk.chain /\ d.witness = disk.witness
      /\ d.projection = disk.projection
      /\ s \in Files /\ s.chain = durable.chain /\ s.witness = durable.witness
      /\ s.projection = durable.projection
  BY <1>1, Typed DEF Files
<1>3. /\ incidents' \in 0 .. MaxIncidents /\ disk' \in Files /\ durable' \in Files
      /\ disk' \in {disk, d} /\ durable' \in {durable, s} /\ seen' = Longer(seen, disk'.chain)
  BY <1>2, WroteFile DEF r
<1>. HIDE DEF d, s
<1>4. /\ disk'.chain = disk.chain /\ durable'.chain = durable.chain
      /\ disk'.witness = disk.witness /\ durable'.witness = durable.witness
      /\ disk'.projection = disk.projection /\ durable'.projection = durable.projection
  BY <1>2, <1>3
<1>5. seen' \in Seq(Event)
  BY <1>3, <1>4, Typed DEF Longer
<1>6. Projects(disk.projection)' /\ Projects(durable.projection)' /\ Begins(relied, durable.chain)'
  BY <1>4 DEF FilesFit, Projects
<1>7. FilesFit'
  BY <1>3, <1>4, <1>6, FilesWritten, WitnessesKept
<1>. QED BY <1>3, <1>4, <1>5, <1>7

\* A reader does not see whether something else than an event or a witness is written.
LEMMA ReaderKeptBy ==
    ASSUME TypeOK, ReaderFits, UNCHANGED reader, disk' \in Files,
           disk'.chain = disk.chain, disk'.witness = disk.witness
    PROVE  ReaderFits'
BY DEF ReaderFits

LEMMA PublishProjectionStep ==
    ASSUME Inv, NEW outcome \in Outcomes, PublishProjection(outcome)
    PROVE  Inv'
<1>1. /\ proc.pc = "projection" /\ ~At("idle") /\ Level /\ proc.known = disk.chain
      /\ durable.chain = disk.chain /\ disk.chain # <<>> /\ proc.envelope # Nothing
  BY DEF Inv, PublishProjection, At, CommandFits, PlaceFits, InHand, Level, Unaware
<1>2. UNCHANGED <<envelopes, holds, reader>>
  BY DEF PublishProjection
<1>3. relied' \in Seq(Event) /\ Begins(relied', disk.chain)
  <2>1. relied' \in {relied, Longer(relied, disk.chain)}
    BY <1>1 DEF PublishProjection
  <2>. QED BY <2>1, Typed, ReliedBegins, BeginsItself, LongerBegins DEF Inv
<1>4. /\ incidents' \in 0 .. MaxIncidents /\ disk' \in Files /\ durable' \in Files
      /\ seen' \in Seq(Event)
      /\ disk'.chain = disk.chain /\ durable'.chain = disk.chain /\ disk'.witness = disk.witness
      /\ FilesFit'
  BY <1>1, <1>2, <1>3, WroteProjection DEF Inv, PublishProjection
<1>5. CommandFits' /\ proc' \in Commands
  <2>1. CASE outcome = "durable"
    <3>1. proc' \in {Appended, Established(proc)}
      BY <2>1 DEF PublishProjection, Then, Succeeded
    <3>2. proc' \in {[proc EXCEPT !.pc = "receipt"], Established(proc)}
      BY <3>1 DEF Appended
    <3>3. proc'.known = proc.known
      BY <1>1, <3>2, Typed, EstablishedFits DEF Inv, Commands
    <3>. QED BY <1>1, <1>2, <1>4, <3>1, <3>3, GoesOn DEF Level
  <2>2. CASE outcome # "durable"
    <3>1. proc' = [proc EXCEPT !.pc = "failed"]
      BY <2>2 DEF PublishProjection, Then, Succeeded
    <3>2. Level'
      BY <1>1, <1>4, <3>1, Typed, CommandTypes DEF Inv, Level
    <3>. QED BY <1>1, <1>2, <3>1, <3>2, HasFailed
  <2>. QED BY <2>1, <2>2
<1>6. ReaderFits'
  BY <1>2, <1>4, ReaderKeptBy DEF Inv
<1>7. TypeOK'
  BY <1>2, <1>3, <1>4, <1>5, Typed, Types DEF Inv, TypeOK
<1>. QED BY <1>4, <1>5, <1>6, <1>7 DEF Inv

LEMMA PublishReceiptStep ==
    ASSUME Inv, NEW outcome \in Outcomes, PublishReceipt(outcome)
    PROVE  Inv'
<1>1. /\ proc.pc = "receipt" /\ ~At("idle") /\ Level /\ proc.known = disk.chain
      /\ durable.chain = disk.chain /\ proc.envelope # Nothing /\ proc.envelope \in Event
  BY Typed, MarkType DEF Inv, PublishReceipt, At, CommandFits, PlaceFits, InHand, Level, Unaware
<1>2. UNCHANGED <<envelopes, holds, relied, reader>>
  BY DEF PublishReceipt
<1>3. /\ incidents' \in 0 .. MaxIncidents /\ disk' \in Files /\ durable' \in Files
      /\ seen' \in Seq(Event)
      /\ disk'.chain = disk.chain /\ durable'.chain = disk.chain /\ disk'.witness = disk.witness
      /\ FilesFit'
  <2>1. proc.envelope.id \in 1 .. MaxEnvelopes
    BY <1>1, EventType
  <2>. QED BY <1>1, <1>2, <2>1, WroteReceipt DEF Inv, PublishReceipt
<1>4. CommandFits' /\ proc' \in Commands
  <2>1. CASE outcome = "durable"
    <3>1. proc' = Established(proc)
      BY <2>1 DEF PublishReceipt, Then, Succeeded
    <3>2. proc'.known = proc.known
      BY <1>1, <3>1, Typed, EstablishedFits DEF Inv
    <3>. QED BY <1>1, <1>2, <1>3, <3>1, <3>2, GoesOn DEF Level
  <2>2. CASE outcome # "durable"
    <3>1. proc' = [proc EXCEPT !.pc = "failed"]
      BY <2>2 DEF PublishReceipt, Then, Succeeded
    <3>2. Level'
      BY <1>1, <1>3, <3>1, Typed, CommandTypes DEF Inv, Level
    <3>. QED BY <1>1, <1>2, <3>1, <3>2, HasFailed
  <2>. QED BY <2>1, <2>2
<1>5. ReaderFits'
  BY <1>2, <1>3, ReaderKeptBy DEF Inv
<1>6. TypeOK'
  BY <1>2, <1>3, <1>4, Typed, Types DEF Inv, TypeOK
<1>. QED BY <1>3, <1>4, <1>5, <1>6 DEF Inv

\* Nothing changes for a command that repairs: it stays, or has an exception.
LEMMA Repaired ==
    ASSUME Inv, NEW outcome \in Outcomes, At("opened"), Then(outcome, proc),
           disk'.chain = disk.chain, durable'.chain = disk.chain, UNCHANGED <<envelopes, holds>>
    PROVE  CommandFits' /\ proc' \in Commands
<1>1. Level /\ proc \in Commands /\ ~At("idle")
  BY Typed DEF Inv, CommandFits, At, Unaware
<1>2. CASE outcome = "durable"
  <2>1. proc' = proc
    BY <1>2 DEF Then, Succeeded
  <2>. QED BY <1>1, <2>1
           DEF Inv, CommandFits, Level, EnvelopeFits, PlaceFits, QueueFits, OneDeclares, At
<1>3. CASE outcome # "durable"
  <2>1. proc' = [proc EXCEPT !.pc = "failed"]
    BY <1>3 DEF Then, Succeeded
  <2>2. Level'
    BY <1>1, <2>1, CommandTypes DEF Level
  <2>. QED BY <1>1, <2>1, <2>2, HasFailed
<1>. QED BY <1>2, <1>3

LEMMA RepairStep ==
    ASSUME Inv, NEW outcome \in Outcomes, Repair(outcome)
    PROVE  Inv'
<1>1. /\ At("opened") /\ ~At("idle") /\ durable.chain = disk.chain /\ disk.chain # <<>>
  BY DEF Inv, Repair, At, CommandFits, PlaceFits, Level, Unaware
<1>2. UNCHANGED <<envelopes, holds, relied, reader>>
  BY DEF Repair
<1>3. /\ incidents' \in 0 .. MaxIncidents /\ disk' \in Files /\ durable' \in Files
      /\ seen' \in Seq(Event)
      /\ disk'.chain = disk.chain /\ durable'.chain = disk.chain /\ disk'.witness = disk.witness
      /\ FilesFit'
  BY <1>1, <1>2, ReliedBegins, WroteProjection DEF Inv, Repair
<1>4. CommandFits' /\ proc' \in Commands
  BY <1>1, <1>2, <1>3, Repaired DEF Repair
<1>5. ReaderFits'
  BY <1>2, <1>3, ReaderKeptBy DEF Inv
<1>6. TypeOK'
  BY <1>2, <1>3, <1>4, Typed, Types DEF Inv, TypeOK
<1>. QED BY <1>3, <1>4, <1>5, <1>6 DEF Inv

LEMMA RebuildStep ==
    ASSUME Inv, NEW outcome \in Outcomes, NEW i \in Rebuilds, Rebuild(i, outcome)
    PROVE  Inv'
<1>1. /\ At("opened") /\ ~At("idle") /\ durable.chain = disk.chain
  BY DEF Inv, Rebuild, At, CommandFits, PlaceFits, Level, Unaware
<1>2. UNCHANGED <<envelopes, holds, relied, reader>>
  BY DEF Rebuild
<1>3. /\ incidents' \in 0 .. MaxIncidents /\ disk' \in Files /\ durable' \in Files
      /\ seen' \in Seq(Event)
      /\ disk'.chain = disk.chain /\ durable'.chain = disk.chain /\ disk'.witness = disk.witness
      /\ FilesFit'
  <2>1. disk.chain[i].id \in 1 .. MaxEnvelopes
    BY Typed, LenProperties, ElementOfSeq, EventType DEF Inv, Rebuilds, Missing
  <2>. QED BY <1>1, <1>2, <2>1, WroteReceipt DEF Inv, Rebuild
<1>4. CommandFits' /\ proc' \in Commands
  BY <1>1, <1>2, <1>3, Repaired DEF Rebuild
<1>5. ReaderFits'
  BY <1>2, <1>3, ReaderKeptBy DEF Inv
<1>6. TypeOK'
  BY <1>2, <1>3, <1>4, Typed, Types DEF Inv, TypeOK
<1>. QED BY <1>3, <1>4, <1>5, <1>6 DEF Inv

--------------------------------------------------------------------------------
(***************************************************************************)
(* The power fails                                                         *)
(***************************************************************************)

LEMMA PowerLossStep ==
    ASSUME Inv, PowerLoss
    PROVE  Inv'
<1>1. /\ disk' \in Files /\ durable' = disk'
      /\ disk'.chain \in {disk.chain, durable.chain}
      /\ disk'.witness \in {disk.witness, durable.witness}
      /\ disk'.projection \in {disk.projection, durable.projection}
  <2>1. PICK c \in {disk.chain, durable.chain}, w \in {disk.witness, durable.witness},
             p \in {disk.projection, durable.projection}, r \in {disk.receipts, durable.receipts} :
             disk' = [chain |-> c, witness |-> w, projection |-> p, receipts |-> r]
    BY DEF PowerLoss
  <2>2. disk' \in Files
    BY <2>1, Typed, FileTypes DEF Inv, Files
  <2>. QED BY <2>1, <2>2 DEF PowerLoss
<1>2. UNCHANGED <<envelopes, holds, relied, seen>> /\ proc' = Idle /\ reader' = Away
  BY DEF PowerLoss
<1>3. /\ Begins(durable.chain, disk.chain)
      /\ durable.chain # disk.chain =>
            /\ disk.witness \in Event /\ durable.witness = disk.witness
            /\ Len(disk.chain) = Len(durable.chain) + 1
            /\ Last(disk.chain) = disk.witness
  BY DurableBegins DEF Inv, FilesFit
<1>4. Len(durable.chain) \in Nat /\ Len(disk.chain) \in Nat
  BY Typed, LenProperties DEF Inv
<1>5. disk'.chain # disk.chain =>
          /\ disk'.chain = durable.chain /\ disk'.witness = disk.witness
          /\ disk'.witness.at = Len(disk'.chain) + 1
          /\ \A i \in 1 .. Len(disk'.chain) : disk'.chain[i].id < disk'.witness.id
  <2>1. SUFFICES ASSUME disk'.chain # disk.chain
                 PROVE  /\ disk'.chain = durable.chain /\ disk'.witness = disk.witness
                        /\ disk'.witness.at = Len(disk'.chain) + 1
                        /\ \A i \in 1 .. Len(disk'.chain) : disk'.chain[i].id < disk'.witness.id
    OBVIOUS
  <2>2. /\ disk'.chain = durable.chain /\ disk'.witness = disk.witness
        /\ Len(disk.chain) = Len(durable.chain) + 1
        /\ disk.witness = disk.chain[Len(disk.chain)]
    BY <1>1, <1>3, <2>1 DEF Last
  <2>3. disk.witness.at = Len(disk.chain)
    BY <1>4, <2>2 DEF Inv, FilesFit, InOrder
  <2>4. ASSUME NEW i \in 1 .. Len(durable.chain)
        PROVE  durable.chain[i].id < disk.witness.id
    <3>1. durable.chain[i] = disk.chain[i] /\ i \in 1 .. Len(disk.chain)
          /\ Len(disk.chain) \in 1 .. Len(disk.chain) /\ i < Len(disk.chain)
      BY <1>3, <1>4, <2>2 DEF Begins
    <3>. QED BY <2>2, <3>1 DEF Inv, FilesFit, InOrder
  <2>. QED BY <2>2, <2>3, <2>4
<1>6. FilesFit'
  <2>1. InOrder(disk.chain)'
    <3>1. ASSUME NEW s \in {disk.chain, durable.chain} PROVE InOrder(s)'
      <4>1. /\ envelopes' \in Nat /\ envelopes <= envelopes' /\ holds' \in Nat /\ holds <= holds'
            /\ InOrder(disk.chain) /\ Begins(s, disk.chain) /\ s \in Seq(Event)
        BY <1>2, <1>3, Typed, BeginsItself DEF Inv, FilesFit
      <4>. QED BY <4>1, InOrderKept DEF Inv
    <3>. QED BY <1>1, <3>1 DEF InOrder
  <2>2. WitnessTracks'
    <3>1. disk'.witness.id <= envelopes'
      BY <1>1, <1>2 DEF Inv, FilesFit, WitnessTracks
    <3>2. disk'.witness = Tip(disk'.chain) \/ Ahead(disk'.witness, disk'.chain)
      <4>1. CASE disk'.chain = disk.chain
        BY <1>1, <4>1 DEF Inv, FilesFit, WitnessTracks, Ahead
      <4>2. CASE disk'.chain # disk.chain
        BY <1>5, <4>2 DEF Ahead
      <4>. QED BY <4>1, <4>2
    <3>. QED BY <1>1, <3>1, <3>2 DEF WitnessTracks, Ahead
  <2>3. LastAtRisk'
    BY <1>1 DEF LastAtRisk
  <2>4. Begins(durable.chain, disk'.chain)
    BY <1>1, <1>3, Typed, BeginsItself DEF Inv
  <2>5. Projects(disk.projection)' /\ Projects(durable.projection)'
    <3>1. ASSUME NEW m \in {disk.projection, durable.projection}
          PROVE  m # Nothing => m.at <= Len(durable'.chain) /\ m = durable'.chain[m.at]
      <4>1. Projects(m)'
        BY <1>1, <2>4, Typed, ProjectsKept DEF Inv, FilesFit
      <4>. QED BY <4>1 DEF Projects
    <3>. QED BY <1>1, <3>1 DEF Projects
  <2>6. SeenStands'
    <3>1. seen = disk.chain
      BY DEF Inv, FilesFit, SeenStands, Stopped, PowerLoss
    <3>2. CASE disk'.chain = disk.chain
      BY <1>2, <3>1, <3>2 DEF SeenStands
    <3>3. CASE disk'.chain # disk.chain
      <4>1. disk'.witness.at > Len(disk'.chain)
        BY <1>4, <1>5, <3>3
      <4>. QED BY <1>1, <1>2, <4>1, IdleCommand DEF SeenStands, Stopped, At
    <3>. QED BY <3>2, <3>3
  <2>7. Begins(relied, durable.chain)'
    BY <1>1, <1>2, ReliedBegins DEF Inv, FilesFit
  <2>. QED BY <2>1, <2>2, <2>3, <2>5, <2>6, <2>7 DEF FilesFit
<1>7. CommandFits'
  BY <1>2, IdleCommand, EmptySeq
     DEF CommandFits, At, EnvelopeFits, PlaceFits, QueueFits, OneDeclares, InHand
<1>8. reader' \in Readers /\ ReaderFits'
  BY <1>2, NothingType, EmptySeq, BoundsAssumption DEF Away, Readers, ReaderFits
<1>9. TypeOK'
  <2>1. incidents' \in 0 .. MaxIncidents
    BY Typed, BoundsAssumption DEF Inv, PowerLoss
  <2>. QED BY <1>1, <1>2, <1>8, <2>1, IdleCommand, Typed, Types DEF Inv, TypeOK
<1>. QED BY <1>6, <1>7, <1>8, <1>9 DEF Inv

--------------------------------------------------------------------------------
(***************************************************************************)
(* The steps of a reader                                                   *)
(***************************************************************************)

LEMMA VerdictType ==
    /\ Away \in Readers /\ Away.pc = "away" /\ Away.tries = 0
    /\ \A pc \in {"legacy", "probe", "contention", "broken"} :
          Verdict(pc) \in Readers /\ Verdict(pc).pc = pc /\ Verdict(pc).tries = 0
<1>1. Away \in Readers /\ Away.pc = "away" /\ Away.tries = 0
  BY NothingType, EmptySeq, BoundsAssumption DEF Away, Readers
<1>2. ASSUME NEW pc \in {"legacy", "probe", "contention", "broken"}
      PROVE  Verdict(pc) \in Readers /\ Verdict(pc).pc = pc /\ Verdict(pc).tries = 0
  BY <1>1 DEF Verdict, Readers
<1>. QED BY <1>1, <1>2

\* A reader that is at the beginning, or has nothing but its verdict.
LEMMA ReaderStepKeeps ==
    ASSUME Inv, Read, reader' \in Readers, ReaderFits', incidents' \in 0 .. MaxIncidents
    PROVE  Inv'
<1>1. UNCHANGED <<disk, durable, proc, envelopes, holds, relied, seen>>
  BY DEF Read, Look, ReadLegacy, ReadEvents, ReadWitness, ReadProjection, ReadAfter, Recheck,
         Probe, Reading
<1>2. FilesFit'
  BY <1>1, Typed, FilesKept DEF Inv, Stopped, At
<1>3. CommandFits'
  BY <1>1 DEF Inv, CommandFits, At, Level, Unaware, EnvelopeFits, PlaceFits, QueueFits, OneDeclares
<1>4. TypeOK'
  BY <1>1, Typed, Types DEF Inv, TypeOK
<1>. QED BY <1>2, <1>3, <1>4 DEF Inv

LEMMA AgainFits ==
    ASSUME TypeOK, ReaderFits
    PROVE  /\ Again \in Readers /\ Again.tries < MaxTries /\ Again.pc \in {"list", "contention"}
           /\ Again.pc = "list" => Again.before = disk.witness
<1>1. reader.tries \in Nat /\ reader.tries < MaxTries /\ MaxTries \in Nat /\ disk.witness \in Marks
  BY Typed, BoundsAssumption DEF ReaderFits
<1>2. CASE reader.tries + 1 = MaxTries
  BY <1>1, <1>2, VerdictType DEF Again
<1>3. CASE reader.tries + 1 # MaxTries
  <2>1. Again = [Away EXCEPT !.pc = "list", !.before = disk.witness, !.tries = reader.tries + 1]
    BY <1>3 DEF Again
  <2>2. reader.tries + 1 \in 0 .. MaxTries /\ reader.tries + 1 < MaxTries
    BY <1>1, <1>3
  <2>. QED BY <1>1, <2>1, <2>2, VerdictType DEF Readers
<1>. QED BY <1>2, <1>3

LEMMA ReaderStep ==
    ASSUME Inv, Read
    PROVE  Inv'
<1>1. /\ UNCHANGED <<disk, durable, proc, envelopes, holds, relied, seen>>
      /\ incidents' \in 0 .. MaxIncidents
  BY SMTT(30), Typed, BoundsAssumption
     DEF Inv, TypeOK, Read, Look, ReadLegacy, ReadEvents, ReadWitness, ReadProjection, ReadAfter,
         Recheck, Probe, Reading
<1>2. /\ disk.witness \in Marks /\ disk.witness.id \in Nat /\ disk.chain \in Seq(Event)
      /\ MaxTries \in Nat \ {0} /\ disk'.witness = disk.witness /\ disk'.chain = disk.chain
  BY <1>1, Typed, MarkType, BoundsAssumption DEF Inv
<1>3. ReaderFits /\ reader \in Readers
  BY Typed DEF Inv
<1>4. ASSUME reader'.pc \in {"away", "legacy", "view", "alarm", "probe", "contention", "broken"},
             reader'.tries < MaxTries
      PROVE  ReaderFits'
  BY <1>4 DEF ReaderFits
<1>5. ASSUME reader'.pc = "list", reader'.tries < MaxTries, reader'.before = disk.witness
      PROVE  ReaderFits'
  BY <1>2, <1>5 DEF ReaderFits
<1>6. reader' \in Readers /\ ReaderFits'
  <2>1. CASE Look
    <3>1. CASE reader' = [Away EXCEPT !.pc = "legacy"]
      BY <1>2, <1>4, <3>1, VerdictType DEF Verdict
    <3>2. CASE reader' = [Away EXCEPT !.pc = "list", !.before = disk.witness]
      <4>1. reader' \in Readers /\ reader'.pc = "list" /\ reader'.before = disk.witness
            /\ reader'.tries = 0
        BY <1>2, <3>2, VerdictType DEF Readers
      <4>. QED BY <1>2, <1>5, <4>1
    <3>. QED BY <2>1, <3>1, <3>2 DEF Look
  <2>2. CASE ReadLegacy
    BY <1>2, <1>4, <2>2, VerdictType DEF ReadLegacy
  <2>3. CASE ReadEvents
    <3>1. CASE disk.chain = <<>>
      BY <1>2, <1>3, <1>4, <2>3, <3>1, EmptySeq DEF ReadEvents, Alarm, Readers, ReaderFits
    <3>2. CASE disk.chain # <<>>
      BY <1>2, <1>3, <2>3, <3>2, BeginsItself DEF ReadEvents, Readers, ReaderFits, Reads
    <3>. QED BY <3>1, <3>2
  <2>4. CASE ReadWitness
    <3>1. CASE disk.witness = Last(reader.list)
      BY <1>2, <1>3, <2>4, <3>1 DEF ReadWitness, Readers, ReaderFits, Reads
    <3>2. CASE disk.witness # Last(reader.list)
      BY <1>2, <1>3, <1>4, <2>4, <3>2, EmptySeq DEF ReadWitness, Alarm, Readers, ReaderFits
    <3>. QED BY <3>1, <3>2
  <2>5. CASE ReadProjection
    <3>1. CASE disk.projection.at <= Len(reader.list)
      BY <1>2, <1>3, <2>5, <3>1 DEF ReadProjection, Readers, ReaderFits, Reads
    <3>2. CASE ~(disk.projection.at <= Len(reader.list))
      BY <1>2, <1>3, <1>4, <2>5, <3>2, EmptySeq DEF ReadProjection, Alarm, Readers, ReaderFits
    <3>. QED BY <3>1, <3>2
  <2>6. CASE ReadAfter
    <3>1. CASE Moved
      <4>1. reader' = Again
        BY <2>6, <3>1 DEF ReadAfter
      <4>. QED BY <1>4, <1>5, <4>1, AgainFits DEF Inv
    <3>2. CASE ~Moved
      <4>1. reader' = [reader EXCEPT !.pc = "view", !.before = Nothing, !.tries = 0]
        BY <2>6, <3>2 DEF ReadAfter
      <4>2. 0 \in 0 .. MaxTries /\ Nothing \in Marks
        BY <1>2, NothingType
      <4>3. reader' \in Readers /\ reader'.pc = "view" /\ reader'.tries = 0
        BY <1>3, <4>1, <4>2 DEF Readers
      <4>. QED BY <1>2, <1>4, <4>3
    <3>. QED BY <3>1, <3>2
  <2>7. CASE Recheck
    <3>1. CASE reader' = Again
      BY <1>4, <1>5, <3>1, AgainFits DEF Inv
    <3>2. CASE reader' = Verdict("probe")
      BY <1>2, <1>4, <3>2, VerdictType
    <3>. QED BY <2>7, <3>1, <3>2 DEF Recheck
  <2>8. CASE Probe
    BY <1>2, <1>4, <2>8, VerdictType DEF Probe
  <2>. QED BY <2>1, <2>2, <2>3, <2>4, <2>5, <2>6, <2>7, <2>8 DEF Read
<1>. QED BY <1>1, <1>6, ReaderStepKeeps

--------------------------------------------------------------------------------
(***************************************************************************)
(* The theorems                                                            *)
(***************************************************************************)

LEMMA InvInit == Init => Inv
<1>1. SUFFICES ASSUME Init PROVE Inv
  OBVIOUS
<1>2. NoFiles \in Files /\ NoFiles.chain = <<>> /\ NoFiles.witness = Nothing
      /\ NoFiles.projection = Nothing
  BY NothingType, EmptySeq DEF NoFiles, Files
<1>3. TypeOK
  <2>1. Away \in Readers /\ Idle \in Commands
    BY VerdictType, IdleCommand
  <2>. QED BY <1>1, <1>2, <2>1, EmptySeq, BoundsAssumption DEF Init, TypeOK, Readers, Commands
<1>4. FilesFit
  <2>1. InOrder(disk.chain) /\ Projects(disk.projection) /\ Projects(durable.projection)
    BY <1>1, <1>2, EmptySeq DEF Init, InOrder, Projects
  <2>2. WitnessTracks
    BY <1>1, <1>2, EmptySeq, NothingType DEF Init, WitnessTracks, Tip
  <2>3. LastAtRisk /\ SeenStands
    BY <1>1, <1>2 DEF Init, LastAtRisk, SeenStands
  <2>4. Begins(relied, durable.chain)
    BY <1>1, <1>2, EmptySeq, NoneBegins DEF Init
  <2>. QED BY <2>1, <2>2, <2>3, <2>4 DEF FilesFit
<1>5. CommandFits
  BY <1>1, IdleCommand, EmptySeq
     DEF Init, CommandFits, At, EnvelopeFits, PlaceFits, QueueFits, OneDeclares, InHand
<1>6. ReaderFits
  BY <1>1, VerdictType, BoundsAssumption DEF Init, ReaderFits
<1>. QED BY <1>3, <1>4, <1>5, <1>6 DEF Inv

LEMMA InvNext == Inv /\ [Next]_vars => Inv'
<1>1. SUFFICES ASSUME Inv, [Next]_vars PROVE Inv'
  OBVIOUS
<1>2. CASE UNCHANGED vars
  <2>1. UNCHANGED <<disk, durable, proc, envelopes, holds, incidents, reader, relied, seen>>
    BY <1>2 DEF vars
  <2>2. TypeOK'
    BY <1>1, <2>1, Typed, Types DEF Inv, TypeOK
  <2>3. FilesFit'
    BY <1>1, <2>1, Typed, FilesKept DEF Inv, Stopped, At
  <2>4. CommandFits'
    BY <1>1, <2>1
       DEF Inv, CommandFits, At, Level, Unaware, EnvelopeFits, PlaceFits, QueueFits, OneDeclares
  <2>5. ReaderFits'
    BY <1>1, <2>1, ReaderKeptStill DEF Inv
  <2>. QED BY <2>2, <2>3, <2>4, <2>5 DEF Inv
<1>3. ASSUME NEW outcome \in Outcomes, Publishing(outcome) PROVE Inv'
  <2>1. CASE PublishWitness(outcome)
    BY <1>1, <2>1, PublishWitnessStep
  <2>2. CASE PublishEvent(outcome)
    BY <1>1, <2>2, PublishEventStep
  <2>3. CASE PublishProjection(outcome)
    BY <1>1, <2>3, PublishProjectionStep
  <2>4. CASE PublishReceipt(outcome)
    BY <1>1, <2>4, PublishReceiptStep
  <2>5. CASE Repair(outcome)
    BY <1>1, <2>5, RepairStep
  <2>6. ASSUME NEW i \in Rebuilds, Rebuild(i, outcome) PROVE Inv'
    BY <1>1, <2>6, RebuildStep
  <2>. QED BY <1>3, <2>1, <2>2, <2>3, <2>4, <2>5, <2>6 DEF Publishing
<1>4. CASE Command
  <2>1. CASE Begin
    BY <1>1, <2>1, BeginStep
  <2>2. CASE Open
    BY <1>1, <2>2, OpenStep
  <2>3. CASE Admit
    BY <1>1, <2>3, AdmitStep
  <2>4. CASE Commit
    BY <1>1, <2>4, CommitStep
  <2>5. CASE Envelope
    BY <1>1, <2>5, EnvelopeStep
  <2>6. CASE EventExists
    BY <1>1, <2>6, EventExistsStep
  <2>7. CASE RetryDuplicate
    BY <1>1, <2>7, RetryDuplicateStep
  <2>8. CASE RetryNext
    BY <1>1, <2>8, RetryNextStep
  <2>9. CASE Exit
    BY <1>1, <2>9, ExitStep
  <2>. QED BY <1>4, <2>1, <2>2, <2>3, <2>4, <2>5, <2>6, <2>7, <2>8, <2>9 DEF Command
<1>5. CASE PowerLoss
  BY <1>1, <1>5, PowerLossStep
<1>6. CASE Read
  BY <1>1, <1>6, ReaderStep
<1>. QED BY <1>1, <1>2, <1>3, <1>4, <1>5, <1>6 DEF Next

\* What is in the files, what a command has in hand and what a reader goes by fit one
\* another, after every failure of a publication or of the power.
THEOREM ChainFits == Spec => []Inv
BY InvInit, InvNext, PTL DEF Spec

\* Every variable of an event chain has its type.
THEOREM ChainTyped == Spec => []TypeOK
<1>1. Inv => TypeOK
  BY DEF Inv
<1>. QED BY ChainFits, <1>1, PTL

\* The argument of Reliable, in one state.
LEMMA InvReliable ==
    ASSUME Inv
    PROVE  Reliable
<1>1. IsPrefix(relied, durable.chain) /\ IsPrefix(relied, disk.chain)
  BY Typed, ReliedBegins, BeginsIsPrefix DEF Inv, FilesFit
<1>2. Sound(disk) => IsPrefix(seen, disk.chain)
  BY SoundIsNotStopped, Typed, BeginsItself, BeginsIsPrefix DEF Inv, FilesFit, SeenStands
<1>3. ASSUME disk.projection # Nothing
      PROVE  /\ disk.projection.at <= Len(disk.chain)
             /\ disk.projection = disk.chain[disk.projection.at]
  <2>1. /\ disk.projection.at \in 1 .. Len(durable.chain)
        /\ disk.projection = durable.chain[disk.projection.at]
    BY <1>3, Typed, MarkType, EventType, LenProperties DEF Inv, FilesFit, Projects
  <2>2. /\ Len(durable.chain) <= Len(disk.chain)
        /\ \A i \in 1 .. Len(durable.chain) : durable.chain[i] = disk.chain[i]
    BY DurableBegins DEF Inv, FilesFit, Begins
  <2>3. Len(durable.chain) \in Nat /\ Len(disk.chain) \in Nat
    BY Typed, LenProperties DEF Inv
  <2>. QED BY <2>1, <2>2, <2>3
<1>. QED BY <1>1, <1>2, <1>3 DEF Reliable

\* What a command was told is established survives every crash and power failure;
\* what was there to be seen is never replaced by a shorter history that is believed;
\* state.json is never ahead of the chain (EventStore, RunLifecycleStorage,
\* publish_atomically, publish_exclusively).
THEOREM EstablishedStands == Spec => []Reliable
<1>1. Inv => Reliable
  BY InvReliable
<1>. QED BY ChainFits, <1>1, PTL

\* A witness that did not move while the events were read: no event was appended.
LEMMA ViewIsCurrent ==
    ASSUME Inv, Next, reader'.pc = "view", ~Reads("view")
    PROVE  reader'.list = disk'.chain
<1>1. ReadAfter /\ ~Moved
  <2>1. reader' # reader
    BY DEF Reads
  <2>2. PowerLoss => reader'.pc = "away"
    BY VerdictType DEF PowerLoss
  <2>3. Read
    BY <2>1, <2>2
       DEF Next, Publishing, PublishWitness, PublishEvent, PublishProjection, PublishReceipt,
           Repair, Rebuild, Command, Begin, Open, Admit, Commit, Envelope, EventExists,
           RetryDuplicate, RetryNext, Exit, Others
  <2>4. reader \in Readers /\ Again.pc # "view"
    BY Typed, AgainFits DEF Inv
  <2>5. ReadAfter
    BY <2>3, <2>4, VerdictType
       DEF Read, Look, ReadLegacy, ReadEvents, ReadWitness, ReadProjection, Recheck, Probe, Alarm,
           Readers
  <2>. QED BY <2>4, <2>5 DEF ReadAfter
<1>2. /\ reader.list \in Seq(Event) /\ reader.list # <<>> /\ Begins(reader.list, disk.chain)
      /\ reader.before.id <= Last(reader.list).id /\ disk.witness = reader.before
      /\ reader'.list = reader.list /\ disk'.chain = disk.chain
  BY <1>1, Typed DEF Inv, ReaderFits, ReadAfter, Reads, Moved, Readers, Reading
<1>3. Len(reader.list) \in 1 .. Len(reader.list) /\ Len(disk.chain) \in Nat
      /\ Last(reader.list) = reader.list[Len(reader.list)]
  BY <1>2, Typed, LastOfSome, LenProperties DEF Inv
<1>4. Len(reader.list) \in 1 .. Len(disk.chain) /\ disk.chain[Len(reader.list)] = Last(reader.list)
  BY <1>2, <1>3 DEF Begins
<1>5. Last(reader.list).id \in Nat /\ disk.witness.id \in Nat
  BY <1>2, LastOfSome, EventType, Typed, MarkType DEF Inv
<1>6. ~Ahead(disk.witness, disk.chain)
  <2>1. Ahead(disk.witness, disk.chain) => Last(reader.list).id < disk.witness.id
    BY <1>4 DEF Ahead
  <2>. QED BY <1>2, <1>5, <2>1
<1>7. disk.witness = disk.chain[Len(disk.chain)]
  BY <1>4, <1>6, EmptySeq DEF Inv, FilesFit, WitnessTracks, Tip, Last
<1>8. Len(reader.list) = Len(disk.chain)
  <2>1. SUFFICES ASSUME Len(reader.list) < Len(disk.chain) PROVE FALSE
    BY <1>4
  <2>2. Len(disk.chain) \in 1 .. Len(disk.chain)
    BY <1>3, <1>4
  <2>3. disk.chain[Len(reader.list)].id < disk.chain[Len(disk.chain)].id
    BY <1>4, <2>1, <2>2 DEF Inv, FilesFit, InOrder
  <2>. QED BY <1>2, <1>4, <1>5, <1>7, <2>3
<1>9. reader.list = disk.chain
  BY <1>2, <1>8, Typed, SeqEqual DEF Inv, Begins
<1>. QED BY <1>2, <1>9

\* A reader without the lock is shown the chain as it is at that moment, whatever was
\* appended, lost or repaired while it read (RunStateStore.load).
THEOREM ReadersSeeTheChain == Spec => ReadsCurrent
<1>1. Inv /\ [Next]_vars => [reader'.pc = "view" /\ ~Reads("view") => reader'.list = disk'.chain]_vars
  BY ViewIsCurrent
<1>. QED BY ChainFits, <1>1, PTL DEF Spec, ReadsCurrent

--------------------------------------------------------------------------------
(***************************************************************************)
(* MutationPromise                                                         *)
(***************************************************************************)

promise == <<Entries(disk.chain), Working, Ended>>

EntryOf(e) == [of |-> e.of, index |-> e.index, size |-> e.size]
AllEntries == [of : Nat, index : Nat, size : Nat]

LEMMA TruthValues ==
    Working \in BOOLEAN /\ Ended \in BOOLEAN /\ Working' \in BOOLEAN /\ Ended' \in BOOLEAN
BY DEF Working, Ended

LEMMA EntriesType ==
    ASSUME NEW chain \in Seq(Event)
    PROVE  /\ Entries(chain) \in Seq(AllEntries) /\ Len(Entries(chain)) = Len(chain)
           /\ \A i \in 1 .. Len(chain) : Entries(chain)[i] = EntryOf(chain[i])
           /\ Entries(chain) = <<>> <=> chain = <<>>
           /\ chain # <<>> => Last(Entries(chain)) = EntryOf(Last(chain))
<1>1. DOMAIN chain = 1 .. Len(chain) /\ Len(chain) \in Nat
  BY LenProperties
<1>2. \A i \in 1 .. Len(chain) : EntryOf(chain[i]) \in AllEntries
  BY ElementOfSeq, EventType, BoundsAssumption DEF EntryOf, AllEntries
<1>3. Entries(chain) = [i \in 1 .. Len(chain) |-> EntryOf(chain[i])]
  BY <1>1 DEF Entries, EntryOf
<1>4. Entries(chain) \in Seq(AllEntries)
  BY <1>1, <1>2, <1>3, IsASeq
<1>5. Len(Entries(chain)) = Len(chain)
  <2>1. DOMAIN Entries(chain) = 1 .. Len(chain)
    BY <1>3
  <2>2. Len(Entries(chain)) \in Nat /\ 1 .. Len(Entries(chain)) = 1 .. Len(chain)
    BY <1>4, <2>1, LenProperties
  <2>. QED BY <1>1, <2>2
<1>6. Entries(chain) = <<>> <=> chain = <<>>
  BY <1>4, <1>5, EmptySeq
<1>. QED BY <1>3, <1>4, <1>5, <1>6, LastOfSome DEF Last

LEMMA EntriesAppended ==
    ASSUME NEW s \in Seq(Event), NEW e \in Event
    PROVE  /\ Entries(Append(s, e)) = Append(Entries(s), EntryOf(e))
           /\ Front(Entries(Append(s, e))) = Entries(s)
<1>. DEFINE t == Append(s, e)
            a == Append(Entries(s), EntryOf(e))
<1>1. /\ t \in Seq(Event) /\ Len(t) = Len(s) + 1 /\ t[Len(s) + 1] = e
      /\ \A i \in 1 .. Len(s) : t[i] = s[i]
      /\ Len(s) \in Nat
  BY Appending, LenProperties
<1>2. EntryOf(e) \in AllEntries
  BY EventType, BoundsAssumption DEF EntryOf, AllEntries
<1>3. /\ a \in Seq(AllEntries) /\ Len(a) = Len(s) + 1 /\ a[Len(s) + 1] = EntryOf(e)
      /\ \A i \in 1 .. Len(s) : a[i] = Entries(s)[i]
  <2>1. Entries(s) \in Seq(AllEntries) /\ Len(Entries(s)) = Len(s)
    BY EntriesType
  <2>. QED BY <1>2, <2>1, AppendProperties
<1>. HIDE DEF t, a
<1>4. ASSUME NEW i \in 1 .. Len(s) + 1 PROVE Entries(t)[i] = a[i]
  <2>1. Entries(t)[i] = EntryOf(t[i])
    BY <1>1, EntriesType
  <2>2. CASE i \in 1 .. Len(s)
    BY <1>1, <1>3, <2>1, <2>2, EntriesType
  <2>3. CASE i = Len(s) + 1
    BY <1>1, <1>3, <2>1, <2>3
  <2>. QED BY <1>1, <2>2, <2>3
<1>5. Entries(t) = a
  <2>1. Entries(t) \in Seq(AllEntries) /\ Len(Entries(t)) = Len(s) + 1
    BY <1>1, EntriesType
  <2>. QED BY <1>3, <1>4, <2>1, SeqEqual
<1>6. Front(a) = Entries(s)
  <2>. DEFINE f == SubSeq(a, 1, Len(s))
  <2>1. \A i \in 1 .. Len(s) : a[i] \in AllEntries
    BY <1>1, <1>3, ElementOfSeq
  <2>2. f \in Seq(AllEntries) /\ Len(f) = Len(s) /\ \A i \in 1 .. Len(s) : f[i] = a[i]
    BY <1>1, <2>1, SubSeqProperties
  <2>. HIDE DEF f
  <2>3. f = Entries(s)
    <3>1. Entries(s) \in Seq(AllEntries) /\ Len(Entries(s)) = Len(s)
      BY EntriesType
    <3>. QED BY <1>3, <2>2, <3>1, SeqEqual
  <2>. QED BY <1>1, <1>3, <2>3 DEF Front, f
<1>. QED BY <1>5, <1>6 DEF t, a

\* A witness ahead of the chain is the only sign that an event was lost.
LEMMA TipIsNotAhead ==
    ASSUME TypeOK, FilesFit, disk.witness = Tip(disk.chain)
    PROVE  /\ disk.witness.at = Len(disk.chain)
           /\ ~(durable.witness.at > Len(disk.chain))
<1>1. Tip(disk.chain).at = Len(disk.chain) /\ Len(disk.chain) \in Nat
  <2>1. CASE disk.chain = <<>>
    BY <2>1, EmptySeq, NothingType DEF Tip
  <2>2. CASE disk.chain # <<>>
    <3>1. Len(disk.chain) \in 1 .. Len(disk.chain) /\ Tip(disk.chain) = disk.chain[Len(disk.chain)]
      BY <2>2, Typed, LastOfSome DEF Tip
    <3>. QED BY <3>1, Typed, LenProperties DEF FilesFit, InOrder
  <2>. QED BY <2>1, <2>2
<1>2. durable.witness.at = Len(disk.chain) \/ durable.witness.at = Len(disk.chain) + 1
  BY <1>1 DEF FilesFit, WitnessTracks, Ahead
<1>. QED BY <1>1, <1>2 DEF FilesFit, WitnessTracks

\* An event is published: a mutation begins, or the one declared goes on.
LEMMA PublishPromises ==
    ASSUME Inv, NEW outcome \in Outcomes, PublishEvent(outcome)
    PROVE  [Promise!Next]_promise
<1>. DEFINE e == proc.envelope
<1>1. /\ proc.pc = "event" /\ e \in Event /\ Folds(proc.known, e) /\ e # Nothing /\ holds > 0
      /\ (Level \/ Unaware)
  BY Typed, MarkType DEF Inv, PublishEvent, At, CommandFits, PlaceFits, InHand
<1>2. e.at = Len(proc.known) + 1 /\ e.id = envelopes /\ e.hold = holds
      /\ \A i \in 1 .. Len(proc.known) : proc.known[i].id < e.id
  BY <1>1 DEF Inv, CommandFits, EnvelopeFits, Folds
<1>3. proc.known = disk.chain
  <2>1. e.at > Len(disk.chain)
    BY DEF PublishEvent
  <2>. QED BY <1>1, <1>2, <2>1, Typed, LenProperties, KnownStands DEF Inv, Level
<1>4. /\ disk'.chain \in {disk.chain, Append(disk.chain, e)}
      /\ proc'.pc \in {"projection", "failed"} /\ UNCHANGED holds
  <2>1. disk' \in {disk, [disk EXCEPT !["chain"] = Append(disk.chain, e)]}
    BY DEF PublishEvent, Wrote
  <2>2. proc' \in {[proc EXCEPT !.pc = "failed"],
                   [proc EXCEPT !.pc = "projection", !.known = Append(proc.known, e)]}
    BY DEF PublishEvent, Then
  <2>. QED BY <2>1, <2>2, Typed DEF Inv, PublishEvent, Files, Commands
<1>. HIDE DEF e
<1>5. ~Ended /\ ~Ended' /\ ~At("idle") /\ ~At("idle")'
  BY <1>1, <1>4 DEF Ended, At
<1>6. CASE disk'.chain = disk.chain
  BY <1>4, <1>5, <1>6, TruthValues DEF promise, Working
<1>7. CASE disk'.chain = Append(disk.chain, e)
  <2>1. /\ Entries(disk'.chain) = Append(Entries(disk.chain), EntryOf(e))
        /\ Front(Entries(disk'.chain)) = Entries(disk.chain)
        /\ disk'.chain # <<>> /\ Last(disk'.chain) = e /\ disk'.chain \in Seq(Event)
    <3>1. disk.chain \in Seq(Event)
      BY Typed DEF Inv
    <3>2. /\ Entries(Append(disk.chain, e)) = Append(Entries(disk.chain), EntryOf(e))
          /\ Front(Entries(Append(disk.chain, e))) = Entries(disk.chain)
      BY <1>1, <3>1, EntriesAppended
    <3>3. /\ Append(disk.chain, e) # <<>> /\ Last(Append(disk.chain, e)) = e
          /\ Append(disk.chain, e) \in Seq(Event)
      BY <1>1, <3>1, Appending
    <3>. QED BY <1>7, <3>2, <3>3
  <2>2. /\ Entries(disk'.chain) # <<>> /\ Last(Entries(disk'.chain)) = EntryOf(e)
        /\ Entries(disk.chain) = <<>> <=> disk.chain = <<>>
        /\ disk.chain # <<>> => Last(Entries(disk.chain)) = EntryOf(Last(disk.chain))
    BY <2>1, Typed, EntriesType DEF Inv
  <2>3. Working'
    BY <1>2, <1>4, <1>5, <2>1 DEF Working, Tip
  <2>4. disk.chain # <<>> =>
            /\ Last(disk.chain) \in Event /\ Last(disk.chain).index <= Last(disk.chain).size
    <3>1. ASSUME disk.chain # <<>>
          PROVE  Len(disk.chain) \in 1 .. Len(disk.chain)
                 /\ Last(disk.chain) = disk.chain[Len(disk.chain)] /\ Last(disk.chain) \in Event
      BY <3>1, Typed, LastOfSome DEF Inv
    <3>. QED BY <3>1 DEF Inv, FilesFit, InOrder
  <2>5. CASE Incomplete(disk.chain)
    <3>1. /\ e.of = Last(disk.chain).of /\ e.index = Last(disk.chain).index + 1
          /\ e.size = Last(disk.chain).size
          /\ disk.chain # <<>> /\ Last(disk.chain).index < Last(disk.chain).size
      BY <1>1, <1>3, <2>5 DEF Folds, Incomplete
    <3>2. Working
      BY <1>1, <1>3, <1>5, <2>5, <3>1 DEF Inv, CommandFits, OneDeclares, Working, Tip, At
    <3>3. EntryOf(e) = [EntryOf(Last(disk.chain)) EXCEPT !.index = @ + 1]
      BY <3>1 DEF EntryOf
    <3>4. Last(Entries(disk.chain)).index # Last(Entries(disk.chain)).size
      BY <2>2, <2>4, <3>1, EventType DEF EntryOf
    <3>5. Promise!ContinueMutation
      BY <1>5, <2>1, <2>2, <2>3, <3>1, <3>2, <3>3, <3>4, TruthValues
         DEF Promise!ContinueMutation, Promise!Whole, Promise!Last, Last
    <3>. QED BY <3>5 DEF Promise!Next
  <2>6. CASE ~Incomplete(disk.chain)
    <3>1. e.of = e.id /\ (e.index = 0) = (e.size > 1) /\ e.index <= 1
      BY <1>1, <1>3, <2>6 DEF Folds
    <3>2. Entries(disk.chain) = <<>>
          \/ Last(Entries(disk.chain)).index = Last(Entries(disk.chain)).size
      BY <2>2, <2>4, <2>6, EventType DEF Incomplete, EntryOf
    <3>3. \A i \in DOMAIN Entries(disk.chain) : Entries(disk.chain)[i].of # EntryOf(e).of
      <4>1. ASSUME NEW i \in 1 .. Len(disk.chain)
            PROVE  Entries(disk.chain)[i].of # EntryOf(e).of
        <5>1. Entries(disk.chain)[i] = EntryOf(disk.chain[i]) /\ disk.chain[i] \in Event
          BY Typed, EntriesType, ElementOfSeq DEF Inv
        <5>2. disk.chain[i].of <= disk.chain[i].id /\ disk.chain[i].id < e.id
          BY <1>2, <1>3 DEF Inv, FilesFit, InOrder
        <5>. QED BY <1>1, <3>1, <5>1, <5>2, EventType DEF EntryOf
      <4>2. DOMAIN Entries(disk.chain) = 1 .. Len(disk.chain)
        BY Typed, EntriesType, LenProperties DEF Inv
      <4>. QED BY <4>1, <4>2
    <3>4. (EntryOf(e).index = 0) = (EntryOf(e).size > 1) /\ EntryOf(e).index <= 1
      BY <3>1 DEF EntryOf
    <3>5. Promise!BeginMutation
      BY <1>5, <2>1, <2>2, <2>3, <3>2, <3>3, <3>4, TruthValues
         DEF Promise!BeginMutation, Promise!Whole, Promise!Last, Promise!Front, Last, Front
    <3>. QED BY <3>5 DEF Promise!Next
  <2>. QED BY <2>5, <2>6
<1>. QED BY <1>4, <1>6, <1>7

\* The command ends: the promise is as it was, or the run is over.
LEMMA ExitPromises ==
    ASSUME Inv, Exit
    PROVE  [Promise!Next]_promise
<1>1. UNCHANGED <<disk, durable, holds>> /\ proc'.pc = "idle" /\ proc.pc # "idle"
  BY IdleCommand DEF Exit, Counters, At
<1>2. ~Ended /\ ~Working' /\ Entries(disk'.chain) = Entries(disk.chain)
  BY <1>1 DEF Ended, Working, At
<1>3. CASE Ended'
  <2>1. Promise!Stop
    BY <1>2, <1>3, TruthValues DEF Promise!Stop, Promise!Front, Front
  <2>. QED BY <2>1 DEF Promise!Next
<1>4. CASE ~Ended'
  <2>1. Promise!EndCommand
    BY <1>2, <1>4, TruthValues DEF Promise!EndCommand
  <2>. QED BY <2>1 DEF Promise!Next
<1>. QED BY <1>3, <1>4

\* The power fails: what is left is the chain, or the chain without its last event, and
\* then the run is over.
LEMMA PowerLossPromises ==
    ASSUME Inv, PowerLoss
    PROVE  [Promise!Next]_promise
<1>1. /\ disk'.chain \in {disk.chain, durable.chain}
      /\ disk'.witness \in {disk.witness, durable.witness}
      /\ durable' = disk' /\ proc'.pc = "idle"
  BY IdleCommand DEF PowerLoss
<1>2. ~Working' /\ (Ended' <=> disk'.witness.at > Len(disk'.chain))
  BY <1>1 DEF Working, Ended, At
<1>3. CASE disk'.chain = disk.chain
  <2>1. Entries(disk'.chain) = Entries(disk.chain)
    BY <1>3
  <2>2. Ended => Ended'
    <3>1. SUFFICES ASSUME durable.witness.at > Len(disk.chain)
                   PROVE  disk'.witness.at > Len(disk.chain)
      BY <1>2, <1>3 DEF Ended
    <3>2. disk.witness = Tip(disk.chain) \/ disk.witness.at = Len(disk.chain) + 1
      BY DEF Inv, FilesFit, WitnessTracks, Ahead
    <3>3. disk.witness.at = Len(disk.chain) + 1
      BY <3>1, <3>2, TipIsNotAhead DEF Inv
    <3>. QED BY <1>1, <3>1, <3>3, Typed, LenProperties DEF Inv
  <2>3. CASE Ended' /\ ~Ended
    <3>1. Promise!Stop
      BY <1>2, <2>1, <2>3, TruthValues DEF Promise!Stop, Promise!Front, Front
    <3>. QED BY <3>1 DEF Promise!Next
  <2>4. CASE Ended' <=> Ended
    <3>1. Promise!EndCommand
      BY <1>2, <2>1, <2>4, TruthValues DEF Promise!EndCommand
    <3>. QED BY <3>1 DEF Promise!Next
  <2>. QED BY <2>2, <2>3, <2>4
<1>4. CASE disk'.chain # disk.chain
  <2>1. /\ disk'.chain = durable.chain /\ disk.witness \in Event /\ durable.witness = disk.witness
        /\ disk.chain = Append(durable.chain, disk.witness)
        /\ Len(disk.chain) = Len(durable.chain) + 1 /\ Last(disk.chain) = disk.witness
        /\ disk.chain # <<>> /\ disk'.witness = disk.witness
    BY SMTT(30), <1>1, <1>4, DurableBegins, Typed, Appending DEF Inv, FilesFit
  <2>2. disk.witness.at = Len(disk.chain) /\ ~(durable.witness.at > Len(disk.chain))
    BY <2>1, TipIsNotAhead DEF Inv, Tip
  <2>3. ~Ended /\ Ended'
    BY <1>2, <2>1, <2>2, Typed, LenProperties DEF Inv, Ended
  <2>4. Front(Entries(disk.chain)) = Entries(disk'.chain) /\ Entries(disk.chain) # <<>>
    BY SMTT(30), <2>1, Typed, EntriesAppended, EntriesType DEF Inv
  <2>5. Promise!Stop
    BY <1>2, <2>3, <2>4, TruthValues DEF Promise!Stop, Promise!Front, Front
  <2>. QED BY <2>5 DEF Promise!Next
<1>. QED BY <1>3, <1>4

\* A command that takes the lock has declared nothing yet.
LEMMA TakingPromises ==
    ASSUME Inv, Begin \/ Open
    PROVE  UNCHANGED promise
<1>1. disk.witness = Tip(disk.chain)
  BY DEF Begin, Open, Sound, Tip
<1>2. ~Ended
  BY <1>1, TipIsNotAhead DEF Inv, Ended
<1>3. /\ proc.pc = "idle" /\ proc'.pc # "idle" /\ UNCHANGED disk
      /\ holds' = holds + 1 /\ holds \in Nat
  BY Typed, IdleCommand DEF Inv, Begin, Open, Primed, At, Idle
<1>4. Tip(disk.chain).hold <= holds /\ Tip(disk.chain).hold \in Nat
  <2>1. CASE disk.chain = <<>>
    BY <1>3, <2>1, NothingType DEF Tip
  <2>2. CASE disk.chain # <<>>
    <3>1. Len(disk.chain) \in 1 .. Len(disk.chain) /\ Tip(disk.chain) = disk.chain[Len(disk.chain)]
          /\ Tip(disk.chain) \in Event
      BY <2>2, Typed, LastOfSome DEF Inv, Tip
    <3>. QED BY <3>1, EventType DEF Inv, FilesFit, InOrder
  <2>. QED BY <2>1, <2>2
<1>5. ~Working /\ ~Working' /\ ~Ended'
  BY <1>3, <1>4 DEF Working, Ended, At
<1>. QED BY <1>2, <1>3, <1>5, TruthValues DEF promise

\* A command that publishes no event, and goes on.
LEMMA OthersPromise ==
    ASSUME Inv, ~At("idle"), proc'.pc # "idle", disk'.chain = disk.chain, UNCHANGED holds
    PROVE  UNCHANGED promise
BY DEF promise, Working, Ended, At

LEMMA WrittenElse ==
    ASSUME Inv, NEW outcome \in Outcomes, NEW file \in {"witness", "projection", "receipts"},
           NEW content, Wrote(file, content, outcome)
    PROVE  disk'.chain = disk.chain
BY Typed DEF Inv, Wrote, Files

LEMMA StepPromises ==
    ASSUME Inv, [Next]_vars
    PROVE  [Promise!Next]_promise
<1>1. CASE UNCHANGED vars
  BY <1>1 DEF vars, promise, Working, Ended, At
<1>2. ASSUME NEW outcome \in Outcomes, Publishing(outcome) PROVE [Promise!Next]_promise
  <2>1. CASE PublishEvent(outcome)
    BY <2>1, PublishPromises
  <2>2. CASE PublishWitness(outcome)
    <3>1. disk'.chain = disk.chain
      BY <2>2, WrittenElse DEF PublishWitness
    <3>2. ~At("idle") /\ proc'.pc # "idle" /\ UNCHANGED holds
      BY <2>2, Typed DEF Inv, PublishWitness, Then, At, Commands
    <3>. QED BY <3>1, <3>2, OthersPromise
  <2>3. CASE PublishProjection(outcome)
    <3>1. disk'.chain = disk.chain
      BY <2>3, WrittenElse DEF PublishProjection
    <3>2. proc' \in {[proc EXCEPT !.pc = "failed"], [proc EXCEPT !.pc = "receipt"],
                     Established(proc)}
      BY <2>3 DEF PublishProjection, Then, Appended
    <3>3. Level /\ ~At("idle")
      BY <2>3 DEF Inv, PublishProjection, CommandFits, Unaware, At
    <3>4. proc'.pc # "idle" /\ UNCHANGED holds
      BY <2>3, <3>2, <3>3, Typed, EstablishedFits DEF Inv, PublishProjection, Commands
    <3>. QED BY <3>1, <3>3, <3>4, OthersPromise
  <2>4. CASE PublishReceipt(outcome)
    <3>1. disk'.chain = disk.chain
      BY <2>4, WrittenElse DEF PublishReceipt
    <3>2. proc' \in {[proc EXCEPT !.pc = "failed"], Established(proc)}
      BY <2>4 DEF PublishReceipt, Then
    <3>3. Level /\ ~At("idle")
      BY <2>4 DEF Inv, PublishReceipt, CommandFits, Unaware, At
    <3>4. proc'.pc # "idle" /\ UNCHANGED holds
      BY <2>4, <3>2, <3>3, Typed, EstablishedFits DEF Inv, PublishReceipt, Commands
    <3>. QED BY <3>1, <3>3, <3>4, OthersPromise
  <2>5. CASE Repair(outcome)
    <3>1. disk'.chain = disk.chain
      BY <2>5, WrittenElse DEF Repair
    <3>2. ~At("idle") /\ proc'.pc # "idle" /\ UNCHANGED holds
      BY <2>5, Typed DEF Inv, Repair, Then, At, Commands
    <3>. QED BY <3>1, <3>2, OthersPromise
  <2>6. ASSUME NEW i \in Rebuilds, Rebuild(i, outcome) PROVE [Promise!Next]_promise
    <3>1. disk'.chain = disk.chain
      BY <2>6, WrittenElse DEF Rebuild
    <3>2. ~At("idle") /\ proc'.pc # "idle" /\ UNCHANGED holds
      BY <2>6, Typed DEF Inv, Rebuild, Then, At, Commands
    <3>. QED BY <3>1, <3>2, OthersPromise
  <2>. QED BY <1>2, <2>1, <2>2, <2>3, <2>4, <2>5, <2>6 DEF Publishing
<1>3. CASE Command
  <2>1. CASE Begin \/ Open
    BY <2>1, TakingPromises
  <2>2. CASE Exit
    BY <2>2, ExitPromises
  <2>3. CASE Admit
    <3>1. Level /\ ~At("idle") /\ proc \in Commands
      BY <2>3, Typed DEF Inv, Admit, CommandFits, Unaware, At
    <3>2. proc'.pc \in {"append", "ready"}
      BY <2>3 DEF Admit, Established
    <3>. QED BY <2>3, <3>1, <3>2, OthersPromise DEF Admit, Counters
  <2>4. CASE Commit \/ Envelope \/ RetryNext \/ EventExists
    <3>1. ~At("idle") /\ proc'.pc # "idle" /\ disk'.chain = disk.chain /\ UNCHANGED holds
      BY <2>4, Typed DEF Inv, Commit, Envelope, RetryNext, EventExists, At, Commands, Counters
    <3>. QED BY <3>1, OthersPromise
  <2>5. CASE RetryDuplicate
    <3>1. proc' \in {[proc EXCEPT !.pc = "receipt"], Established(proc)}
      BY <2>5 DEF RetryDuplicate, Appended
    <3>2. proc'.pc # "idle" /\ ~At("idle")
      BY <2>5, <3>1, Typed DEF Inv, RetryDuplicate, Established, Commands, At
    <3>. QED BY <2>5, <3>2, OthersPromise DEF RetryDuplicate, Counters
  <2>. QED BY <1>3, <2>1, <2>2, <2>3, <2>4, <2>5 DEF Command
<1>4. CASE PowerLoss
  BY <1>4, PowerLossPromises
<1>5. CASE Read
  <2>1. UNCHANGED <<disk, durable, proc, holds>>
    BY <1>5 DEF Read, Look, ReadLegacy, ReadEvents, ReadWitness, ReadProjection, ReadAfter, Recheck,
                Probe, Reading
  <2>. QED BY <2>1 DEF promise, Working, Ended, At
<1>. QED BY <1>1, <1>2, <1>3, <1>4, <1>5 DEF Next

LEMMA PromiseInit == Init => Promise!Init
<1>1. SUFFICES ASSUME Init PROVE Promise!Init
  OBVIOUS
<1>2. disk.chain = <<>> /\ durable.witness = Nothing /\ proc.pc = "idle"
  BY <1>1, IdleCommand DEF Init, NoFiles
<1>3. Entries(disk.chain) = <<>> /\ Working = FALSE /\ Ended = FALSE
  <2>1. Entries(disk.chain) = <<>>
    BY <1>2, EntriesType, EmptySeq
  <2>2. ~Working /\ ~Ended
    BY <1>2, EmptySeq, NothingType DEF Working, Ended, At
  <2>. QED BY <2>1, <2>2, TruthValues
<1>. QED BY <1>3 DEF Promise!Init

\* Mutations follow one another whole, each the work of one command, and none follows a
\* chain that lost its end: EventStore's commits, crashes and power failures implement
\* MutationPromise.
THEOREM MutationsStayWhole == Spec => MutationsWhole
<1>1. Inv /\ [Next]_vars => [Promise!Next]_promise
  BY StepPromises
<1>. QED BY ChainFits, <1>1, PromiseInit, PTL
         DEF Spec, MutationsWhole, Promise!Spec, promise
================================================================================
