---------------------------- MODULE IngestProofs ----------------------------
(***************************************************************************)
(* Proofs about Ingest for any stream, any scorer and any number of        *)
(* interruptions, failed writes and restarts.                              *)
(***************************************************************************)
EXTENDS Ingest, FiniteSetTheorems, SequenceTheorems, WellFoundedInduction, TLAPS

-----------------------------------------------------------------------------
\* Lemmas on the operators of the model ---------------------------------------

\* Positions of a buffer are positive numbers.
LEMMA Positions ==
    ASSUME NEW S, NEW b \in Seq(S)
    PROVE  /\ DOMAIN b = 1..Len(b) /\ Len(b) \in Nat /\ DOMAIN b \subseteq Nat
           /\ \A i \in DOMAIN b : b[i] \in S
BY LenProperties, ElementOfSeq

LEMMA EmptyRange == Range(<<>>) = {} /\ KeepFirst(<<>>) = {}
<1>1. DOMAIN <<>> = {}
  OBVIOUS
<1>2. QED BY <1>1 DEF Range, KeepFirst

LEMMA TailRange ==
    ASSUME NEW S, NEW s \in Seq(S), s # <<>>
    PROVE  Range(Tail(s)) \subseteq Range(s)
<1> DEFINE u == Tail(s)
<1>1. /\ u \in Seq(S) /\ Len(u) = Len(s) - 1
      /\ \A i \in 1..Len(u) : u[i] = s[i + 1]
  BY HeadTailProperties
<1>2. /\ DOMAIN u = 1..Len(u) /\ DOMAIN s = 1..Len(s)
      /\ Len(u) \in Nat /\ Len(s) \in Nat
  BY <1>1, LenProperties
<1>3. \A i \in DOMAIN u : i + 1 \in DOMAIN s /\ u[i] = s[i + 1]
  BY <1>1, <1>2
<1>4. QED BY <1>3 DEF Range

\* Keeping the first of each key drops no key.
LEMMA KeepFirstKeys ==
    ASSUME NEW b \in Seq(Match)
    PROVE  /\ KeepFirst(b) \subseteq Range(b)
           /\ KeysOf(KeepFirst(b)) = KeysOf(Range(b))
<1>1. KeepFirst(b) \subseteq Range(b)
  BY DEF KeepFirst, Range
<1>2. ASSUME NEW k \in KeysOf(Range(b)) PROVE k \in KeysOf(KeepFirst(b))
  <2> DEFINE T == {i \in DOMAIN b : b[i].key = k}
  <2>1. T \subseteq Nat /\ T # {}
    BY <1>2, Positions DEF KeysOf, Range
  <2>2. PICK i \in T : \A j \in T : i <= j
    <3>1. PICK i \in T : \A j \in T : ~ (<<j, i>> \in OpToRel(<, Nat))
      BY <2>1, WFMin, NatLessThanWellFounded
    <3> HIDE DEF T
    <3>2. \A j \in T : ~ (j < i)
      BY <2>1, <3>1 DEF OpToRel
    <3>3. QED BY <2>1, <3>2
  <2>3. \A j \in DOMAIN b : j < i => b[j].key # b[i].key
    BY <2>1, <2>2, Positions
  <2>4. b[i] \in KeepFirst(b)
    BY <2>2, <2>3 DEF KeepFirst
  <2>5. QED BY <2>2, <2>4 DEF KeysOf
<1>3. QED BY <1>1, <1>2 DEF KeysOf

\* What scoring a hostname adds is a list of matches, all under the same certificate.
LEMMA SightingsType ==
    ASSUME NEW c \in Certs, NEW h \in Hosts
    PROVE  /\ Sightings(c, h) \in Seq(Match)
           /\ \A i \in DOMAIN Sightings(c, h) : Sightings(c, h)[i].cert = c
           /\ KeysOf(Range(Sightings(c, h))) = Range(Matches[c][h])
<1>1. Matches[c][h] \in Seq(Keys)
  BY IngestAssumption
<1>2. PICK n \in Nat : Matches[c][h] \in [1..n -> Keys]
  BY <1>1, SeqDef
<1>3. Sightings(c, h) \in [1..n -> Match]
  BY <1>2 DEF Sightings, Match
<1>4. Sightings(c, h) \in Seq(Match)
  BY <1>3, SeqDef
<1>5. KeysOf(Range(Sightings(c, h))) = Range(Matches[c][h])
  <2>1. /\ DOMAIN Sightings(c, h) = DOMAIN Matches[c][h]
        /\ \A i \in DOMAIN Matches[c][h] : Sightings(c, h)[i].key = Matches[c][h][i]
    BY DEF Sightings
  <2>2. \A k \in Range(Matches[c][h]) : k \in KeysOf(Range(Sightings(c, h)))
    BY <2>1 DEF KeysOf, Range
  <2>3. \A k \in KeysOf(Range(Sightings(c, h))) : k \in Range(Matches[c][h])
    BY <2>1 DEF KeysOf, Range
  <2>4. QED BY <2>2, <2>3
<1>6. QED BY <1>4, <1>5 DEF Sightings

-----------------------------------------------------------------------------
\* Type correctness ------------------------------------------------------------

\* Every variable keeps its type.
THEOREM TypeCorrect == Spec => []TypeOK
<1>1. Init => TypeOK
  <2>1. <<>> \in Seq(Hosts) /\ <<>> \in Seq(Match)
    BY EmptySeq
  <2>2. Init => elapsed \in BOOLEAN
    BY DEF Init
  <2>3. QED BY <2>1, <2>2 DEF Init, TypeOK
<1>2. TypeOK /\ [Next]_vars => TypeOK'
  <2> SUFFICES ASSUME TypeOK, [Next]_vars PROVE TypeOK'
    OBVIOUS
  <2> USE DEF TypeOK, tableVars, messageVars
  <2>1. <<>> \in Seq(Hosts) /\ <<>> \in Seq(Match)
    BY EmptySeq
  <2>2. ASSUME Write(buffer) PROVE stored' \subseteq Match /\ certificates' \subseteq Certs
    <3>1. Range(buffer) \subseteq Match
      BY RangeOfSeq
    <3>2. KeepFirst(buffer) \subseteq Match
      BY <3>1, KeepFirstKeys
    <3>3. QED BY <2>2, <3>2 DEF Write, Match
  <2>3. CASE Read
    <3>1. CASE ReceiveOther
      BY <2>1, <3>1 DEF ReceiveOther
    <3>2. ASSUME NEW c \in Certs, Receive(c) PROVE TypeOK'
      <4>1. Names[c] \in Seq(Hosts) /\ c # NoCert
        BY IngestAssumption
      <4>2. QED BY <3>2, <4>1 DEF Receive
    <3>3. QED BY <2>3, <3>1, <3>2 DEF Read
  <2>4. CASE SkipSeen
    BY <2>4, HeadTailProperties DEF SkipSeen
  <2>5. CASE ScoreHost
    <3>1. Head(rest) \in Hosts /\ rest' \in Seq(Hosts)
      BY <2>5, HeadTailProperties DEF ScoreHost
    <3>2. buffer' \in Seq(Match)
      BY <2>5, <3>1, SightingsType, ConcatProperties DEF ScoreHost
    <3>3. first' \in [Keys -> Certs \union {NoCert}]
      BY <2>5 DEF ScoreHost
    <3>4. seen' \subseteq Hosts
      BY <2>5, <3>1 DEF ScoreHost
    <3>5. QED BY <2>5, <3>1, <3>2, <3>3, <3>4 DEF ScoreHost
  <2>6. CASE CheckFlush \/ FlushFails
    BY <2>6 DEF CheckFlush, FlushFails
  <2>7. CASE Flush
    BY <2>1, <2>2, <2>7 DEF Flush
  <2>8. CASE FinalFlush
    BY <2>1, <2>2, <2>8 DEF FinalFlush, Ends
  <2>9. CASE Interrupt
    BY <2>2, <2>9 DEF Interrupt
  <2>10. CASE FinalFlushFails \/ Kill
    BY <2>1, <2>10 DEF FinalFlushFails, Kill, Ends, Lose
  <2>11. CASE Restart \/ FlushIntervalPasses
    BY <2>11 DEF Restart, FlushIntervalPasses
  <2>12. CASE UNCHANGED vars
    BY <2>12 DEF vars
  <2>13. QED
    BY <2>3, <2>4, <2>5, <2>6, <2>7, <2>8, <2>9, <2>10, <2>11, <2>12 DEF Next, Work
<1>3. QED BY <1>1, <1>2, PTL DEF Spec

-----------------------------------------------------------------------------
\* The inductive invariant ------------------------------------------------------

\* Of a key that is not stored yet, the buffer's first entry is the first sighting.
BufferInv ==
    \A m \in KeepFirst(buffer) : m.key \notin KeysOf(stored) => first[m.key] = m.cert

\* What the process or the table holds has been sighted, and was not counted as lost.
HeldInv == \A k \in Held : first[k] # NoCert

\* What is left to score is named by the certificate in hand.
RestInv == rest # <<>> => Range(rest) \subseteq Range(Names[cert])

IInv == /\ FirstSightingWins /\ NothingBufferedLost /\ SeenIsHeld
        /\ BufferInv /\ HeldInv /\ RestInv

\* A write stores what was held, each key with its first sighting.
LEMMA WriteStores ==
    ASSUME TypeOK, IInv, Write(buffer)
    PROVE  /\ stored \subseteq stored'
           /\ KeysOf(stored') = Held
           /\ \A m \in stored' : first[m.key] = m.cert
<1>1. /\ KeepFirst(buffer) \subseteq Range(buffer)
      /\ KeysOf(KeepFirst(buffer)) = KeysOf(Range(buffer))
  BY KeepFirstKeys DEF TypeOK
<1>2. KeysOf(stored') = Held
  <2> DEFINE fresh == {m \in KeepFirst(buffer) : m.key \notin KeysOf(stored)}
  <2>1. stored' = stored \union fresh
    BY DEF Write
  <2>2. KeysOf(fresh) = KeysOf(KeepFirst(buffer)) \ KeysOf(stored)
    BY DEF KeysOf
  <2>3. KeysOf(stored \union fresh) = KeysOf(stored) \union KeysOf(fresh)
    <3> HIDE DEF fresh
    <3> QED BY DEF KeysOf
  <2>4. QED BY <1>1, <2>1, <2>2, <2>3 DEF Held
<1>3. \A m \in stored' : first[m.key] = m.cert
  BY DEF Write, IInv, FirstSightingWins, BufferInv
<1>4. QED BY <1>2, <1>3 DEF Write

\* After a write, whether the buffer was cleared or is written once more.
LEMMA WrittenStep ==
    ASSUME TypeOK, IInv, Write(buffer), UNCHANGED first, seen' \subseteq seen,
           buffer' \in {<<>>, buffer}
    PROVE  /\ FirstSightingWins' /\ NothingBufferedLost' /\ SeenIsHeld'
           /\ BufferInv' /\ HeldInv'
<1>1. /\ KeysOf(stored') = Held
      /\ \A m \in stored' : first[m.key] = m.cert
  BY WriteStores
<1>2. Held' = Held
  BY <1>1, EmptyRange DEF Held, KeysOf
<1>3. FirstSightingWins'
  BY <1>1 DEF FirstSightingWins
<1>4. NothingBufferedLost' /\ HeldInv' /\ SeenIsHeld'
  BY <1>2 DEF IInv, NothingBufferedLost, HeldInv, SeenIsHeld
<1>5. BufferInv'
  <2>1. \A m \in KeepFirst(buffer) : m.key \in Held
    BY KeepFirstKeys DEF Held, KeysOf, TypeOK
  <2>2. KeepFirst(buffer') \subseteq KeepFirst(buffer)
    BY EmptyRange
  <2>3. QED BY <1>1, <2>1, <2>2 DEF BufferInv
<1>6. QED BY <1>3, <1>4, <1>5

\* The first entries of a longer buffer: the old ones, and new keys.
LEMMA KeepFirstLonger ==
    ASSUME NEW b \in Seq(Match), NEW s \in Seq(Match), NEW m \in KeepFirst(b \o s)
    PROVE  \/ m \in KeepFirst(b)
           \/ m \in Range(s) /\ m.key \notin KeysOf(Range(b))
<1> DEFINE t == b \o s
<1>1. PICK i \in DOMAIN t : m = t[i] /\ \A j \in DOMAIN t : j < i => t[j].key # t[i].key
  BY DEF KeepFirst
<1>2. /\ t \in Seq(Match) /\ Len(t) = Len(b) + Len(s)
      /\ \A n \in 1..(Len(b) + Len(s)) :
            t[n] = IF n <= Len(b) THEN b[n] ELSE s[n - Len(b)]
  BY ConcatProperties
<1>3. /\ DOMAIN t = 1..(Len(b) + Len(s)) /\ DOMAIN b = 1..Len(b) /\ DOMAIN s = 1..Len(s)
      /\ Len(b) \in Nat /\ Len(s) \in Nat
  BY <1>2, LenProperties
<1>4. CASE i <= Len(b)
  <2>1. i \in DOMAIN b /\ m = b[i]
    BY <1>1, <1>2, <1>3, <1>4
  <2>2. \A j \in DOMAIN b : j < i => b[j].key # b[i].key
    BY <1>1, <1>2, <1>3, <1>4
  <2>3. QED BY <2>1, <2>2 DEF KeepFirst
<1>5. CASE i > Len(b)
  <2>1. i - Len(b) \in DOMAIN s /\ m = s[i - Len(b)]
    BY <1>1, <1>2, <1>3, <1>5
  <2>2. \A j \in DOMAIN b : b[j].key # m.key
    BY <1>1, <1>2, <1>3, <1>5
  <2>3. QED BY <2>1, <2>2 DEF Range, KeysOf
<1>6. QED BY <1>1, <1>3, <1>4, <1>5

\* Scoring a hostname: its keys are held, and those that are new have this sighting.
LEMMA ScoreStep ==
    ASSUME TypeOK, IInv, ScoreHost
    PROVE  IInv'
<1> DEFINE h == Head(rest)
           s == Sightings(cert, h)
<1>1. h \in Hosts /\ cert \in Certs /\ rest # <<>>
  BY HeadTailProperties DEF ScoreHost, TypeOK
<1>2. /\ s \in Seq(Match)
      /\ \A m \in Range(s) : m.cert = cert
      /\ KeysOf(Range(s)) = Range(Matches[cert][h])
  BY <1>1, SightingsType DEF Range
<1>3. buffer \in Seq(Match) /\ buffer' = buffer \o s /\ UNCHANGED <<stored, cert>>
  BY DEF ScoreHost, tableVars, TypeOK
<1>4. Range(buffer') = Range(buffer) \union Range(s)
  BY <1>2, <1>3, RangeConcatenation
<1>5. Held' = Held \union Range(Matches[cert][h])
  BY <1>2, <1>3, <1>4 DEF Held, KeysOf
<1>6. \A k \in Keys : first'[k] =
          IF first[k] = NoCert /\ k \in Range(Matches[cert][h]) THEN cert ELSE first[k]
  BY DEF ScoreHost
<1>7. Held \subseteq Keys /\ Range(Matches[cert][h]) \subseteq Keys
  <2>1. Range(buffer) \subseteq Match
    BY <1>3, RangeOfSeq
  <2>2. Range(Matches[cert][h]) \subseteq Keys
    BY <1>1, IngestAssumption, RangeOfSeq
  <2>3. QED BY <2>1, <2>2 DEF Held, KeysOf, Match, TypeOK
<1>8. \A k \in Keys : first[k] # NoCert <=> k \in Held
  BY DEF IInv, NothingBufferedLost, HeldInv
<1>9. FirstSightingWins'
  <2>1. \A m \in stored : m.key \in Keys /\ first[m.key] = m.cert /\ m.cert # NoCert
    BY IngestAssumption DEF IInv, FirstSightingWins, TypeOK, Match
  <2>2. QED BY <1>3, <1>6, <2>1 DEF FirstSightingWins
<1>10. NothingBufferedLost' /\ HeldInv'
  BY <1>1, <1>5, <1>6, <1>7, <1>8, IngestAssumption DEF NothingBufferedLost, HeldInv
<1>11. BufferInv'
  <2> SUFFICES ASSUME NEW m \in KeepFirst(buffer'), m.key \notin KeysOf(stored)
               PROVE  first'[m.key] = m.cert
    BY <1>3 DEF BufferInv
  <2>1. CASE m \in KeepFirst(buffer)
    <3>1. first[m.key] = m.cert
      BY <2>1 DEF IInv, BufferInv
    <3>2. m \in Range(buffer)
      BY <1>3, <2>1, KeepFirstKeys
    <3>3. m.key \in Held
      BY <3>2 DEF Held, KeysOf
    <3>4. QED BY <1>6, <1>7, <1>8, <3>1, <3>3
  <2>2. CASE m \in Range(s) /\ m.key \notin KeysOf(Range(buffer))
    <3>1. m.key \in Range(Matches[cert][h]) /\ m.cert = cert
      BY <1>2, <2>2 DEF KeysOf
    <3>2. m.key \notin Held
      BY <2>2 DEF Held
    <3>3. QED BY <1>6, <1>7, <1>8, <3>1, <3>2
  <2>3. QED BY <1>2, <1>3, <2>1, <2>2, KeepFirstLonger
<1>12. SeenIsHeld'
  <2>1. seen' \subseteq seen \union {h}
    BY DEF ScoreHost
  <2>2. h \in Range(Names[cert])
    <3>1. h \in Range(rest)
      BY <1>1, LenProperties, EmptySeq DEF Range, TypeOK
    <3>2. QED BY <1>1, <3>1 DEF IInv, RestInv
  <2>3. \A x \in seen : \E c \in Certs :
            x \in Range(Names[c]) /\ Range(Matches[c][x]) \subseteq Held
    BY DEF IInv, SeenIsHeld
  <2>4. QED BY <1>1, <1>5, <2>1, <2>2, <2>3 DEF SeenIsHeld
<1>13. RestInv'
  <2>1. Range(Tail(rest)) \subseteq Range(rest)
    BY <1>1, TailRange DEF TypeOK
  <2>2. QED BY <1>1, <1>3, <2>1 DEF ScoreHost, IInv, RestInv
<1>14. QED BY <1>9, <1>10, <1>11, <1>12, <1>13 DEF IInv

\* Any other step: the process ends, writes, or turns to another message.
LEMMA OtherStep ==
    ASSUME TypeOK, IInv, TypeOK', [Next]_vars, ~ ScoreHost
    PROVE  IInv'
<1> USE DEF tableVars, messageVars
<1>1. ASSUME UNCHANGED <<stored, seen, buffer, first>>, RestInv'
      PROVE  IInv'
  BY <1>1 DEF IInv, FirstSightingWins, NothingBufferedLost, SeenIsHeld, BufferInv,
              HeldInv, Held
<1>2. CASE Read
  <2>1. RestInv'
    BY <1>2 DEF Read, Receive, ReceiveOther, RestInv
  <2>2. QED BY <1>1, <1>2, <2>1 DEF Read, Receive, ReceiveOther
<1>3. CASE SkipSeen
  <2>1. rest # <<>> /\ rest' = Tail(rest) /\ cert' = cert
    BY <1>3 DEF SkipSeen
  <2>2. Range(Tail(rest)) \subseteq Range(rest)
    BY <2>1, TailRange DEF TypeOK
  <2>3. RestInv'
    BY <2>1, <2>2 DEF IInv, RestInv
  <2>4. QED BY <1>1, <1>3, <2>3 DEF SkipSeen
<1>4. CASE CheckFlush \/ FlushFails \/ FlushIntervalPasses \/ Restart \/ UNCHANGED vars
  <2>1. UNCHANGED <<stored, seen, buffer, first, cert, rest>>
    BY <1>4 DEF CheckFlush, FlushFails, FlushIntervalPasses, Restart, vars
  <2>2. RestInv'
    BY <2>1 DEF IInv, RestInv
  <2>3. QED BY <1>1, <2>1, <2>2
<1>5. CASE Flush
  <2>1. Write(buffer) /\ UNCHANGED <<seen, first, cert, rest>> /\ buffer' = <<>>
    BY <1>5 DEF Flush
  <2>2. QED BY <2>1, WrittenStep DEF IInv, RestInv
<1>6. CASE FinalFlush
  <2>1. /\ Write(buffer) /\ UNCHANGED first
        /\ seen' = {} /\ buffer' = <<>> /\ rest' = <<>>
    BY <1>6 DEF FinalFlush, Ends
  <2>2. QED BY <2>1, WrittenStep DEF IInv, RestInv
<1>7. CASE Interrupt
  <2>1. CASE UNCHANGED tableVars
    <3>1. UNCHANGED <<stored, seen, buffer, first, cert, rest>>
      BY <1>7, <2>1 DEF Interrupt
    <3>2. RestInv'
      BY <3>1 DEF IInv, RestInv
    <3>3. QED BY <1>1, <3>1, <3>2
  <2>2. CASE Write(buffer)
    <3>1. UNCHANGED <<seen, buffer, first, cert, rest>>
      BY <1>7 DEF Interrupt
    <3>2. QED BY <2>2, <3>1, WrittenStep DEF IInv, RestInv
  <2>3. QED BY <1>7, <2>1, <2>2 DEF Interrupt
<1>8. CASE FinalFlushFails \/ Kill
  <2>1. /\ UNCHANGED stored /\ seen' = {} /\ buffer' = <<>> /\ rest' = <<>>
        /\ \A k \in Keys : first'[k] = IF k \in KeysOf(stored) THEN first[k] ELSE NoCert
    BY <1>8 DEF FinalFlushFails, Kill, Ends, Lose
  <2>2. Held' = KeysOf(stored) /\ Held' \subseteq Held /\ Held' \subseteq Keys
    BY <2>1, EmptyRange DEF Held, KeysOf, TypeOK, Match
  <2>3. FirstSightingWins'
    BY <2>1, <2>2 DEF IInv, FirstSightingWins, KeysOf
  <2>4. NothingBufferedLost' /\ HeldInv'
    BY <2>1, <2>2 DEF IInv, NothingBufferedLost, HeldInv
  <2>5. BufferInv'
    BY <2>1, EmptyRange DEF BufferInv
  <2>6. SeenIsHeld' /\ RestInv'
    BY <2>1 DEF SeenIsHeld, RestInv
  <2>7. QED BY <2>3, <2>4, <2>5, <2>6 DEF IInv
<1>9. QED
  BY <1>2, <1>3, <1>4, <1>5, <1>6, <1>7, <1>8 DEF Next, Work

\* The invariant, and with it its three conjuncts that the runs check.
LEMMA Invariance == Spec => []IInv
<1>1. Init => IInv
  <2> SUFFICES ASSUME Init PROVE IInv
    OBVIOUS
  <2>1. Held = {}
    BY EmptyRange DEF Init, Held, KeysOf
  <2>2. KeepFirst(buffer) = {}
    BY EmptyRange DEF Init
  <2>3. FirstSightingWins /\ NothingBufferedLost /\ SeenIsHeld
    BY DEF Init, FirstSightingWins, NothingBufferedLost, SeenIsHeld
  <2>4. BufferInv /\ HeldInv /\ RestInv
    BY <2>1, <2>2 DEF Init, BufferInv, HeldInv, RestInv
  <2>5. QED BY <2>3, <2>4 DEF IInv
<1>2. TypeOK /\ TypeOK' /\ IInv /\ [Next]_vars => IInv'
  BY ScoreStep, OtherStep
<1>3. QED BY <1>1, <1>2, TypeCorrect, PTL DEF Spec

\* The first sighting of a key that was not lost is the one the table keeps.
THEOREM FirstSightingWinsHolds == Spec => []FirstSightingWins
<1>1. IInv => FirstSightingWins
  BY DEF IInv
<1>2. QED BY <1>1, Invariance, PTL

\* A failed flush or a signal loses no match, for any number of both.
THEOREM NothingBufferedLostHolds == Spec => []NothingBufferedLost
<1>1. IInv => NothingBufferedLost
  BY DEF IInv
<1>2. QED BY <1>1, Invariance, PTL

\* Skipping seen hostnames is harmless, whatever the capacity.
THEOREM SeenIsHeldHolds == Spec => []SeenIsHeld
<1>1. IInv => SeenIsHeld
  BY DEF IInv
<1>2. QED BY <1>1, Invariance, PTL
=============================================================================
