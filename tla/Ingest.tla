------------------------------- MODULE Ingest -------------------------------
(***************************************************************************)
(* The ingestion of Lookalike Hunter: ingest/pipeline.py run_pipeline and  *)
(* MatchStore.write of ingest/store.py, as a task of the watch (watch.py)  *)
(* or as the `ingest` command.                                             *)
(*                                                                         *)
(* One process at a time reads certificates, scores the hostnames it has   *)
(* not seen lately and buffers their matches; at times it writes the       *)
(* buffer to the database.  A signal or a cancellation may come between    *)
(* any two steps, a write may find the database locked for too long, the   *)
(* process may be killed; whoever runs it starts it again.                 *)
(***************************************************************************)
EXTENDS Naturals, Sequences, FiniteSets, Functions

CONSTANTS Certs,         \* certificates the stream may name
          NoCert,        \* not a certificate
          Hosts,         \* hostnames
          Keys,          \* pairs of a hostname and a brand
          Names,         \* hostnames of a certificate, in its order
          Matches,       \* scorer.score: keys of a hostname under a certificate's issuer
          FlushMaxRows,  \* ct.flush_max_rows
          SeenCapacity   \* _SEEN_CAPACITY

ASSUME IngestAssumption ==
    /\ NoCert \notin Certs
    /\ Names \in [Certs -> Seq(Hosts)]
    /\ Matches \in [Certs -> [Hosts -> Seq(Keys)]]
    /\ FlushMaxRows \in Nat \ {0}
    /\ SeenCapacity \in Nat \ {0}

VARIABLES
    stored,        \* matches table: key and the certificate it was first seen with
    certificates,  \* certificates table
    task,          \* where run_pipeline stands
    cert, rest,    \* the message in hand: its certificate, its hostnames still to score
    seen,          \* hostnames scored lately
    buffer,        \* matches not written yet, oldest first
    elapsed,       \* flush_interval_s has passed since the last flush
    first          \* certificate a key was first buffered with, unless lost (history)

tableVars   == <<stored, certificates>>
messageVars == <<cert, rest>>
vars == <<tableVars, task, messageVars, seen, buffer, elapsed, first>>

-----------------------------------------------------------------------------
Match == [key : Keys, cert : Certs]

KeysOf(S) == {m.key : m \in S}

Held == KeysOf(stored) \union KeysOf(Range(buffer))

HostnamesOnly(c, h) == <<[key |-> h, cert |-> c]>>

\* What scoring h adds to the buffer.
Sightings(c, h) == [i \in DOMAIN Matches[c][h] |-> [key |-> Matches[c][h][i], cert |-> c]]

KeepLast(b) ==
    {b[i] : i \in {n \in DOMAIN b : \A j \in DOMAIN b : j > n => b[j].key # b[n].key}}

\* write's `unique`: a precert and its final cert often land in the same batch.
KeepFirst(b) ==
    {b[i] : i \in {n \in DOMAIN b : \A j \in DOMAIN b : j < n => b[j].key # b[n].key}}

\* write: both inserts ON CONFLICT DO NOTHING, in one transaction.
Write(b) ==
    /\ stored' = stored \union {m \in KeepFirst(b) : m.key \notin KeysOf(stored)}
    /\ certificates' = certificates \union {m.cert : m \in KeepFirst(b)}

DueBySize == Len(buffer) >= FlushMaxRows

Due == Len(buffer) >= FlushMaxRows \/ elapsed

-----------------------------------------------------------------------------
Init ==
    /\ stored = {} /\ certificates = {}
    /\ task = "reading"
    /\ cert = NoCert /\ rest = <<>>
    /\ seen = {} /\ buffer = <<>> /\ elapsed = FALSE
    /\ first = [k \in Keys |-> NoCert]

Receive(c) ==
    /\ task = "reading"
    /\ cert' = c /\ rest' = Names[c]
    /\ task' = "scoring"
    /\ UNCHANGED <<tableVars, seen, buffer, elapsed, first>>

\* A malformed message, or one that is no certificate update.
ReceiveOther ==
    /\ task = "reading"
    /\ cert' = NoCert /\ rest' = <<>>
    /\ task' = "scoring"
    /\ UNCHANGED <<tableVars, seen, buffer, elapsed, first>>

SkipSeen ==
    /\ task = "scoring" /\ rest # <<>>
    /\ Head(rest) \in seen
    /\ rest' = Tail(rest)
    /\ UNCHANGED <<tableVars, task, cert, seen, buffer, elapsed, first>>

ScoreHost ==
    /\ task = "scoring" /\ rest # <<>>
    /\ Head(rest) \notin seen
    /\ seen' = (IF Cardinality(seen) >= SeenCapacity THEN {} ELSE seen)
                  \union {Head(rest)}
    /\ buffer' = buffer \o Sightings(cert, Head(rest))
    /\ first' = [k \in Keys |->
           IF first[k] = NoCert /\ k \in Range(Matches[cert][Head(rest)])
           THEN cert ELSE first[k]]
    /\ rest' = Tail(rest)
    /\ UNCHANGED <<tableVars, task, cert, elapsed>>

\* The message is done: is a flush due?
CheckFlush ==
    /\ task = "scoring" /\ rest = <<>>
    /\ task' = IF Due THEN "flushing" ELSE "reading"
    /\ UNCHANGED <<tableVars, messageVars, seen, buffer, elapsed, first>>

Flush ==
    /\ task = "flushing"
    /\ Write(buffer)
    /\ buffer' = <<>> /\ elapsed' = FALSE
    /\ task' = "reading"
    /\ UNCHANGED <<messageVars, seen, first>>

FlushFailsSwallowed ==
    /\ task = "flushing"
    /\ buffer' = <<>>
    /\ task' = "reading"
    /\ UNCHANGED <<tableVars, messageVars, seen, elapsed, first>>

\* The database stays locked for all of connect_with_retry's attempts: the exception
\* leaves the loop, with the buffer as it was.  An empty one needs no database.
FlushFails ==
    /\ task = "flushing" /\ buffer # <<>>
    /\ task' = "closing"
    /\ UNCHANGED <<tableVars, messageVars, seen, buffer, elapsed, first>>

\* Cancellation, a signal, or the end of the stream.  A signal may also come in the
\* middle of a flush, before the commit or between it and buffer.clear.
Interrupt ==
    /\ task \in {"reading", "scoring", "flushing"}
    /\ \/ UNCHANGED tableVars
       \/ task = "flushing" /\ Write(buffer)
    /\ task' = "closing"
    /\ UNCHANGED <<messageVars, seen, buffer, elapsed, first>>

\* run_pipeline is over: its frame is gone.
Ends ==
    /\ task' = "ended"
    /\ cert' = NoCert /\ rest' = <<>>
    /\ seen' = {} /\ buffer' = <<>>
    /\ UNCHANGED elapsed

FinalFlushSkipped ==
    /\ task = "closing"
    /\ Ends
    /\ UNCHANGED <<tableVars, first>>

\* The finally block.
FinalFlush ==
    /\ task = "closing"
    /\ Write(buffer)
    /\ Ends
    /\ UNCHANGED first

\* What was buffered and not stored counts as never seen.
Lose == first' = [k \in Keys |-> IF k \in KeysOf(stored) THEN first[k] ELSE NoCert]

\* Locked again, or a second signal.
FinalFlushFails ==
    /\ task = "closing"
    /\ Ends /\ Lose
    /\ UNCHANGED tableVars

\* SIGKILL, out of memory, power.
Kill ==
    /\ task # "ended"
    /\ Ends /\ Lose
    /\ UNCHANGED tableVars

\* The watch finds its ingestion task done and exits; it is started again.
Restart ==
    /\ task = "ended"
    /\ task' = "reading" /\ elapsed' = FALSE
    /\ UNCHANGED <<tableVars, messageVars, seen, buffer, first>>

FlushIntervalPasses ==
    /\ ~ elapsed
    /\ elapsed' = TRUE
    /\ UNCHANGED <<tableVars, task, messageVars, seen, buffer, first>>

Read == ReceiveOther \/ \E c \in Certs : Receive(c)

Work == SkipSeen \/ ScoreHost \/ CheckFlush \/ Flush \/ FinalFlush

Next ==
    \/ Read \/ Work \/ FlushIntervalPasses
    \/ FlushFails \/ Interrupt \/ FinalFlushFails \/ Kill \/ Restart

Spec == Init /\ [][Next]_vars

\* Certificates keep coming (a flush is only ever considered after a message), the
\* task is scheduled, and time passes.
FairSpec == Spec /\ WF_vars(Read) /\ WF_vars(Work) /\ WF_vars(FlushIntervalPasses)

-----------------------------------------------------------------------------
TypeOK ==
    /\ stored \subseteq Match
    /\ certificates \subseteq Certs
    /\ task \in {"reading", "scoring", "flushing", "closing", "ended"}
    /\ cert \in Certs \union {NoCert}
    /\ rest \in Seq(Hosts) /\ (cert = NoCert => rest = <<>>)
    /\ seen \subseteq Hosts
    /\ buffer \in Seq(Match)
    /\ elapsed \in BOOLEAN
    /\ first \in [Keys -> Certs \union {NoCert}]

\* The stored certificate of a match is that of its first sighting, of those that were
\* not lost with a process: also if the hostname was scored again after `seen` was
\* cleared, twice in a buffer, or the same buffer was written twice (store.py schema
\* comment "the first sighting wins", write).
FirstSightingWins == \A m \in stored : first[m.key] = m.cert

\* A sighting leaves the buffer only into the table, unless the process was killed or
\* its last flush failed too: not on a signal, not on a failed flush (pipeline.py
\* run_pipeline, the finally block).
NothingBufferedLost == \A k \in Keys : first[k] # NoCert => k \in Held

\* Not scoring a seen hostname again loses nothing: what it matched under some
\* certificate that names it is in the table or on its way (pipeline.py run_pipeline).
SeenIsHeld ==
    \A h \in seen : \E c \in Certs :
        h \in Range(Names[c]) /\ Range(Matches[c][h]) \subseteq Held

\* A sighting gets into the table while certificates keep coming, also when too few
\* matches come to fill a buffer, unless it is lost as above (pipeline.py flush).
SightedIsStored ==
    \A k \in Keys : first[k] # NoCert ~> (k \in KeysOf(stored) \/ first[k] = NoCert)
=============================================================================
