-------------------------------- MODULE Rescore --------------------------------
(***************************************************************************)
(* The rescore command (ingest/rescore.py) beside the processes that share *)
(* its database: the watch service, which writes matches under the         *)
(* configuration it was started with, and a backup, which only reads.      *)
(* DuckDB lets one process write, or several read; who finds the file      *)
(* taken tries again a few times (connect_with_retry).                     *)
(***************************************************************************)
EXTENDS Scoring

CONSTANTS
    Commands,    \* rescore commands
    Hosts, Brands,
    Facts,       \* [Hosts -> [Brands -> Fact]]
    Certs, NamedBy, IssuerOf,    \* a certificate's hostnames and its issuer
    Configs, Config,    \* the configurations the operator uses; what each says
    StartConfig,
    OldRows,     \* matches stored by an earlier version, some with a wrong certificate
    MaxAttempts, MaxEdits, MaxRuns

Watch == "watch"
Backup == "backup"
Processes == Commands \union {Watch, Backup}

Row == [host : Hosts, brand : Brands, cert : Certs, score : {n \in Int : n <= 100},
        alert : BOOLEAN, features : Features, by : Configs]

Key(m) == <<m.host, m.brand>>

KeysOf(S) == {Key(m) : m \in S}

\* Weights may have any sign; a stored row is the only one of its key.
ASSUME RescoreAssumption ==
    /\ {Watch, Backup} \intersect Commands = {}
    /\ Facts \in [Hosts -> [Brands -> Fact]]
    /\ NamedBy \in [Certs -> SUBSET Hosts] /\ DOMAIN IssuerOf = Certs
    /\ StartConfig \in Configs
    /\ \A c \in Configs :
           /\ DOMAIN Config[c].official \subseteq Brands
           /\ Config[c].weights \in Weights
           /\ Config[c].threshold \in Int /\ Config[c].floor \in Nat
    /\ OldRows \subseteq Row
    /\ \A m, n \in OldRows : Key(m) = Key(n) => m = n
    /\ \A m \in OldRows : m.score > 0 => Base(Config[m.by].weights, m.features) > 0
    /\ MaxAttempts \in Nat \ {0} /\ MaxEdits \in Nat /\ MaxRuns \in Nat

VARIABLES
    matches,     \* the table: [host, brand, cert, score, alert, features, by]
    current,     \* the configuration file
    loaded,      \* [Processes -> the configuration the process read when it began]
    pc,          \* [Processes -> "idle", "opening", "open"]
    mode,        \* [Processes -> "read" or "write"], how it opens the database
    attempt,     \* [Processes -> its attempt to open]
    changes,     \* [Commands -> the rows it will write]
    keysRead,    \* [Commands -> the keys of the rows it read]
    overtaken,   \* the commands that read before another wrote
    done,        \* the last applied command that nobody overtook
    edits, runs

lockVars == <<pc, mode, attempt>>
commandVars == <<changes, keysRead, overtaken>>
vars == <<matches, current, loaded, lockVars, commandVars, done, edits, runs>>

None == [config |-> StartConfig, keys |-> {}, valid |-> FALSE]

-----------------------------------------------------------------------------
Init ==
    /\ matches = OldRows
    /\ current = StartConfig
    /\ loaded = [p \in Processes |-> StartConfig]
    /\ pc = [p \in Processes |-> "idle"]
    /\ mode = [p \in Processes |-> "read"]
    /\ attempt = [p \in Processes |-> 1]
    /\ changes = [r \in Commands |-> {}] /\ keysRead = [r \in Commands |-> {}]
    /\ overtaken = {} /\ done = None
    /\ edits = 0 /\ runs = 0

-----------------------------------------------------------------------------
\* The database file ----------------------------------------------------------

Holds(p, m) == pc[p] = "open" /\ mode[p] = m

\* One writer, or readers only.
Free(p, m) ==
    \A q \in Processes \ {p} : ~Holds(q, "write") /\ (m = "write" => ~Holds(q, "read"))

Begin(p, m) ==
    /\ pc' = [pc EXCEPT ![p] = "opening"]
    /\ mode' = [mode EXCEPT ![p] = m]
    /\ attempt' = [attempt EXCEPT ![p] = 1]

Close(p) ==
    /\ pc' = [pc EXCEPT ![p] = "idle"]
    /\ mode' = [mode EXCEPT ![p] = "read"] /\ attempt' = [attempt EXCEPT ![p] = 1]

TryOpenOnce(p) ==
    /\ pc[p] = "opening" /\ Free(p, mode[p])
    /\ pc' = [pc EXCEPT ![p] = "open"]
    /\ UNCHANGED <<mode, attempt>>

TryOpenPastLast(p) ==
    /\ pc[p] = "opening"
    /\ \/ /\ Free(p, mode[p])
          /\ pc' = [pc EXCEPT ![p] = "open"]
          /\ UNCHANGED <<mode, attempt>>
       \/ /\ ~Free(p, mode[p]) /\ attempt[p] <= MaxAttempts
          /\ attempt' = [attempt EXCEPT ![p] = @ + 1]
          /\ UNCHANGED <<pc, mode>>

\* One round of connect_with_retry, and LockContentionError after the last.
TryOpen(p) ==
    /\ pc[p] = "opening"
    /\ \/ /\ Free(p, mode[p])
          /\ pc' = [pc EXCEPT ![p] = "open"]
          /\ UNCHANGED <<mode, attempt>>
       \/ /\ ~Free(p, mode[p]) /\ attempt[p] < MaxAttempts
          /\ attempt' = [attempt EXCEPT ![p] = @ + 1]
          /\ UNCHANGED <<pc, mode>>
       \/ /\ ~Free(p, mode[p]) /\ attempt[p] = MaxAttempts
          /\ Close(p)

\* The error ends a command; the watch service keeps what it has for its next write.
Open(p) ==
    /\ TryOpen(p)
    /\ changes' = [r \in Commands |->
                     IF r = p /\ pc'[r] = "idle" THEN {} ELSE changes[r]]
    /\ UNCHANGED <<matches, current, loaded, keysRead, overtaken, done, edits,
                   runs>>

-----------------------------------------------------------------------------
\* The watch service and the backup -------------------------------------------

EditConfig ==
    /\ edits < MaxEdits
    /\ edits' = edits + 1
    /\ \E c \in Configs \ {current} : current' = c
    /\ UNCHANGED <<matches, loaded, lockVars, commandVars, done, runs>>

\* A restart reads the configuration again.
Restart ==
    /\ pc[Watch] = "idle" /\ loaded[Watch] # current
    /\ loaded' = [loaded EXCEPT ![Watch] = current]
    /\ UNCHANGED <<matches, current, lockVars, commandVars, done, edits, runs>>

BeginWork(p) ==
    /\ pc[p] = "idle"
    /\ Begin(p, IF p = Watch THEN "write" ELSE "read")
    /\ UNCHANGED <<matches, current, loaded, commandVars, done, edits, runs>>

\* free_dv from the issuer of a certificate
IsFree(c, cert) == IssuerOf[cert] \in Config[c].freeIssuers

\* MatchStore.write of what scoring a certificate's hostname gave: a key that is
\* stored keeps its row.
Write(h, cert) ==
    /\ Holds(Watch, "write") /\ h \in NamedBy[cert]
    /\ LET c == loaded[Watch]
           found == Score(Config[c], h, Facts[h], IsFree(c, cert), Config[c].floor)
       IN matches' = matches \union
              {[host |-> h, brand |-> m.brand, cert |-> cert, score |-> m.score,
                alert |-> m.score >= Config[c].threshold, features |-> m.features, by |-> c] :
                  m \in {x \in found : <<h, x.brand>> \notin KeysOf(matches)}}
    /\ Close(Watch)
    /\ UNCHANGED <<current, loaded, commandVars, done, edits, runs>>

\* EXPORT DATABASE
Export ==
    /\ Holds(Backup, "read")
    /\ Close(Backup)
    /\ UNCHANGED <<matches, current, loaded, commandVars, done, edits, runs>>

-----------------------------------------------------------------------------
\* The rescore command --------------------------------------------------------

Start(r) ==
    /\ pc[r] = "idle" /\ runs < MaxRuns
    /\ runs' = runs + 1
    /\ loaded' = [loaded EXCEPT ![r] = current]
    /\ Begin(r, "read")
    /\ UNCHANGED <<matches, current, changes, keysRead, overtaken, done, edits>>

FreeOfLinked(c, m) == IsFree(c, m.cert)

\* The linked certificate is trusted only if it names the host; otherwise the flag
\* computed at ingestion is kept.
FreeOf(c, m) == IF m.host \in NamedBy[m.cert] THEN IsFree(c, m.cert) ELSE m.features.free

\* What the row says under c: no match at all is a score of 0 with the old features.
Rescored(c, m) ==
    LET found == {x \in Score(Config[c], m.host, Facts[m.host], FreeOf(c, m), 0) :
                     x.brand = m.brand}
        score == IF found = {} THEN 0 ELSE (CHOOSE x \in found : TRUE).score
    IN [m EXCEPT !.score = score, !.alert = score >= Config[c].threshold, !.by = c,
                 !.features = IF found = {} THEN @ ELSE (CHOOSE x \in found : TRUE).features]

DiffersInScore(m, n) == m.score # n.score

Differs(m, n) ==
    m.score # n.score \/ m.alert # n.alert \/ m.features # n.features

Changes(c) ==
    {Rescored(c, m) : m \in {x \in matches : Differs(x, Rescored(c, x))}}

\* Without --apply, or with nothing to change, the command ends here.
ReadRows(r) ==
    /\ Holds(r, "read")
    /\ overtaken' = overtaken \ {r}
    /\ \/ /\ Changes(loaded[r]) # {}
          /\ keysRead' = [keysRead EXCEPT ![r] = KeysOf(matches)]
          /\ changes' = [changes EXCEPT ![r] = Changes(loaded[r])]
          /\ Begin(r, "write")
          /\ UNCHANGED done
       \/ /\ Changes(loaded[r]) = {}
          /\ done' = [config |-> loaded[r], keys |-> KeysOf(matches), valid |-> TRUE]
          /\ Close(r)
          /\ UNCHANGED <<changes, keysRead>>
       \/ /\ Close(r)
          /\ UNCHANGED <<changes, keysRead, done>>
    /\ UNCHANGED <<matches, current, loaded, edits, runs>>

ApplyWholeTable(r) ==
    /\ Holds(r, "write")
    /\ matches' = changes[r] \union
                     {m \in matches : Key(m) \in keysRead[r] \ KeysOf(changes[r])}
    /\ done' = None
    /\ overtaken' = overtaken \ {r}
    /\ changes' = [changes EXCEPT ![r] = {}] /\ keysRead' = [keysRead EXCEPT ![r] = {}]
    /\ Close(r)
    /\ UNCHANGED <<current, loaded, edits, runs>>

\* One transaction of UPDATEs by key.
Apply(r) ==
    /\ Holds(r, "write")
    /\ LET new == [k \in KeysOf(changes[r]) |-> CHOOSE m \in changes[r] : Key(m) = k]
       IN matches' = {IF Key(m) \in DOMAIN new
                      THEN [m EXCEPT !.score = new[Key(m)].score,
                                     !.alert = new[Key(m)].alert,
                                     !.features = new[Key(m)].features,
                                     !.by = loaded[r]]
                      ELSE m : m \in matches}
    /\ done' = IF r \in overtaken THEN None
               ELSE [config |-> loaded[r], keys |-> keysRead[r], valid |-> TRUE]
    /\ overtaken' = (overtaken \ {r}) \union {q \in Commands \ {r} : changes[q] # {}}
    /\ changes' = [changes EXCEPT ![r] = {}] /\ keysRead' = [keysRead EXCEPT ![r] = {}]
    /\ Close(r)
    /\ UNCHANGED <<current, loaded, edits, runs>>

\* The command is killed: a transaction that was open is rolled back.
Die(r) ==
    /\ pc[r] # "idle"
    /\ changes' = [changes EXCEPT ![r] = {}] /\ keysRead' = [keysRead EXCEPT ![r] = {}]
    /\ overtaken' = overtaken \ {r}
    /\ Close(r)
    /\ UNCHANGED <<matches, current, loaded, done, edits, runs>>

Next ==
    \/ EditConfig \/ Restart \/ Export
    \/ \E p \in Processes : Open(p)
    \/ \E p \in {Watch, Backup} : BeginWork(p)
    \/ \E h \in Hosts, cert \in Certs : Write(h, cert)
    \/ \E r \in Commands : Start(r) \/ ReadRows(r) \/ Apply(r) \/ Die(r)

\* A process that tries to open the database goes on until it has it or gives up, and
\* one that has it closes it: it does nothing else than read or write between.
Leave(p) ==
    /\ pc[p] = "open"
    /\ \E next \in {"idle", "opening"} : pc' = [pc EXCEPT ![p] = next]

Fairness == \A p \in Processes : WF_lockVars(TryOpen(p)) /\ WF_pc(Leave(p))

Spec == Init /\ [][Next]_vars /\ Fairness

-----------------------------------------------------------------------------
\* Properties -----------------------------------------------------------------

TypeOK ==
    /\ matches \subseteq Row
    /\ current \in Configs /\ loaded \in [Processes -> Configs]
    /\ pc \in [Processes -> {"idle", "opening", "open"}]
    /\ mode \in [Processes -> {"read", "write"}]
    /\ attempt \in [Processes -> 1..MaxAttempts]
    /\ changes \in [Commands -> SUBSET Row]
    /\ keysRead \in [Commands -> SUBSET (Hosts \X Brands)]
    /\ overtaken \subseteq Commands
    /\ done.config \in Configs /\ done.valid \in BOOLEAN
    /\ edits \in Nat /\ runs \in Nat

\* The row says what c gives.
Fresh(c, m) == m = [Rescored(c, m) EXCEPT !.by = m.by]

\* rescore.py:8 "This brings every row up to date": after an applied rescore that no
\* other one overtook between its reading and its writing, a row that is not what the
\* command's configuration gives was added since its reading, by a watch service that
\* still runs with another configuration.
UpToDate ==
    done.valid =>
        \A m \in matches :
            \/ Fresh(done.config, m)
            \/ Key(m) \notin done.keys /\ m.by # done.config

\* A row whose certificate is another site's keeps the free-DV flag its own certificate
\* gave it, through any number of rescorings under any configuration (rescore.py:75-79).
FreeFlagKept ==
    \A m \in matches :
        m.host \notin NamedBy[m.cert] =>
            \E o \in OldRows : Key(o) = Key(m) /\ o.features.free = m.features.free

\* Bonuses alone are no score (scorer.py:234-239), whichever configuration scored the
\* row last, whichever path stored it, and though rescoring asks for no floor.
ScoreHasSignal ==
    \A m \in matches : m.score > 0 => Base(Config[m.by].weights, m.features) > 0

\* Rescoring never loses a row or its first sighting, those the service stores between
\* the command's reading and its writing included (rescore.py:8-10).
RowsSurvive ==
    [][\A m \in matches : \E n \in matches' : Key(n) = Key(m) /\ n.cert = m.cert]_vars

\* Nobody waits for the database for ever, and nobody keeps it: a process that finds it
\* taken gets it or gives up after its attempts (store.py:69-81).
DatabaseReleased ==
    \A p \in Processes : (pc[p] # "idle") ~> (pc[p] = "idle")
=============================================================================
