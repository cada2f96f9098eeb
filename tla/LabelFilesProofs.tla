-------------------------- MODULE LabelFilesProofs --------------------------
(***************************************************************************)
(* Proofs about LabelFiles for any sessions, sites, feeds and numbers of   *)
(* clicks and commands.                                                    *)
(***************************************************************************)
EXTENDS LabelFiles, FiniteSetTheorems, SequenceTheorems, WellFoundedInduction, TLAPS

-----------------------------------------------------------------------------
\* What the writers do to the lines of a file ---------------------------------------

SitesOf(q) == {q[i].site : i \in DOMAIN q} \ {NoSite}

Single(q) ==
    \A i, j \in DOMAIN q : q[i].site = q[j].site /\ q[i].site # NoSite => i = j

Says(q, s, l) == \E i \in DOMAIN q : q[i].site = s /\ q[i].expected = l

\* A file's lines are numbered from one, and any line may replace one of them.
LEMMA LinesOf ==
    ASSUME NEW q \in Seq(Line)
    PROVE  /\ Len(q) \in Nat /\ DOMAIN q = 1..Len(q)
           /\ \A i \in DOMAIN q : q[i] \in Line
           /\ \A k, e : e \in Line => [q EXCEPT ![k] = e] \in Seq(Line)
<1>1. Len(q) \in Nat /\ DOMAIN q = 1..Len(q) /\ \A i \in DOMAIN q : q[i] \in Line
  BY LenProperties, ElementOfSeq
<1>2. ASSUME NEW k, NEW e \in Line PROVE [q EXCEPT ![k] = e] \in Seq(Line)
  <2>1. [q EXCEPT ![k] = e] \in [1..Len(q) -> Line]
    BY <1>1
  <2>2. QED BY <1>1, <2>1
<1>3. QED BY <1>1, <1>2

\* A line more: the sites of the others stay, and so does what they say.
LEMMA Appended ==
    ASSUME NEW q \in Seq(Line), NEW e \in Line
    PROVE  /\ Append(q, e) \in Seq(Line)
           /\ SitesOf(Append(q, e)) = SitesOf(q) \union ({e.site} \ {NoSite})
           /\ Single(q) /\ e.site \notin SitesOf(q) => Single(Append(q, e))
           /\ \A s, l : Says(q, s, l) => Says(Append(q, e), s, l)
           /\ Says(Append(q, e), e.site, e.expected)
           /\ Len(Append(q, e)) > 0 /\ Append(q, e)[Len(Append(q, e))] = e
<1> DEFINE w == Append(q, e)
           n == Len(q)
<1>1. n \in Nat /\ DOMAIN q = 1..n
  BY LinesOf
<1>2. /\ w \in Seq(Line) /\ Len(w) = n + 1 /\ w[n + 1] = e
      /\ \A i \in 1..n : w[i] = q[i]
  BY AppendProperties
<1>3. DOMAIN w = 1..(n + 1)
  BY <1>2, LinesOf
<1> HIDE DEF w, n
<1>4. DOMAIN w = DOMAIN q \union {n + 1} /\ n + 1 \notin DOMAIN q
  BY <1>1, <1>3
<1>5. SitesOf(w) = SitesOf(q) \union ({e.site} \ {NoSite})
  BY <1>1, <1>2, <1>4 DEF SitesOf
<1>6. Single(q) /\ e.site \notin SitesOf(q) => Single(w)
  BY <1>1, <1>2, <1>4 DEF SitesOf, Single
<1>7. \A s, l : Says(q, s, l) => Says(w, s, l)
  BY <1>1, <1>2, <1>4 DEF Says
<1>8. Says(w, e.site, e.expected)
  BY <1>2, <1>4 DEF Says
<1>9. Len(w) > 0 /\ w[Len(w)] = e
  BY <1>1, <1>2 DEF n
<1>10. QED BY <1>2, <1>5, <1>6, <1>7, <1>8, <1>9 DEF w

\* The last line filled in: nothing else changes.
LEMMA FilledIn ==
    ASSUME NEW q \in Seq(Line), NEW e \in Line
    PROVE  LET w == [q EXCEPT ![Len(q)] = e]
           IN /\ w \in Seq(Line)
              /\ SitesOf(w) \subseteq SitesOf(q) \union {e.site}
              /\ Single(q) /\ e.site \notin SitesOf(q) => Single(w)
              /\ Len(q) > 0 /\ q[Len(q)].site = NoSite =>
                     \A s, l : s # NoSite /\ Says(q, s, l) => Says(w, s, l)
<1> DEFINE w == [q EXCEPT ![Len(q)] = e]
           n == Len(q)
<1>1. n \in Nat /\ DOMAIN q = 1..n /\ w \in Seq(Line)
  BY LinesOf
<1>2. /\ DOMAIN w = DOMAIN q
      /\ \A i \in DOMAIN q : w[i] = IF i = n THEN e ELSE q[i]
  OBVIOUS
<1> HIDE DEF w, n
<1>3. SitesOf(w) \subseteq SitesOf(q) \union {e.site}
  BY <1>2 DEF SitesOf
<1>4. Single(q) /\ e.site \notin SitesOf(q) => Single(w)
  BY <1>2 DEF SitesOf, Single
<1>5. q[n].site = NoSite => \A s, l : s # NoSite /\ Says(q, s, l) => Says(w, s, l)
  BY <1>2 DEF Says
<1>6. QED BY <1>1, <1>3, <1>4, <1>5 DEF w, n

\* A label is recorded in a new line at the end, or in a line the site has.
LEMMA LabelPlace ==
    ASSUME NEW q \in Seq(Line), NEW s, NEW l
    PROVE  LET e == [site |-> s, expected |-> l, by |-> "human", was |-> {}]
           IN \/ /\ \A i \in DOMAIN q : q[i].site # s
                 /\ WithLabel(q, s, l) = Append(q, e)
              \/ \E k \in DOMAIN q :
                    /\ q[k].site = s
                    /\ WithLabel(q, s, l) = [q EXCEPT ![k] = Relabelled(q[k], l)]
<1> DEFINE at == {i \in DOMAIN q : q[i].site = s}
<1>1. DOMAIN q = 1..Len(q) /\ Len(q) \in Nat
  BY LinesOf
<1>2. CASE at = {}
  BY <1>2 DEF WithLabel
<1>3. CASE at # {}
  <2> DEFINE first == CHOOSE i \in at : \A j \in at : i <= j
  <2>1. at \subseteq Nat
    BY <1>1
  <2>2. first \in at
    <3>1. PICK m \in at : \A i \in at : ~ (<<i, m>> \in OpToRel(<, Nat))
      BY <1>3, <2>1, WFMin, NatLessThanWellFounded
    <3> HIDE DEF at
    <3>2. \A i \in at : ~ (i < m)
      BY <2>1, <3>1 DEF OpToRel
    <3>3. \E k \in at : \A i \in at : k <= i
      BY <2>1, <3>2
    <3>4. QED BY <3>3
  <2>3. WithLabel(q, s, l) = [q EXCEPT ![first] = Relabelled(q[first], l)]
    BY <1>3 DEF WithLabel
  <2> HIDE DEF first
  <2>4. first \in DOMAIN q /\ q[first].site = s
    BY <2>2
  <2>5. QED BY <2>3, <2>4
<1>4. QED BY <1>2, <1>3

\* A label recorded: the site has it, no site has a second line for it, and the other
\* sites keep theirs.
LEMMA LabelRecorded ==
    ASSUME NEW q \in Seq(Line), NEW s \in Sites, NEW l \in Labels
    PROVE  /\ WithLabel(q, s, l) \in Seq(Line)
           /\ SitesOf(WithLabel(q, s, l)) = SitesOf(q) \union {s}
           /\ Single(q) => Single(WithLabel(q, s, l))
           /\ Says(WithLabel(q, s, l), s, l)
           /\ \A t, k : t # s /\ Says(q, t, k) => Says(WithLabel(q, s, l), t, k)
<1> DEFINE w == WithLabel(q, s, l)
           e == [site |-> s, expected |-> l, by |-> "human", was |-> {}]
<1>1. DOMAIN q = 1..Len(q) /\ Len(q) \in Nat /\ s # NoSite
  BY LinesOf, LabelFilesAssumption
<1>2. CASE (\A i \in DOMAIN q : q[i].site # s) /\ w = Append(q, e)
  <2>1. e \in Line /\ e.site = s /\ e.expected = l
    BY DEF Line
  <2>2. s \notin SitesOf(q)
    BY <1>2 DEF SitesOf
  <2> HIDE DEF w, e
  <2>3. QED BY <1>1, <1>2, <2>1, <2>2, Appended DEF w
<1>3. CASE \E k \in DOMAIN q : q[k].site = s /\ w = [q EXCEPT ![k] = Relabelled(q[k], l)]
  <2>1. PICK first \in DOMAIN q :
            q[first].site = s /\ w = [q EXCEPT ![first] = Relabelled(q[first], l)]
    BY <1>3
  <2>2. q[first] \in Line
    BY LinesOf
  <2>3. w = [q EXCEPT ![first] = Relabelled(q[first], l)]
    BY <2>1
  <2>4. first \in DOMAIN q /\ q[first].site = s /\ q[first] \in Line
    BY <2>1, <2>2
  <2> DEFINE r == Relabelled(q[first], l)
  <2>5. r \in Line /\ r.site = s /\ r.expected = l
    <3> DEFINE line == q[first]
    <3>1. line \in Line /\ line.site = s
      BY <2>4
    <3> HIDE DEF line
    <3>2. (IF line.by # "human" /\ line.expected \notin {Null, l}
           THEN line.was \union {line.expected} ELSE line.was) \in SUBSET Labels
      BY <3>1 DEF Line
    <3>3. Relabelled(line, l) \in Line /\ Relabelled(line, l).site = s
          /\ Relabelled(line, l).expected = l
      BY <3>1, <3>2 DEF Line, Relabelled
    <3>4. QED BY <3>3 DEF line
  <2>6. w \in Seq(Line)
    BY <2>3, <2>5, LinesOf
  <2>7. DOMAIN w = DOMAIN q /\ \A i \in DOMAIN q : w[i] = IF i = first THEN r ELSE q[i]
    BY <2>3
  <2> HIDE DEF w, r
  <2>8. \A i \in DOMAIN q : w[i].site = q[i].site
    BY <2>4, <2>5, <2>7
  <2>9. SitesOf(w) = SitesOf(q) \union {s}
    BY <1>1, <2>4, <2>7, <2>8 DEF SitesOf
  <2>10. Single(q) => Single(w)
    BY <2>7, <2>8 DEF Single
  <2>11. Says(w, s, l)
    BY <2>4, <2>5, <2>7 DEF Says
  <2>12. \A t, k : t # s /\ Says(q, t, k) => Says(w, t, k)
    BY <2>4, <2>7 DEF Says
  <2>13. QED BY <2>6, <2>9, <2>10, <2>11, <2>12 DEF w
<1>4. QED BY <1>2, <1>3, LabelPlace

-----------------------------------------------------------------------------
\* The inductive invariant -------------------------------------------------------

\* The tracked dataset gets sites that scoring found: what is there, and what a session
\* or a command is going to write into it.
Local ==
    /\ FeedSitesStayLocal
    /\ \A d \in Sessions : dest[d] = "main" =>
           /\ pc[d] = "record" => site[d] \in scored
           /\ pc[d] = "replace" => SitesOf(text[d]) \subseteq scored
    /\ out = "main" => queue \subseteq scored /\ part \in scored \union {NoSite}

\* A session that is not stale is going to write the file as it is, with its label.
Sure ==
    \A d \in Sessions :
        /\ pc[d] # "idle" => site[d] \in Sites /\ label[d] \in Labels
        /\ pc[d] = "replace" /\ d \notin stale =>
               text[d] = WithLabel(file[dest[d]], site[d], label[d])

\* A command that is not stale, and was not before, adds sites that are not there, and a
\* half written line is the last of its file.
Adding ==
    /\ part # NoSite => job = "open" /\ part \notin queue
    /\ job # "idle" /\ Appender \notin stale /\ out \notin raced =>
           /\ queue \intersect SitesOf(file[out]) = {}
           /\ part \notin SitesOf(file[out])
           /\ part # NoSite /\ ~ cut =>
                  Len(file[out]) > 0 /\ file[out][Len(file[out])].site = NoSite

Alone == \A f \in Files \ raced : Single(file[f])

Inv == TypeOK /\ Local /\ Sure /\ Adding /\ Alone /\ LabelsKept /\ MeasuredOnce

-----------------------------------------------------------------------------
\* A file's sites are those of its lines.
LEMMA SitesInIs ==
    ASSUME NEW f \in Files
    PROVE  SitesIn(f) = SitesOf(file[f])
BY DEF SitesIn, SitesOf

\* The initial states satisfy the invariant.
LEMMA InitInv == Init => Inv
<1> SUFFICES ASSUME Init PROVE Inv
  OBVIOUS
<1>1. PICK s \in [1..Cardinality(Tracked) -> Tracked] :
          /\ \A i, j \in DOMAIN s : s[i] = s[j] => i = j
          /\ file = [f \in Files |-> IF f # "main" THEN <<>>
                        ELSE [i \in DOMAIN s |->
                                [site |-> s[i], expected |-> AgentLabel[s[i]],
                                 by |-> "agent", was |-> {}]]]
  BY DEF Init
<1> DEFINE main == [i \in DOMAIN s |->
                       [site |-> s[i], expected |-> AgentLabel[s[i]],
                        by |-> "agent", was |-> {}]]
<1>2. Cardinality(Tracked) \in Nat
  BY LabelFilesAssumption, FS_Subset, FS_CardinalityType
<1>3. Tracked \subseteq Sites /\ AgentLabel \in [Tracked -> Labels] /\ NoSite \notin Sites
  BY LabelFilesAssumption
<1>4. \A i \in DOMAIN s : main[i] \in Line /\ main[i].site = s[i]
  BY <1>3 DEF Line
<1>5. main \in Seq(Line)
  <2> HIDE DEF main
  <2>1. DOMAIN main = 1..Cardinality(Tracked)
    BY DEF main
  <2>2. main \in [1..Cardinality(Tracked) -> Line]
    BY <1>4, <2>1 DEF main
  <2>3. QED BY <1>2, <2>2
<1>6. file \in [Files -> Seq(Line)]
  BY <1>1, <1>5, EmptySeq
<1>7. \A f \in Files : Single(file[f])
  BY <1>1, <1>4 DEF Single
<1>8. SitesIn("main") \subseteq Tracked
  BY <1>1, <1>4 DEF SitesIn, Files
<1>9. TypeOK
  <2>1. /\ pc \in [Sessions -> {"idle", "record", "replace"}]
        /\ site \in [Sessions -> Sites \union {NoSite}]
        /\ label \in [Sessions -> Labels \union {Null}]
        /\ dest \in [Sessions -> {"main", "live"}]
        /\ text \in [Sessions -> Seq(Line)]
    BY EmptySeq DEF Init
  <2>2. QED BY <1>3, <1>6, <2>1 DEF Init, TypeOK
<1>10. Local
  BY <1>8 DEF Init, Local, FeedSitesStayLocal
<1>11. Sure /\ Adding /\ LabelsKept /\ MeasuredOnce
  BY DEF Init, Sure, Adding, LabelsKept, MeasuredOnce
<1>12. QED BY <1>7, <1>9, <1>10, <1>11 DEF Inv, Alone

-----------------------------------------------------------------------------
\* Writing -----------------------------------------------------------------------------

\* A writer's change of a file makes who read that file stale, and nobody fresh but the
\* writer; a file that nobody raced in was written from a fresh reading.
LEMMA ChangeMarks ==
    ASSUME NEW w \in Writers, NEW f \in Files, Change(w, f)
    PROVE  /\ \A v \in Writers \ {w} : v \notin stale' => v \notin stale /\ ~ Reading(v, f)
           /\ raced \subseteq raced'
           /\ f \notin raced' => w \notin stale
BY DEF Change

\* What a replacement does.
LEMMA ReplaceIs ==
    ASSUME TypeOK, NEW d \in Sessions, Replace(d)
    PROVE  /\ dest[d] \in {"main", "live"} /\ dest[d] \in Files
           /\ file' = [file EXCEPT ![dest[d]] = text[d]]
           /\ pc'[d] = "idle"
           /\ \A e \in Sessions \ {d} :
                  /\ pc'[e] = pc[e] /\ site'[e] = site[e] /\ label'[e] = label[e]
                  /\ dest'[e] = dest[e] /\ text'[e] = text[e]
           /\ UNCHANGED <<scored, job, out, queue, part, measured>>
BY DEF TypeOK, Files, Replace, LeavePage, evalVars

\* What a command's write does, if its file is still the one of that name.
LEMMA PutIs ==
    ASSUME TypeOK, NEW q, Put(q)
    PROVE  /\ out \in Files
           /\ \/ cut /\ UNCHANGED <<file, stale, raced>>
              \/ ~ cut /\ file' = [file EXCEPT ![out] = q] /\ Change(Appender, out)
BY DEF TypeOK, Files, Put

\* The types are kept.
LEMMA TypeStep == Inv /\ [Next]_vars => TypeOK'
<1> SUFFICES ASSUME Inv, [Next]_vars PROVE TypeOK'
  OBVIOUS
<1> USE DEF sessionVars, appendVars, feedVars, evalVars
<1>1. /\ TypeOK /\ NoSite \notin Sites
      /\ Half \in Line /\ \A s \in Sites : Candidate(s) \in Line
      /\ \A f \in Files : file[f] \in Seq(Line)
  BY LabelFilesAssumption DEF Inv, TypeOK, Line, Half, Candidate
<1>2. ASSUME NEW s \in Sites, Score(s) PROVE TypeOK'
  BY <1>1, <1>2 DEF Score, TypeOK
<1>3. ASSUME NEW d \in Sessions, NEW s \in Sites, NEW l \in Labels, NEW found \in BOOLEAN,
             Click(d, s, l, found)
      PROVE  TypeOK'
  <2>1. /\ pc' \in [Sessions -> {"idle", "record", "replace"}]
        /\ site' \in [Sessions -> Sites \union {NoSite}]
        /\ label' \in [Sessions -> Labels \union {Null}]
        /\ clicks' \in Nat
    <3>1. /\ pc' = [pc EXCEPT ![d] = "record"] /\ site' = [site EXCEPT ![d] = s]
          /\ label' = [label EXCEPT ![d] = l] /\ clicks' = clicks + 1
      BY <1>3 DEF Click
    <3>2. /\ pc \in [Sessions -> {"idle", "record", "replace"}]
          /\ site \in [Sessions -> Sites \union {NoSite}]
          /\ label \in [Sessions -> Labels \union {Null}] /\ clicks \in Nat
      BY <1>1 DEF TypeOK
    <3>3. pc' \in [Sessions -> {"idle", "record", "replace"}]
      BY <3>1, <3>2
    <3>4. site' \in [Sessions -> Sites \union {NoSite}]
      BY <3>1, <3>2
    <3>5. label' \in [Sessions -> Labels \union {Null}]
      BY <3>1, <3>2
    <3>6. QED BY <3>1, <3>2, <3>3, <3>4, <3>5
  <2>2. dest' \in [Sessions -> {"main", "live"}]
    BY <1>1, <1>3 DEF Click, TypeOK, Destination
  <2>3. QED BY <1>1, <1>3, <2>1, <2>2 DEF Click, TypeOK
<1>4. ASSUME NEW d \in Sessions, ReadFile(d) PROVE TypeOK'
  <2>1. site[d] \in Sites /\ label[d] \in Labels /\ dest[d] \in Files
    BY <1>1, <1>4 DEF Inv, Sure, ReadFile, TypeOK, Files
  <2>2. WithLabel(file[dest[d]], site[d], label[d]) \in Seq(Line)
    BY <1>1, <2>1, LabelRecorded
  <2>3. text' \in [Sessions -> Seq(Line)]
        /\ pc' \in [Sessions -> {"idle", "record", "replace"}]
    BY <1>1, <1>4, <2>2 DEF ReadFile, TypeOK
  <2>4. QED BY <1>1, <1>4, <2>3 DEF ReadFile, TypeOK
<1>5. ASSUME NEW d \in Sessions, LeavePage(d)
      PROVE  /\ pc' \in [Sessions -> {"idle", "record", "replace"}]
             /\ site' \in [Sessions -> Sites \union {NoSite}]
             /\ label' \in [Sessions -> Labels \union {Null}]
             /\ dest' \in [Sessions -> {"main", "live"}]
             /\ text' \in [Sessions -> Seq(Line)]
  BY <1>1, <1>5, EmptySeq DEF LeavePage, TypeOK
<1>6. ASSUME NEW w \in Writers, NEW f \in Files, Change(w, f)
      PROVE  stale' \subseteq Writers /\ raced' \subseteq Files
  BY <1>1, <1>6 DEF Change, TypeOK
<1>7. ASSUME NEW d \in Sessions, Replace(d) PROVE TypeOK'
  <2>1. dest[d] \in Files /\ text[d] \in Seq(Line) /\ d \in Writers /\ site[d] \in Sites
        /\ label[d] \in Labels
    BY <1>1, <1>7 DEF TypeOK, Files, Writers, Inv, Sure, Replace
  <2>2. file' \in [Files -> Seq(Line)] /\ saved' \in [Sites -> Labels \union {Null}]
    BY <1>1, <1>7, <2>1 DEF Replace, TypeOK
  <2>3. cut' \in BOOLEAN
    BY <1>1, <1>7 DEF Replace, TypeOK
  <2>4. stale' \subseteq Writers /\ raced' \subseteq Files
    BY <1>6, <1>7, <2>1 DEF Replace
  <2>5. LeavePage(d) /\ UNCHANGED <<scored, job, out, queue, part, runs, visited, aged,
                                    evaluating, measured, torn, clicks, kills>>
    BY <1>7 DEF Replace
  <2>6. QED BY <1>1, <1>5, <2>2, <2>3, <2>4, <2>5 DEF TypeOK
<1>8. ASSUME NEW d \in Sessions, Abandon(d) PROVE TypeOK'
  <2>1. stale' \subseteq Writers /\ LeavePage(d)
    BY <1>1, <1>8 DEF Abandon, TypeOK
  <2>2. UNCHANGED <<file, scored, job, out, queue, part, cut, runs, visited, aged,
                    evaluating, measured, saved, raced, torn, clicks, kills>>
    BY <1>8 DEF Abandon
  <2>3. QED BY <1>1, <1>5, <2>1, <2>2 DEF TypeOK
<1>9. ASSUME NEW f \in {"main", "entries"}, LoadExisting(f) PROVE TypeOK'
  <2>1. Collected(f) \subseteq Sites
    <3>1. \A x \in FeedText : x.site \in Sites
      BY LabelFilesAssumption
    <3>2. FromFeed \subseteq Sites
      BY <3>1, Zenon DEF FromFeed
    <3>3. QED BY <1>1, <3>2 DEF Collected, FromAlerts, TypeOK
  <2>2. queue' \subseteq Sites
    BY <1>9, <2>1 DEF LoadExisting
  <2>3. /\ job' = "loaded" /\ out' = f /\ runs' = runs + 1
        /\ UNCHANGED <<file, scored, pc, site, label, dest, text, part, cut, visited,
                       aged, evaluating, measured, saved, stale, raced, torn, clicks, kills>>
    BY <1>9 DEF LoadExisting
  <2>4. job' \in {"idle", "loaded", "open"} /\ out' \in {"main", "entries"} /\ runs' \in Nat
    <3>1. runs \in Nat
      BY <1>1 DEF TypeOK
    <3>2. QED BY <2>3, <3>1
  <2>5. QED BY <1>1, <2>2, <2>3, <2>4 DEF TypeOK
<1>10. CASE OpenToAppend
  BY <1>1, <1>10 DEF OpenToAppend, TypeOK
<1>11. ASSUME NEW q \in Seq(Line), Put(q)
       PROVE  /\ file' \in [Files -> Seq(Line)]
              /\ stale' \subseteq Writers /\ raced' \subseteq Files
  <2>1. CASE cut /\ UNCHANGED <<file, stale, raced>>
    BY <1>1, <2>1 DEF TypeOK
  <2>2. CASE ~ cut /\ file' = [file EXCEPT ![out] = q] /\ Change(Appender, out)
    BY <1>1, <1>6, <1>11, <2>2, PutIs DEF TypeOK, Writers
  <2>3. QED BY <1>1, <1>11, <2>1, <2>2, PutIs
<1>12. ASSUME NEW s \in Sites, WriteHalf(s) PROVE TypeOK'
  <2>1. Append(file[out], Half) \in Seq(Line)
    BY <1>1, AppendProperties DEF TypeOK, Files
  <2>2. QED BY <1>1, <1>11, <1>12, <2>1 DEF WriteHalf, TypeOK
<1>13. ASSUME NEW s \in Sites, WriteLine(s) PROVE TypeOK'
  <2>1. Append(file[out], Candidate(s)) \in Seq(Line)
    BY <1>1, AppendProperties DEF TypeOK, Files
  <2>2. QED BY <1>1, <1>11, <1>13, <2>1 DEF WriteLine, TypeOK
<1>14. CASE WriteRest
  <2>1. Candidate(part) \in Line
    BY <1>1, <1>14 DEF WriteRest, TypeOK
  <2>2. [file[out] EXCEPT ![Len(file[out])] = Candidate(part)] \in Seq(Line)
    BY <1>1, <2>1, LinesOf DEF TypeOK, Files
  <2>3. QED BY <1>1, <1>11, <1>14, <2>2 DEF WriteRest, TypeOK
<1>15. CASE CloseFile \/ Kill
  <2>1. EndCommand /\ torn' \subseteq Files /\ kills' \in Nat
    <3>1. CASE CloseFile
      BY <1>1, <3>1 DEF CloseFile, TypeOK
    <3>2. CASE Kill
      <4>1. torn' \subseteq torn \union {out} /\ kills' = kills + 1 /\ EndCommand
        BY <3>2 DEF Kill
      <4>2. torn \subseteq Files /\ out \in Files /\ kills \in Nat
        BY <1>1 DEF TypeOK, Files
      <4>3. QED BY <4>1, <4>2
    <3>3. QED BY <1>15, <3>1, <3>2
  <2>2. QED BY <1>1, <2>1 DEF EndCommand, TypeOK
<1>16. CASE FeedStage \/ AgeEntry \/ \E s \in Sites : AlertsStage(s)
  <2>1. CASE FeedStage
    <3>1. \A i \in DOMAIN file["entries"] : file["entries"][i].site \in Sites
      <4>1. file["entries"] \in Seq(Line)
        BY <1>1 DEF Files
      <4>2. \A i \in DOMAIN file["entries"] : file["entries"][i] \in Line
        BY <4>1, LinesOf
      <4>3. QED BY <2>1, <4>2 DEF FeedStage, Readable, Line
    <3>2. FeedTargets \subseteq Sites
      BY <3>1 DEF FeedTargets, Newest, Fresh
    <3>3. visited' \subseteq Sites
      BY <1>1, <2>1, <3>2 DEF FeedStage, TypeOK
    <3>4. QED BY <1>1, <2>1, <3>3 DEF FeedStage, TypeOK
  <2>2. CASE AgeEntry
    <3>1. aged' \in Nat
      <4>1. aged \in Nat /\ aged' = aged + 1
        BY <1>1, <2>2 DEF AgeEntry, TypeOK
      <4>2. QED BY <4>1
    <3>2. UNCHANGED <<file, scored, sessionVars, appendVars, visited, evalVars, saved,
                      stale, raced, torn, clicks, kills>>
      BY <2>2 DEF AgeEntry
    <3>3. QED BY <1>1, <3>1, <3>2 DEF TypeOK
  <2>3. ASSUME NEW s \in Sites, AlertsStage(s) PROVE TypeOK'
    BY <1>1, <2>3 DEF AlertsStage, TypeOK
  <2>4. QED BY <1>16, <2>1, <2>2, <2>3
<1>17. ASSUME NEW f \in Files, Readable(f)
       PROVE  Counted(f) \subseteq [file : Files, place : Nat, site : Sites]
  <2>1. DOMAIN file[f] \subseteq Nat /\ \A i \in DOMAIN file[f] : file[f][i] \in Line
    BY <1>1, LinesOf
  <2>2. \A i \in DOMAIN file[f] : file[f][i].site \in Sites
    BY <1>17, <2>1 DEF Readable, Line
  <2>3. QED BY <2>1, <2>2 DEF Counted
<1>18. CASE EvaluateMain
  BY <1>1, <1>17, <1>18 DEF EvaluateMain, TypeOK, Loads, Files
<1>19. CASE EvaluateFeed
  BY <1>1, <1>17, <1>19 DEF EvaluateFeed, TypeOK, Loads, Files
<1>20. CASE UNCHANGED vars
  BY <1>1, <1>20 DEF vars, TypeOK
<1>21. QED
  BY <1>2, <1>3, <1>4, <1>7, <1>8, <1>9, <1>10, <1>12, <1>13, <1>14, <1>15, <1>16,
     <1>18, <1>19, <1>20 DEF Next, Session, WriteOn

\* The steps that change no file.
LEMMA FileSteps ==
    ASSUME [Next]_vars
    PROVE  \/ \E d \in Sessions : Replace(d)
           \/ \E s \in Sites : WriteHalf(s) \/ WriteLine(s)
           \/ WriteRest
           \/ UNCHANGED <<file, raced, saved>>
BY DEF Next, Session, WriteOn, Score, Click, ReadFile, Abandon, LoadExisting,
       OpenToAppend, CloseFile, Kill, EndCommand, AlertsStage, AgeEntry, FeedStage,
       EvaluateMain, EvaluateFeed, vars

\* What a session that is not stale writes: its label into the file as it is.
LEMMA FreshReplace ==
    ASSUME Inv, NEW d \in Sessions, Replace(d)
    PROVE  LET f == dest[d]
           IN /\ f \in {"main", "live"} /\ file[f] \in Seq(Line)
              /\ site[d] \in Sites /\ label[d] \in Labels
              /\ file' = [file EXCEPT ![f] = text[d]]
              /\ raced \subseteq raced'
              /\ f \notin raced' => text[d] = WithLabel(file[f], site[d], label[d])
<1>1. TypeOK /\ d \in Writers /\ dest[d] \in Files
  BY ReplaceIs DEF Inv, Writers
<1>2. Change(d, dest[d]) /\ pc[d] = "replace"
  BY DEF Replace
<1>3. raced \subseteq raced' /\ (dest[d] \notin raced' => d \notin stale)
  BY <1>1, <1>2, ChangeMarks
<1>4. site[d] \in Sites /\ label[d] \in Labels
      /\ (d \notin stale => text[d] = WithLabel(file[dest[d]], site[d], label[d]))
  BY <1>2 DEF Inv, Sure
<1>5. QED BY <1>1, <1>3, <1>4, ReplaceIs DEF TypeOK

\* What a command that is not stale writes.
LEMMA FreshPut ==
    ASSUME Inv, NEW q, Put(q), job # "idle"
    PROVE  /\ out \in Files /\ file[out] \in Seq(Line) /\ raced \subseteq raced'
           /\ \/ cut /\ UNCHANGED <<file, stale, raced>>
              \/ /\ ~ cut /\ file' = [file EXCEPT ![out] = q]
                 /\ out \notin raced' =>
                        /\ queue \intersect SitesOf(file[out]) = {}
                        /\ part \notin SitesOf(file[out])
                        /\ part # NoSite =>
                               Len(file[out]) > 0 /\ file[out][Len(file[out])].site = NoSite
<1>1. TypeOK /\ Appender \in Writers
  BY DEF Inv, Writers
<1>2. out \in Files /\ file[out] \in Seq(Line)
  BY <1>1, PutIs DEF TypeOK
<1>3. CASE cut /\ UNCHANGED <<file, stale, raced>>
  BY <1>2, <1>3
<1>4. CASE ~ cut /\ file' = [file EXCEPT ![out] = q] /\ Change(Appender, out)
  <2>1. raced \subseteq raced' /\ (out \notin raced' => Appender \notin stale /\ out \notin raced)
    BY <1>1, <1>2, <1>4, ChangeMarks
  <2>2. QED BY <1>2, <1>4, <2>1 DEF Inv, Adding
<1>5. QED BY <1>1, <1>3, <1>4, PutIs

\* The line of a candidate names its site, and half a line none.
LEMMA NewLines ==
    /\ Half \in Line /\ Half.site = NoSite
    /\ \A s \in Sites : Candidate(s) \in Line /\ Candidate(s).site = s /\ s # NoSite
BY LabelFilesAssumption DEF Line, Half, Candidate

\* No file that nobody raced in gets a second line of a site.
LEMMA AloneStep == Inv /\ [Next]_vars => Alone'
<1> SUFFICES ASSUME Inv, [Next]_vars, NEW f \in Files, f \notin raced'
             PROVE  Single(file'[f])
  BY DEF Alone
<1>1. TypeOK /\ file \in [Files -> Seq(Line)] /\ (f \notin raced => Single(file[f]))
  BY DEF Inv, TypeOK, Alone
<1>2. ASSUME NEW d \in Sessions, Replace(d) PROVE Single(file'[f])
  <2>1. CASE f = dest[d]
    <3>1. /\ file'[f] = WithLabel(file[f], site[d], label[d]) /\ file[f] \in Seq(Line)
          /\ site[d] \in Sites /\ label[d] \in Labels /\ f \notin raced
      BY <1>1, <1>2, <2>1, FreshReplace
    <3>2. QED BY <1>1, <3>1, LabelRecorded
  <2>2. CASE f # dest[d]
    BY <1>1, <1>2, <2>2, FreshReplace
  <2>3. QED BY <2>1, <2>2
<1>3. ASSUME NEW q, Put(q), job # "idle",
             /\ out \notin raced'
             /\ Single(file[out]) /\ queue \intersect SitesOf(file[out]) = {}
             /\ part \notin SitesOf(file[out])
             => Single(q)
      PROVE  Single(file'[f])
  <2>1. CASE cut /\ UNCHANGED <<file, stale, raced>>
    BY <1>1, <2>1
  <2>2. CASE f # out /\ file' = [file EXCEPT ![out] = q] /\ raced \subseteq raced'
    BY <1>1, <2>2
  <2>3. CASE f = out /\ ~ cut /\ file' = [file EXCEPT ![out] = q] /\ raced \subseteq raced'
    <3>1. file'[f] = q
      BY <1>1, <2>3
    <3>2. queue \intersect SitesOf(file[out]) = {} /\ part \notin SitesOf(file[out])
      BY <1>3, <2>3, FreshPut
    <3>3. QED BY <1>1, <1>3, <2>3, <3>1, <3>2
  <2>4. QED BY <1>3, <2>1, <2>2, <2>3, FreshPut
<1>4. ASSUME NEW s \in Sites, WriteHalf(s) \/ WriteLine(s) PROVE Single(file'[f])
  <2>1. file[out] \in Seq(Line)
    BY <1>1 DEF TypeOK, Files
  <2>2. PICK e \in Line : /\ Put(Append(file[out], e)) /\ job # "idle"
                          /\ e.site = NoSite \/ e.site \in queue
    BY <1>4, NewLines DEF WriteHalf, WriteLine
  <2>3. NoSite \notin SitesOf(file[out])
    BY DEF SitesOf
  <2>4. Single(file[out]) /\ queue \intersect SitesOf(file[out]) = {} =>
            Single(Append(file[out], e))
    BY <2>1, <2>2, <2>3, Appended
  <2>5. QED BY <1>3, <2>2, <2>4
<1>5. CASE WriteRest
  <2>1. Put([file[out] EXCEPT ![Len(file[out])] = Candidate(part)]) /\ part \in Sites
        /\ job # "idle" /\ file[out] \in Seq(Line)
    BY <1>1, <1>5 DEF WriteRest, TypeOK, Inv, Adding, Files
  <2>2. Single(file[out]) /\ part \notin SitesOf(file[out]) =>
            Single([file[out] EXCEPT ![Len(file[out])] = Candidate(part)])
    BY <2>1, FilledIn, NewLines
  <2>3. QED BY <1>3, <2>1, <2>2
<1>6. CASE UNCHANGED <<file, raced, saved>>
  BY <1>1, <1>6
<1>7. QED BY <1>2, <1>4, <1>5, <1>6, FileSteps

\* A saved label stays while nobody raced.
LEMMA KeptStep == Inv /\ [Next]_vars => LabelsKept'
<1> SUFFICES ASSUME Inv, [Next]_vars, raced' = {}, NEW s \in Sites, saved'[s] # Null
             PROVE  \E f \in {"main", "live"} : Says(file'[f], s, saved'[s])
  BY DEF LabelsKept, Says
<1>1. /\ TypeOK /\ file \in [Files -> Seq(Line)] /\ {"main", "live"} \subseteq Files
      /\ s # NoSite
      /\ raced = {} /\ saved[s] # Null =>
             \E f \in {"main", "live"} : Says(file[f], s, saved[s])
  <2>1. TypeOK /\ LabelsKept /\ s # NoSite
    BY LabelFilesAssumption DEF Inv
  <2>2. file \in [Files -> Seq(Line)] /\ {"main", "live"} \subseteq Files
    BY <2>1 DEF TypeOK, Files
  <2>3. raced = {} /\ saved[s] # Null =>
            \E f \in {"main", "live"} : Says(file[f], s, saved[s])
    BY <2>1 DEF LabelsKept, Says
  <2>4. QED BY <2>1, <2>2, <2>3
<1>2. ASSUME NEW d \in Sessions, Replace(d)
      PROVE  \E f \in {"main", "live"} : Says(file'[f], s, saved'[s])
  <2> DEFINE g == dest[d]
  <2>1. /\ g \in {"main", "live"} /\ file[g] \in Seq(Line)
        /\ site[d] \in Sites /\ label[d] \in Labels /\ raced = {}
        /\ file'[g] = WithLabel(file[g], site[d], label[d])
        /\ \A f \in Files \ {g} : file'[f] = file[f]
    BY <1>1, <1>2, FreshReplace
  <2>2. saved' = [saved EXCEPT ![site[d]] = label[d]] /\ saved \in [Sites -> Labels \union {Null}]
    BY <1>1, <1>2 DEF Replace, TypeOK
  <2> HIDE DEF g
  <2>3. CASE s = site[d]
    <3>1. Says(file'[g], s, label[d]) /\ saved'[s] = label[d]
      BY <2>1, <2>2, <2>3, LabelRecorded
    <3>2. QED BY <2>1, <3>1
  <2>4. CASE s # site[d]
    <3>1. saved'[s] = saved[s]
      BY <2>2, <2>4
    <3>2. PICK f \in {"main", "live"} : Says(file[f], s, saved[s])
      BY <1>1, <2>1, <3>1
    <3>3. Says(file'[f], s, saved[s])
      <4>1. CASE f = g
        <5>1. Says(WithLabel(file[g], site[d], label[d]), s, saved[s])
          BY <2>1, <2>4, <3>2, <4>1, LabelRecorded
        <5>2. QED BY <2>1, <4>1, <5>1
      <4>2. CASE f # g
        BY <1>1, <2>1, <3>2, <4>2
      <4>3. QED BY <4>1, <4>2
    <3>4. QED BY <3>1, <3>3
  <2>5. QED BY <2>3, <2>4
<1>3. ASSUME saved' = saved, raced \subseteq raced',
             \A f \in {"main", "live"} :
                 Says(file[f], s, saved[s]) => Says(file'[f], s, saved[s])
      PROVE  \E f \in {"main", "live"} : Says(file'[f], s, saved'[s])
  BY <1>1, <1>3
<1>4. ASSUME NEW q, Put(q), job # "idle", saved' = saved,
             (part # NoSite =>
                 Len(file[out]) > 0 /\ file[out][Len(file[out])].site = NoSite)
             => \A l : Says(file[out], s, l) => Says(q, s, l)
      PROVE  \E f \in {"main", "live"} : Says(file'[f], s, saved'[s])
  <2>1. CASE cut /\ UNCHANGED <<file, stale, raced>>
    BY <1>3, <1>4, <2>1
  <2>2. CASE ~ cut /\ file' = [file EXCEPT ![out] = q] /\ raced \subseteq raced'
    <3>1. part # NoSite => Len(file[out]) > 0 /\ file[out][Len(file[out])].site = NoSite
      BY <1>4, <2>2, FreshPut
    <3>2. \A l : Says(file[out], s, l) => Says(q, s, l)
      BY <1>4, <3>1
    <3>3. \A f \in {"main", "live"} : file'[f] = IF f = out THEN q ELSE file[f]
      BY <1>1, <2>2
    <3>4. QED BY <1>3, <1>4, <2>2, <3>2, <3>3
  <2>3. QED BY <1>4, <2>1, <2>2, FreshPut
<1>5. ASSUME NEW t \in Sites, WriteHalf(t) \/ WriteLine(t)
      PROVE  \E f \in {"main", "live"} : Says(file'[f], s, saved'[s])
  <2>1. PICK e \in Line : Put(Append(file[out], e)) /\ job # "idle" /\ saved' = saved
    BY <1>5, NewLines DEF WriteHalf, WriteLine
  <2>2. file[out] \in Seq(Line)
    BY <1>1 DEF TypeOK, Files
  <2>3. \A l : Says(file[out], s, l) => Says(Append(file[out], e), s, l)
    BY <2>2, Appended
  <2>4. QED BY <1>4, <2>1, <2>3
<1>6. CASE WriteRest
  <2> DEFINE q == [file[out] EXCEPT ![Len(file[out])] = Candidate(part)]
  <2>1. /\ Put(q) /\ part \in Sites /\ job # "idle" /\ saved' = saved /\ part # NoSite
        /\ file[out] \in Seq(Line)
    BY <1>1, <1>6 DEF WriteRest, TypeOK, Inv, Adding, Files
  <2>2. Len(file[out]) > 0 /\ file[out][Len(file[out])].site = NoSite =>
            \A l : Says(file[out], s, l) => Says(q, s, l)
    BY <1>1, <2>1, FilledIn, NewLines
  <2> HIDE DEF q
  <2>3. QED BY <1>4, <2>1, <2>2
<1>7. CASE UNCHANGED <<file, raced, saved>>
  BY <1>3, <1>7
<1>8. QED BY <1>2, <1>5, <1>6, <1>7, FileSteps

\* An evaluation counts no site twice.
LEMMA MeasuredStep == Inv /\ [Next]_vars => MeasuredOnce'
<1> SUFFICES ASSUME Inv, [Next]_vars PROVE MeasuredOnce'
  OBVIOUS
<1>1. MeasuredOnce
  BY DEF Inv
<1>2. ASSUME NEW f \in Files, Loads(f)
      PROVE  /\ \A c, d \in Counted(f) : c.site = d.site => c = d
             /\ \A c \in Counted(f) : c.site \in SitesIn(f)
  BY <1>2 DEF Counted, Loads, Readable, SitesIn
<1>3. CASE EvaluateMain
  BY <1>1, <1>2, <1>3 DEF EvaluateMain, MeasuredOnce, Files
<1>4. CASE EvaluateFeed
  <2>1. CASE measured' = measured \union Counted("live") /\ Loads("live")
             /\ \A c \in measured : c.site \notin SitesIn("live")
    BY <1>1, <1>2, <2>1 DEF MeasuredOnce, Files
  <2>2. CASE measured' = measured \/ measured' = {}
    BY <1>1, <2>2 DEF MeasuredOnce
  <2>3. QED BY <1>4, <2>1, <2>2 DEF EvaluateFeed
<1>5. CASE measured' = measured
  BY <1>1, <1>5 DEF MeasuredOnce
<1>6. QED
  BY <1>3, <1>4, <1>5 DEF Next, Session, WriteOn, Score, Click, ReadFile, Replace, Abandon,
     LoadExisting, OpenToAppend, WriteHalf, WriteLine, WriteRest, CloseFile, Kill,
     EndCommand, AlertsStage, AgeEntry, FeedStage, vars, evalVars

-----------------------------------------------------------------------------
\* Who is going to write what --------------------------------------------------------

\* What the steps of a session leave alone: the other sessions, and a command's work.
LEMMA SessionSteps ==
    ASSUME [Next]_vars
    PROVE  \/ \E d \in Sessions : ReadFile(d) \/ Replace(d) \/ Abandon(d)
           \/ \E d \in Sessions, s \in Sites, l \in Labels, found \in BOOLEAN :
                  Click(d, s, l, found)
           \/ UNCHANGED sessionVars
BY DEF Next, Session, WriteOn, Score, LoadExisting, OpenToAppend, WriteHalf, WriteLine,
       WriteRest, CloseFile, Kill, EndCommand, AlertsStage, AgeEntry, FeedStage,
       EvaluateMain, EvaluateFeed, vars

\* A write of a command leaves the tracked dataset to sites that scoring found.
LEMMA PutStaysLocal ==
    ASSUME Inv, NEW q, Put(q), scored' = scored,
           SitesOf(q) \subseteq SitesOf(file[out]) \union queue \union ({part} \ {NoSite})
    PROVE  FeedSitesStayLocal'
<1>1. TypeOK /\ out \in Files /\ "main" \in Files
  BY PutIs DEF Inv, Files
<1>2. /\ SitesOf(file["main"]) \subseteq scored
      /\ out = "main" => queue \subseteq scored /\ part \in scored \union {NoSite}
  BY <1>1, SitesInIs DEF Inv, Local, FeedSitesStayLocal
<1>3. SitesOf(file'["main"]) \subseteq scored
  <2>1. CASE file' = file
    BY <1>2, <2>1
  <2>2. CASE file' = [file EXCEPT ![out] = q]
    <3>1. file'["main"] = IF out = "main" THEN q ELSE file["main"]
      BY <1>1, <2>2 DEF TypeOK
    <3>2. QED BY <1>2, <3>1
  <2>3. QED BY <1>1, <2>1, <2>2, PutIs
<1>4. QED BY <1>3 DEF FeedSitesStayLocal, SitesIn, SitesOf

\* The tracked dataset holds sites that scoring found, and no writer has others for it.
LEMMA LocalStep == Inv /\ [Next]_vars => Local'
<1> SUFFICES ASSUME Inv, [Next]_vars PROVE Local'
  OBVIOUS
<1> DEFINE Pages == \A d \in Sessions : dest[d] = "main" =>
                        /\ pc[d] = "record" => site[d] \in scored
                        /\ pc[d] = "replace" => SitesOf(text[d]) \subseteq scored
           Command == out = "main" => queue \subseteq scored /\ part \in scored \union {NoSite}
<1>1. /\ TypeOK /\ "main" \in Files /\ \A f \in Files : file[f] \in Seq(Line)
      /\ FeedSitesStayLocal /\ Pages /\ Command
      /\ SitesOf(file["main"]) \subseteq scored
  BY SitesInIs DEF Inv, Local, TypeOK, Files, FeedSitesStayLocal
<1>2. SUFFICES FeedSitesStayLocal' /\ Pages' /\ Command'
  BY DEF Local
<1>3. scored \subseteq scored' /\ (scored' = scored \/ UNCHANGED <<file, sessionVars, appendVars>>)
  BY DEF Next, Session, WriteOn, Score, Click, ReadFile, Replace, Abandon,
         LoadExisting, OpenToAppend, WriteHalf, WriteLine, WriteRest, CloseFile, Kill,
         EndCommand, AlertsStage, AgeEntry, FeedStage, EvaluateMain, EvaluateFeed, vars
<1>4. FeedSitesStayLocal'
  <2>1. ASSUME NEW d \in Sessions, Replace(d) PROVE FeedSitesStayLocal'
    <3>1. /\ file' = [file EXCEPT ![dest[d]] = text[d]] /\ scored' = scored
          /\ pc[d] = "replace"
      BY <1>1, <2>1, ReplaceIs DEF Replace
    <3>2. file'["main"] = IF dest[d] = "main" THEN text[d] ELSE file["main"]
      BY <1>1, <3>1 DEF TypeOK
    <3>3. SitesOf(file'["main"]) \subseteq scored
      BY <1>1, <3>1, <3>2
    <3>4. QED BY <3>1, <3>3 DEF FeedSitesStayLocal, SitesIn, SitesOf
  <2>2. ASSUME NEW t \in Sites, WriteHalf(t) \/ WriteLine(t) PROVE FeedSitesStayLocal'
    <3>1. PICK e \in Line : /\ Put(Append(file[out], e)) /\ scored' = scored
                            /\ e.site = NoSite \/ e.site \in queue
      BY <2>2, NewLines DEF WriteHalf, WriteLine
    <3>2. file[out] \in Seq(Line)
      BY <1>1 DEF TypeOK, Files
    <3>3. SitesOf(Append(file[out], e)) \subseteq SitesOf(file[out]) \union queue
      BY <3>1, <3>2, Appended
    <3>4. QED BY <3>1, <3>3, PutStaysLocal
  <2>3. CASE WriteRest
    <3> DEFINE q == [file[out] EXCEPT ![Len(file[out])] = Candidate(part)]
    <3>1. /\ Put(q) /\ part \in Sites /\ part # NoSite /\ scored' = scored
          /\ file[out] \in Seq(Line)
      BY <1>1, <2>3 DEF WriteRest, TypeOK, Files
    <3>2. SitesOf(q) \subseteq SitesOf(file[out]) \union {part}
      BY <3>1, FilledIn, NewLines
    <3> HIDE DEF q
    <3>3. QED BY <3>1, <3>2, PutStaysLocal
  <2>4. CASE file' = file
    BY <1>1, <1>3, <2>4 DEF FeedSitesStayLocal, SitesIn
  <2>5. QED BY <2>1, <2>2, <2>3, <2>4, FileSteps
<1>5. Pages'
  <2>1. ASSUME NEW d \in Sessions, ReadFile(d) PROVE Pages'
    <3>1. /\ pc[d] = "record" /\ site[d] \in Sites /\ label[d] \in Labels
          /\ dest' = dest /\ site' = site /\ scored' = scored
          /\ pc' = [pc EXCEPT ![d] = "replace"]
          /\ text' = [text EXCEPT ![d] = WithLabel(file[dest[d]], site[d], label[d])]
      BY <2>1 DEF ReadFile, Inv, Sure
    <3>2. dest[d] = "main" => SitesOf(WithLabel(file["main"], site[d], label[d])) \subseteq scored
      BY <1>1, <3>1, LabelRecorded
    <3>3. ASSUME NEW e \in Sessions, e # d
          PROVE  pc'[e] = pc[e] /\ text'[e] = text[e]
      BY <1>1, <3>1, <3>3 DEF TypeOK
    <3>4. pc'[d] = "replace" /\ text'[d] = WithLabel(file[dest[d]], site[d], label[d])
      BY <1>1, <3>1 DEF TypeOK
    <3>5. QED BY <1>1, <3>1, <3>2, <3>3, <3>4
  <2>2. ASSUME NEW d \in Sessions, Replace(d) \/ Abandon(d) PROVE Pages'
    <3>1. LeavePage(d) /\ scored' = scored
      BY <2>2 DEF Replace, Abandon
    <3>2. pc'[d] = "idle"
      BY <1>1, <3>1 DEF LeavePage, TypeOK
    <3>3. ASSUME NEW e \in Sessions, e # d
          PROVE  /\ pc'[e] = pc[e] /\ text'[e] = text[e] /\ site'[e] = site[e]
                 /\ dest'[e] = dest[e]
      BY <1>1, <3>1, <3>3 DEF LeavePage, TypeOK
    <3>4. QED BY <1>1, <3>1, <3>2, <3>3
  <2>3. ASSUME NEW d \in Sessions, NEW s \in Sites, NEW l \in Labels, NEW found \in BOOLEAN,
               Click(d, s, l, found)
        PROVE  Pages'
    <3>1. /\ found => s \in scored
          /\ pc' = [pc EXCEPT ![d] = "record"] /\ site' = [site EXCEPT ![d] = s]
          /\ dest' = [dest EXCEPT ![d] = Destination(s, found)]
          /\ text' = text /\ scored' = scored
      BY <2>3 DEF Click
    <3>2. Destination(s, found) = "main" => s \in scored
      BY <1>1, <3>1 DEF Destination, FeedSitesStayLocal
    <3>3. pc'[d] = "record" /\ site'[d] = s /\ dest'[d] = Destination(s, found)
      BY <1>1, <3>1 DEF TypeOK
    <3>4. ASSUME NEW e \in Sessions, e # d
          PROVE  pc'[e] = pc[e] /\ site'[e] = site[e] /\ dest'[e] = dest[e]
      BY <1>1, <3>1, <3>4 DEF TypeOK
    <3>5. QED BY <1>1, <3>1, <3>2, <3>3, <3>4
  <2>4. CASE UNCHANGED sessionVars
    <3>1. UNCHANGED <<pc, site, dest, text>>
      BY <2>4 DEF sessionVars
    <3>2. QED BY <1>1, <1>3, <3>1
  <2>5. QED BY <2>1, <2>2, <2>3, <2>4, SessionSteps
<1>6. Command'
  <2>1. ASSUME NEW f \in {"main", "entries"}, LoadExisting(f) PROVE Command'
    <3>1. f = "main" => queue' \subseteq scored
      BY <2>1 DEF LoadExisting, Collected, FromAlerts
    <3>2. job = "idle" /\ part' = part /\ out' = f /\ scored' = scored
      BY <2>1 DEF LoadExisting
    <3>3. part = NoSite
      BY <3>2 DEF Inv, Adding
    <3>4. QED BY <3>1, <3>2, <3>3
  <2>2. ASSUME NEW s \in Sites, WriteHalf(s) \/ WriteLine(s) PROVE Command'
    <3>1. /\ s \in queue /\ queue' \subseteq queue /\ part' \in {s, part}
          /\ out' = out /\ scored' = scored
      BY <2>2 DEF WriteHalf, WriteLine
    <3>2. QED BY <1>1, <3>1
  <2>3. CASE WriteRest
    BY <1>1, <2>3 DEF WriteRest
  <2>4. CASE CloseFile \/ Kill
    BY <2>4 DEF CloseFile, Kill, EndCommand
  <2>5. CASE UNCHANGED <<out, queue, part>>
    BY <1>1, <1>3, <2>5
  <2>6. QED
    BY <2>1, <2>2, <2>3, <2>4, <2>5 DEF Next, Session, WriteOn, Score, Click, ReadFile,
       Replace, Abandon, OpenToAppend, AlertsStage, AgeEntry, FeedStage, EvaluateMain,
       EvaluateFeed, vars, appendVars
<1>7. QED BY <1>4, <1>5, <1>6

\* A change of a file leaves the sessions fresh that have not read it.
LEMMA OthersStayFresh ==
    ASSUME TypeOK, NEW w \in Writers, NEW f \in Files, NEW q, Change(w, f),
           file' = [file EXCEPT ![f] = q],
           NEW e \in Sessions, e # w, pc[e] = "replace", e \notin stale'
    PROVE  e \notin stale /\ file'[dest[e]] = file[dest[e]]
<1>1. e \notin stale /\ ~ Reading(e, f)
  BY ChangeMarks DEF Writers
<1>2. dest[e] # f /\ dest[e] \in Files
  BY <1>1 DEF Reading, TypeOK, Files
<1>3. QED BY <1>1, <1>2 DEF TypeOK

\* A session that is not stale keeps an exact reading.
LEMMA SureStep == Inv /\ [Next]_vars => Sure'
<1> SUFFICES ASSUME Inv, [Next]_vars, NEW e \in Sessions
             PROVE  /\ pc'[e] # "idle" => site'[e] \in Sites /\ label'[e] \in Labels
                    /\ pc'[e] = "replace" /\ e \notin stale' =>
                           text'[e] = WithLabel(file'[dest'[e]], site'[e], label'[e])
  BY DEF Sure, WithLabel
<1> DEFINE Goal == /\ pc'[e] # "idle" => site'[e] \in Sites /\ label'[e] \in Labels
                   /\ pc'[e] = "replace" /\ e \notin stale' =>
                          text'[e] = WithLabel(file'[dest'[e]], site'[e], label'[e])
           Same == /\ pc'[e] = pc[e] /\ site'[e] = site[e] /\ label'[e] = label[e]
                   /\ dest'[e] = dest[e] /\ text'[e] = text[e]
<1>1. /\ TypeOK /\ e \in Writers /\ e # Appender /\ Appender \in Writers
      /\ pc[e] # "idle" => site[e] \in Sites /\ label[e] \in Labels
      /\ pc[e] = "replace" /\ e \notin stale =>
             text[e] = WithLabel(file[dest[e]], site[e], label[e])
  BY LabelFilesAssumption DEF Inv, Sure, Writers
<1>2. ASSUME Same, pc[e] = "replace" /\ e \notin stale' =>
                       e \notin stale /\ file'[dest[e]] = file[dest[e]]
      PROVE  Goal
  BY <1>1, <1>2
<1>3. ASSUME NEW d \in Sessions, LeavePage(d)
      PROVE  IF e = d THEN pc'[e] = "idle" ELSE Same
  BY <1>1, <1>3 DEF LeavePage, TypeOK
<1>4. ASSUME NEW d \in Sessions, ReadFile(d) PROVE Goal
  <2>1. /\ pc[d] = "record" /\ UNCHANGED <<file, site, label, dest, stale>>
        /\ pc' = [pc EXCEPT ![d] = "replace"]
        /\ text' = [text EXCEPT ![d] = WithLabel(file[dest[d]], site[d], label[d])]
    BY <1>4 DEF ReadFile
  <2>2. CASE e = d
    BY <1>1, <2>1, <2>2 DEF TypeOK
  <2>3. CASE e # d
    <3>1. pc'[e] = pc[e] /\ text'[e] = text[e]
      BY <1>1, <2>1, <2>3 DEF TypeOK
    <3>2. QED BY <1>2, <2>1, <3>1
  <2>4. QED BY <2>2, <2>3
<1>5. ASSUME NEW d \in Sessions, Replace(d) PROVE Goal
  <2>1. CASE e = d
    BY <1>1, <1>5, <2>1, ReplaceIs
  <2>2. CASE e # d
    <3>1. Same /\ dest[d] \in Files /\ file' = [file EXCEPT ![dest[d]] = text[d]]
      BY <1>1, <1>5, <2>2, ReplaceIs
    <3>2. Change(d, dest[d]) /\ d \in Writers
      BY <1>5 DEF Replace, Writers
    <3>3. QED BY <1>1, <1>2, <2>2, <3>1, <3>2, OthersStayFresh
  <2>3. QED BY <2>1, <2>2
<1>6. ASSUME NEW d \in Sessions, Abandon(d) PROVE Goal
  <2>1. LeavePage(d) /\ stale' = stale \ {d} /\ file' = file
    BY <1>6 DEF Abandon
  <2>2. QED BY <1>2, <1>3, <2>1
<1>7. ASSUME NEW d \in Sessions, NEW s \in Sites, NEW l \in Labels, NEW found \in BOOLEAN,
             Click(d, s, l, found)
      PROVE  Goal
  <2>1. /\ pc' = [pc EXCEPT ![d] = "record"] /\ site' = [site EXCEPT ![d] = s]
        /\ label' = [label EXCEPT ![d] = l]
        /\ dest' = [dest EXCEPT ![d] = Destination(s, found)]
        /\ UNCHANGED <<text, file, stale>>
    BY <1>7 DEF Click
  <2>2. CASE e = d
    <3>1. pc'[e] = "record" /\ site'[e] = s /\ label'[e] = l
      BY <1>1, <2>1, <2>2 DEF TypeOK
    <3>2. QED BY <3>1
  <2>3. CASE e # d
    <3>1. Same
      BY <1>1, <2>1, <2>3 DEF TypeOK
    <3>2. QED BY <1>2, <2>1, <3>1
  <2>4. QED BY <2>2, <2>3
<1>8. ASSUME NEW q, Put(q), UNCHANGED sessionVars PROVE Goal
  <2>1. Same
    BY <1>8 DEF sessionVars
  <2>2. CASE UNCHANGED <<file, stale>>
    BY <1>2, <2>1, <2>2
  <2>3. CASE file' = [file EXCEPT ![out] = q] /\ Change(Appender, out)
    BY <1>1, <1>2, <1>8, <2>1, <2>3, OthersStayFresh, PutIs
  <2>4. QED BY <1>1, <1>8, <2>2, <2>3, PutIs
<1>9. ASSUME NEW s \in Sites, WriteHalf(s) \/ WriteLine(s) PROVE Goal
  BY <1>8, <1>9 DEF WriteHalf, WriteLine
<1>10. CASE WriteRest
  BY <1>8, <1>10 DEF WriteRest
<1>11. CASE UNCHANGED <<sessionVars, file>> /\ stale \subseteq stale' \union {Appender}
  BY <1>1, <1>2, <1>11 DEF sessionVars
<1>12. CASE CloseFile \/ Kill
  BY <1>11, <1>12 DEF CloseFile, Kill, EndCommand
<1>13. QED
  BY <1>4, <1>5, <1>6, <1>7, <1>9, <1>10, <1>11, <1>12 DEF Next, Session, WriteOn,
     Score, LoadExisting, OpenToAppend, AlertsStage, AgeEntry, FeedStage, EvaluateMain,
     EvaluateFeed, vars

\* A command that is not stale adds sites that are not there.
LEMMA AddingStep == Inv /\ [Next]_vars => Adding'
<1> SUFFICES ASSUME Inv, [Next]_vars PROVE Adding'
  OBVIOUS
<1> DEFINE New(q, S) == /\ S \intersect SitesOf(q) = {} /\ part' \notin SitesOf(q)
                        /\ part' # NoSite /\ ~ cut' =>
                               Len(q) > 0 /\ q[Len(q)].site = NoSite
<1>1. /\ TypeOK /\ Appender \in Writers /\ Appender \notin Sessions
      /\ part # NoSite => job = "open" /\ part \notin queue
      /\ job # "idle" /\ Appender \notin stale /\ out \notin raced =>
           /\ queue \intersect SitesOf(file[out]) = {}
           /\ part \notin SitesOf(file[out])
           /\ part # NoSite /\ ~ cut =>
                  Len(file[out]) > 0 /\ file[out][Len(file[out])].site = NoSite
      /\ out \in Files /\ file[out] \in Seq(Line)
      /\ \A q : NoSite \notin SitesOf(q)
  BY LabelFilesAssumption DEF Inv, Adding, Writers, TypeOK, Files, SitesOf
<1>2. SUFFICES /\ part' # NoSite => job' = "open" /\ part' \notin queue'
               /\ job' # "idle" /\ Appender \notin stale' /\ out' \notin raced' =>
                      New(file'[out'], queue')
  BY DEF Adding, SitesOf
<1> DEFINE Goal == /\ part' # NoSite => job' = "open" /\ part' \notin queue'
                   /\ job' # "idle" /\ Appender \notin stale' /\ out' \notin raced' =>
                          New(file'[out'], queue')
<1>3. ASSUME NEW f \in {"main", "entries"}, LoadExisting(f) PROVE Goal
  <2>1. /\ job = "idle" /\ part' = part /\ out' = f /\ file' = file
        /\ \E c : queue' = c \ SitesIn(f)
    BY <1>3 DEF LoadExisting
  <2>2. queue' \intersect SitesOf(file[f]) = {} /\ part' = NoSite
    BY <1>1, <2>1, SitesInIs DEF Files
  <2>3. QED BY <1>1, <2>1, <2>2
<1>4. CASE OpenToAppend
  <2>1. /\ job = "loaded" /\ job' = "open"
        /\ UNCHANGED <<part, out, queue, cut, file, stale, raced>>
    BY <1>4 DEF OpenToAppend
  <2>2. QED BY <1>1, <2>1
<1>5. ASSUME NEW s \in Sites, WriteHalf(s) PROVE Goal
  <2>1. /\ job = "open" /\ s \in queue /\ part' = s /\ queue' = queue \ {s}
        /\ Put(Append(file[out], Half)) /\ UNCHANGED <<job, out, cut>>
    BY <1>5 DEF WriteHalf
  <2>2. CASE cut /\ UNCHANGED <<file, stale, raced>>
    BY <1>1, <2>1, <2>2
  <2>3. CASE ~ cut /\ file' = [file EXCEPT ![out] = Append(file[out], Half)]
    <3>1. file'[out] = Append(file[out], Half)
      BY <1>1, <2>3 DEF TypeOK
    <3>2. /\ SitesOf(file'[out]) = SitesOf(file[out])
          /\ Len(file'[out]) > 0 /\ file'[out][Len(file'[out])].site = NoSite
      <4> DEFINE q == file[out]
                 w == Append(q, Half)
      <4>1. Half \in Line /\ Half.site = NoSite /\ {Half.site} \ {NoSite} = {}
        BY NewLines
      <4>2. q \in Seq(Line)
        BY <1>1
      <4>3. SitesOf(w) = SitesOf(q) \union ({Half.site} \ {NoSite})
        BY <4>1, <4>2, Appended
      <4>4. Len(w) > 0 /\ w[Len(w)] = Half
        BY <4>1, <4>2, Appended
      <4>5. file'[out] = w
        BY <3>1
      <4> HIDE DEF q, w
      <4>6. /\ SitesOf(file'[out]) = SitesOf(q)
            /\ Len(file'[out]) > 0 /\ file'[out][Len(file'[out])].site = NoSite
        BY <4>1, <4>3, <4>4, <4>5
      <4>7. QED BY <4>6 DEF q
    <3>3. out \notin raced' => queue \intersect SitesOf(file[out]) = {}
      BY <2>1, <2>3, FreshPut
    <3>4. QED BY <2>1, <3>2, <3>3
  <2>4. QED BY <2>1, <2>2, <2>3, FreshPut
<1>6. ASSUME NEW s \in Sites, WriteLine(s) PROVE Goal
  <2>1. /\ job = "open" /\ s \in queue /\ part' = part /\ part = NoSite
        /\ queue' = queue \ {s}
        /\ Put(Append(file[out], Candidate(s))) /\ UNCHANGED <<job, out, cut>>
    BY <1>6 DEF WriteLine
  <2>2. CASE cut /\ UNCHANGED <<file, stale, raced>>
    BY <1>1, <2>1, <2>2
  <2>3. CASE ~ cut /\ file' = [file EXCEPT ![out] = Append(file[out], Candidate(s))]
    <3>1. file'[out] = Append(file[out], Candidate(s))
      BY <1>1, <2>3 DEF TypeOK
    <3>2. SitesOf(file'[out]) \subseteq SitesOf(file[out]) \union {s}
      BY <1>1, <3>1, Appended, NewLines
    <3>3. out \notin raced' => queue \intersect SitesOf(file[out]) = {}
      BY <2>1, <2>3, FreshPut
    <3>4. QED BY <1>1, <2>1, <3>2, <3>3
  <2>4. QED BY <2>1, <2>2, <2>3, FreshPut
<1>7. CASE WriteRest
  <2> DEFINE q == [file[out] EXCEPT ![Len(file[out])] = Candidate(part)]
  <2>1. /\ part # NoSite /\ part' = NoSite /\ Put(q) /\ UNCHANGED <<job, out, queue, cut>>
    BY <1>7 DEF WriteRest
  <2>2. part \in Sites /\ job = "open" /\ part \notin queue
    BY <1>1, <2>1 DEF TypeOK
  <2>3. SitesOf(q) \subseteq SitesOf(file[out]) \union {part}
    BY <1>1, <2>2, FilledIn, NewLines
  <2> HIDE DEF q
  <2>4. CASE cut /\ UNCHANGED <<file, stale, raced>>
    BY <1>1, <2>1, <2>2, <2>4
  <2>5. CASE ~ cut /\ file' = [file EXCEPT ![out] = q]
    <3>1. file'[out] = q
      BY <1>1, <2>5 DEF TypeOK
    <3>2. out \notin raced' => queue \intersect SitesOf(file[out]) = {}
      BY <2>1, <2>2, <2>5, FreshPut
    <3>3. QED BY <1>1, <2>1, <2>2, <2>3, <3>1, <3>2
  <2>6. QED BY <2>1, <2>2, <2>4, <2>5, FreshPut
<1>8. CASE CloseFile \/ Kill
  BY <1>8 DEF CloseFile, Kill, EndCommand
<1>9. ASSUME NEW d \in Sessions, Replace(d) PROVE Goal
  <2>1. /\ dest[d] \in Files /\ file' = [file EXCEPT ![dest[d]] = text[d]]
        /\ UNCHANGED <<job, out, queue, part>>
    BY <1>1, <1>9, ReplaceIs
  <2>2. Change(d, dest[d]) /\ d \in Writers /\ d # Appender
        /\ cut' = (cut \/ (job = "open" /\ out = dest[d]))
    BY <1>1, <1>9 DEF Replace, Writers
  <2>3. ASSUME job # "idle", Appender \notin stale', out \notin raced'
        PROVE  Appender \notin stale /\ out \notin raced /\ out # dest[d]
    BY <1>1, <2>1, <2>2, <2>3, ChangeMarks DEF Reading
  <2>4. out # dest[d] => file'[out] = file[out]
    BY <1>1, <2>1 DEF TypeOK
  <2>5. ~ cut' => ~ cut
    BY <2>2
  <2>6. QED BY <1>1, <2>1, <2>3, <2>4, <2>5
<1>10. CASE /\ UNCHANGED <<file, raced, appendVars>>
            /\ stale \subseteq stale' \union Sessions
  BY <1>1, <1>10 DEF appendVars
<1>11. ASSUME NEW d \in Sessions, Abandon(d) PROVE Goal
  BY <1>10, <1>11 DEF Abandon
<1>12. QED
  BY <1>3, <1>4, <1>5, <1>6, <1>7, <1>8, <1>9, <1>10, <1>11 DEF Next, Session, WriteOn,
     Score, Click, ReadFile, AlertsStage, AgeEntry, FeedStage, EvaluateMain, EvaluateFeed,
     vars

\* Every step keeps the invariant.
LEMMA InvStep == Inv /\ [Next]_vars => Inv'
BY TypeStep, LocalStep, SureStep, AddingStep, AloneStep, KeptStep, MeasuredStep DEF Inv

\* The invariant holds throughout.
LEMMA InvHolds == Spec => []Inv
BY InitInv, InvStep, PTL DEF Spec

-----------------------------------------------------------------------------
\* The theorems ------------------------------------------------------------------------

\* The state is what the types say (eval/feedback.py, eval/build.py).
THEOREM TypeCorrect == Spec => []TypeOK
<1>1. Inv => TypeOK
  BY DEF Inv
<1>2. QED BY <1>1, InvHolds, PTL

\* A saved label stays in a label file while no writer wrote from an old reading
\* (feedback.py:90 and :125).
THEOREM LabelsKeptHolds == Spec => []LabelsKept
<1>1. Inv => LabelsKept
  BY DEF Inv
<1>2. QED BY <1>1, InvHolds, PTL

\* A file no writer raced in has one line for each site (build.py write_candidates).
THEOREM OneLinePerSiteHolds == Spec => []OneLinePerSite
<1>1. Inv => OneLinePerSite
  BY DEF Inv, Alone, Single, OneLinePerSite
<1>2. QED BY <1>1, InvHolds, PTL

\* No race, no stale page and no command brings a site that scoring did not find into the
\* tracked dataset (feedback.py label_destination).
THEOREM FeedSitesStayLocalHolds == Spec => []FeedSitesStayLocal
<1>1. Inv => FeedSitesStayLocal
  BY DEF Inv, Local
<1>2. QED BY <1>1, InvHolds, PTL

\* An evaluation counts no site twice, whatever the files hold (dataset.py load_all_datasets).
THEOREM MeasuredOnceHolds == Spec => []MeasuredOnce
<1>1. Inv => MeasuredOnce
  BY DEF Inv
<1>2. QED BY <1>1, InvHolds, PTL
-----------------------------------------------------------------------------
\* When another's label is kept -----------------------------------------------------------

\* No analyst saves for a site of the tracked dataset the label that the agent gave it.
NoConfirmation ==
    \A d \in Sessions :
        pc[d] # "idle" /\ site[d] \in Tracked => label[d] # AgentLabel[site[d]]

\* Lines that have every tracked site, with the agent's label or with it in the note.
KeepsAgent(q) ==
    /\ Tracked \subseteq SitesOf(q)
    /\ \A i \in DOMAIN q : q[i].site \in Tracked =>
           \/ AgentLabel[q[i].site] \in q[i].was
           \/ q[i].by = "agent" /\ q[i].expected = AgentLabel[q[i].site]

\* The tracked dataset is such a file, and no writer has anything else for it: a command
\* has no tracked site to add, and ends no line but the half one it wrote.
AgentInv ==
    /\ KeepsAgent(file["main"])
    /\ \A d \in Sessions : pc[d] = "replace" /\ dest[d] = "main" => KeepsAgent(text[d])
    /\ job # "idle" /\ out = "main" =>
           queue \intersect Tracked = {} /\ part \notin Tracked
    /\ part # NoSite /\ ~ cut =>
           Len(file[out]) > 0 /\ file[out][Len(file[out])].site = NoSite

\* A line of another site, more or filled in, leaves the tracked ones alone.
LEMMA OthersLine ==
    ASSUME NEW q \in Seq(Line), NEW e \in Line, KeepsAgent(q), e.site \notin Tracked
    PROVE  /\ KeepsAgent(Append(q, e))
           /\ Len(q) > 0 /\ q[Len(q)].site = NoSite => KeepsAgent([q EXCEPT ![Len(q)] = e])
<1> DEFINE n == Len(q)
           w == Append(q, e)
           f == [q EXCEPT ![n] = e]
<1>1. n \in Nat /\ DOMAIN q = 1..n
  BY LinesOf
<1>2. /\ DOMAIN w = DOMAIN q \union {n + 1} /\ n + 1 \notin DOMAIN q
      /\ w[n + 1] = e /\ \A i \in DOMAIN q : w[i] = q[i]
  <2>1. w \in Seq(Line) /\ Len(w) = n + 1 /\ w[n + 1] = e /\ \A i \in 1..n : w[i] = q[i]
    BY AppendProperties
  <2>2. DOMAIN w = 1..(n + 1)
    BY <2>1, LinesOf
  <2> HIDE DEF w, n
  <2>3. QED BY <1>1, <2>1, <2>2
<1>3. DOMAIN f = DOMAIN q /\ \A i \in DOMAIN q : f[i] = IF i = n THEN e ELSE q[i]
  OBVIOUS
<1>4. SitesOf(q) \subseteq SitesOf(w)
  BY Appended
<1> HIDE DEF w, f, n
<1>5. KeepsAgent(w)
  BY <1>2, <1>4 DEF KeepsAgent
<1>6. ASSUME q[n].site = NoSite PROVE KeepsAgent(f)
  <2>1. SitesOf(q) \subseteq SitesOf(f)
    BY <1>3, <1>6 DEF SitesOf
  <2>2. QED BY <1>3, <2>1 DEF KeepsAgent
<1>7. QED BY <1>5, <1>6 DEF w, f, n

\* A label that differs from the agent's sends that one to the note.
LEMMA LabelNoted ==
    ASSUME NEW q \in Seq(Line), KeepsAgent(q), NEW s \in Sites, NEW l \in Labels,
           s \in Tracked => l # AgentLabel[s]
    PROVE  KeepsAgent(WithLabel(q, s, l))
<1> DEFINE w == WithLabel(q, s, l)
           e == [site |-> s, expected |-> l, by |-> "human", was |-> {}]
<1>1. CASE (\A i \in DOMAIN q : q[i].site # s) /\ w = Append(q, e)
  <2>1. e \in Line /\ e.site = s
    BY DEF Line
  <2>2. s \notin Tracked
    BY <1>1 DEF KeepsAgent, SitesOf
  <2> HIDE DEF e
  <2>3. QED BY <1>1, <2>1, <2>2, OthersLine
<1>2. CASE \E k \in DOMAIN q : q[k].site = s /\ w = [q EXCEPT ![k] = Relabelled(q[k], l)]
  <2>1. PICK k \in DOMAIN q : q[k].site = s /\ w = [q EXCEPT ![k] = Relabelled(q[k], l)]
    BY <1>2
  <2> DEFINE line == q[k]
             new == Relabelled(line, l)
  <2>2. line \in Line /\ line.site = s
    BY <2>1, LinesOf
  <2>3. \A t \in Tracked : AgentLabel[t] # Null
    BY LabelFilesAssumption
  <2>4. s \in Tracked =>
            \/ AgentLabel[s] \in line.was
            \/ line.by = "agent" /\ line.expected = AgentLabel[s]
    BY <2>1, <2>2 DEF KeepsAgent
  <2>5. DOMAIN w = DOMAIN q /\ \A i \in DOMAIN q : w[i] = IF i = k THEN new ELSE q[i]
    BY <2>1
  <2> HIDE DEF w, line
  <2>6. new.site = s
    BY <2>2 DEF Relabelled, Line
  <2>7. s \in Tracked => AgentLabel[s] \in new.was
    <3>1. new.was = IF line.by # "human" /\ line.expected \notin {Null, l}
                    THEN line.was \union {line.expected} ELSE line.was
      BY <2>2 DEF Relabelled, Line
    <3>2. QED BY <2>3, <2>4, <3>1
  <2> HIDE DEF new
  <2>8. SitesOf(w) = SitesOf(q)
    BY <2>1, <2>5, <2>6 DEF SitesOf
  <2>9. \A i \in DOMAIN w : w[i].site \in Tracked =>
           \/ AgentLabel[w[i].site] \in w[i].was
           \/ w[i].by = "agent" /\ w[i].expected = AgentLabel[w[i].site]
    BY <2>5, <2>6, <2>7 DEF KeepsAgent
  <2>10. KeepsAgent(w)
    BY <2>8, <2>9 DEF KeepsAgent
  <2>11. QED BY <2>10 DEF w
<1>3. QED BY <1>1, <1>2, LabelPlace

\* What a command puts into a file, the tracked dataset or another.
LEMMA PutKeepsAgent ==
    ASSUME TypeOK, KeepsAgent(file["main"]), NEW q, Put(q),
           out = "main" /\ ~ cut => KeepsAgent(q)
    PROVE  KeepsAgent(file'["main"])
<1>1. CASE file' = file
  BY <1>1
<1>2. CASE ~ cut /\ file' = [file EXCEPT ![out] = q]
  <2>1. file'["main"] = IF out = "main" THEN q ELSE file["main"]
    BY <1>2 DEF TypeOK, Files
  <2>2. QED BY <1>2, <2>1
<1>3. QED BY <1>1, <1>2, PutIs

\* Every step leaves the tracked dataset with the agent's labels, and the readings of it.
LEMMA MainKept ==
    ASSUME Inv, AgentInv, [Next]_vars
    PROVE  KeepsAgent(file'["main"])
<1>1. /\ TypeOK /\ KeepsAgent(file["main"]) /\ file[out] \in Seq(Line)
      /\ part # NoSite => job = "open"
  BY DEF Inv, AgentInv, TypeOK, Files, Adding
<1>2. ASSUME NEW d \in Sessions, Replace(d) PROVE KeepsAgent(file'["main"])
  <2>1. file' = [file EXCEPT ![dest[d]] = text[d]] /\ pc[d] = "replace"
    BY <1>1, <1>2, ReplaceIs DEF Replace
  <2>2. file'["main"] = IF dest[d] = "main" THEN text[d] ELSE file["main"]
    BY <1>1, <2>1 DEF TypeOK, Files
  <2>3. QED BY <1>1, <2>1, <2>2 DEF AgentInv
<1>3. ASSUME NEW s \in Sites, WriteHalf(s) \/ WriteLine(s) PROVE KeepsAgent(file'["main"])
  <2>1. PICK e \in Line : /\ Put(Append(file[out], e)) /\ job = "open"
                          /\ e.site = NoSite \/ e.site \in queue
    BY <1>3, NewLines DEF WriteHalf, WriteLine
  <2>2. out = "main" => e.site \notin Tracked
    BY <2>1, LabelFilesAssumption DEF AgentInv
  <2>3. out = "main" => KeepsAgent(Append(file[out], e))
    BY <1>1, <2>2, OthersLine
  <2>4. QED BY <1>1, <2>1, <2>3, PutKeepsAgent
<1>4. CASE WriteRest
  <2> DEFINE q == [file[out] EXCEPT ![Len(file[out])] = Candidate(part)]
  <2>1. Put(q) /\ part # NoSite /\ part \in Sites /\ job = "open"
    BY <1>1, <1>4 DEF WriteRest, TypeOK
  <2>2. Candidate(part) \in Line /\ Candidate(part).site = part
    BY <2>1, NewLines
  <2>3. out = "main" /\ ~ cut =>
            /\ part \notin Tracked
            /\ Len(file[out]) > 0 /\ file[out][Len(file[out])].site = NoSite
    BY <2>1 DEF AgentInv
  <2>4. out = "main" /\ ~ cut => KeepsAgent(q)
    BY <1>1, <2>2, <2>3, OthersLine
  <2> HIDE DEF q
  <2>5. QED BY <1>1, <2>1, <2>4, PutKeepsAgent
<1>5. CASE file' = file
  BY <1>1, <1>5
<1>6. QED BY <1>2, <1>3, <1>4, <1>5, FileSteps

\* So does every reading of it with a label that opposes the agent's.
LEMMA TextsKept ==
    ASSUME Inv, AgentInv, NoConfirmation, [Next]_vars, NEW e \in Sessions,
           pc'[e] = "replace", dest'[e] = "main"
    PROVE  KeepsAgent(text'[e])
<1>1. TypeOK /\ KeepsAgent(file["main"]) /\ file["main"] \in Seq(Line)
  BY DEF Inv, AgentInv, TypeOK, Files
<1>2. ASSUME NEW d \in Sessions, ReadFile(d) PROVE KeepsAgent(text'[e])
  <2>1. /\ pc[d] = "record" /\ site[d] \in Sites /\ label[d] \in Labels
        /\ dest' = dest
        /\ pc' = [pc EXCEPT ![d] = "replace"]
        /\ text' = [text EXCEPT ![d] = WithLabel(file[dest[d]], site[d], label[d])]
    BY <1>2 DEF ReadFile, Inv, Sure
  <2>2. CASE e = d
    <3>1. text'[e] = WithLabel(file["main"], site[d], label[d])
      BY <1>1, <2>1, <2>2 DEF TypeOK
    <3>2. site[d] \in Tracked => label[d] # AgentLabel[site[d]]
      BY <2>1 DEF NoConfirmation
    <3>3. QED BY <1>1, <2>1, <3>1, <3>2, LabelNoted
  <2>3. CASE e # d
    <3>1. pc'[e] = pc[e] /\ text'[e] = text[e] /\ dest'[e] = dest[e]
      BY <1>1, <2>1, <2>3 DEF TypeOK
    <3>2. QED BY <3>1 DEF AgentInv
  <2>4. QED BY <2>2, <2>3
<1>3. ASSUME NEW d \in Sessions, Replace(d) \/ Abandon(d) PROVE KeepsAgent(text'[e])
  <2>1. LeavePage(d)
    BY <1>3 DEF Replace, Abandon
  <2>2. e # d
    BY <1>1, <2>1 DEF LeavePage, TypeOK
  <2>3. pc'[e] = pc[e] /\ text'[e] = text[e] /\ dest'[e] = dest[e]
    BY <1>1, <2>1, <2>2 DEF LeavePage, TypeOK
  <2>4. QED BY <2>3 DEF AgentInv
<1>4. ASSUME NEW d \in Sessions, NEW s \in Sites, NEW l \in Labels, NEW found \in BOOLEAN,
             Click(d, s, l, found)
      PROVE  KeepsAgent(text'[e])
  <2>1. /\ pc' = [pc EXCEPT ![d] = "record"] /\ text' = text
        /\ dest' = [dest EXCEPT ![d] = Destination(s, found)]
    BY <1>4 DEF Click
  <2>2. e # d
    BY <1>1, <2>1 DEF TypeOK
  <2>3. pc'[e] = pc[e] /\ text'[e] = text[e] /\ dest'[e] = dest[e]
    BY <1>1, <2>1, <2>2 DEF TypeOK
  <2>4. QED BY <2>3 DEF AgentInv
<1>5. CASE UNCHANGED sessionVars
  BY <1>5 DEF sessionVars, AgentInv
<1>6. QED BY <1>2, <1>3, <1>4, <1>5, SessionSteps

\* No command gets a tracked site to add, and who ends a line began it.
LEMMA CommandKept ==
    ASSUME Inv, AgentInv, [Next]_vars
    PROVE  /\ job' # "idle" /\ out' = "main" =>
                  queue' \intersect Tracked = {} /\ part' \notin Tracked
           /\ part' # NoSite /\ ~ cut' =>
                  Len(file'[out']) > 0 /\ file'[out'][Len(file'[out'])].site = NoSite
<1> DEFINE Queue == job # "idle" /\ out = "main" =>
                        queue \intersect Tracked = {} /\ part \notin Tracked
           Last(q) == Len(q) > 0 /\ q[Len(q)].site = NoSite
           Begun == part # NoSite /\ ~ cut => Last(file[out])
<1>1. /\ TypeOK /\ Queue /\ Begun /\ file[out] \in Seq(Line) /\ out \in Files
      /\ part # NoSite => job = "open"
      /\ NoSite \notin Tracked /\ Tracked \subseteq SitesIn("main")
  <2>1. Queue /\ Begun
    BY DEF AgentInv
  <2>2. TypeOK /\ out \in Files /\ file[out] \in Seq(Line)
    BY DEF Inv, TypeOK, Files
  <2>3. part # NoSite => job = "open"
    BY DEF Inv, Adding
  <2>4. NoSite \notin Tracked
    BY LabelFilesAssumption
  <2>5. Tracked \subseteq SitesIn("main")
    BY SitesInIs DEF AgentInv, KeepsAgent, Files
  <2>6. QED BY <2>1, <2>2, <2>3, <2>4, <2>5
<1>2. SUFFICES Queue' /\ Begun'
  OBVIOUS
<1>3. ASSUME NEW f \in {"main", "entries"}, LoadExisting(f) PROVE Queue' /\ Begun'
  <2>1. /\ \E c : queue' = c \ SitesIn(f)
        /\ job = "idle" /\ part' = part /\ out' = f
    BY <1>3 DEF LoadExisting
  <2>2. part' = NoSite /\ (f = "main" => queue' \intersect Tracked = {})
    BY <1>1, <2>1
  <2>3. QED BY <1>1, <2>1, <2>2
<1>4. ASSUME NEW s \in Sites, WriteHalf(s) PROVE Queue' /\ Begun'
  <2>1. /\ s \in queue /\ queue' \subseteq queue /\ part' = s /\ job = "open"
        /\ UNCHANGED <<job, out, cut>> /\ Put(Append(file[out], Half))
    BY <1>4 DEF WriteHalf
  <2>2. ~ cut => file'[out] = Append(file[out], Half)
    BY <1>1, <2>1 DEF Put, TypeOK
  <2>3. Last(Append(file[out], Half))
    BY <1>1, NewLines, Appended
  <2>4. QED BY <1>1, <2>1, <2>2, <2>3
<1>5. ASSUME NEW s \in Sites, WriteLine(s) PROVE Queue' /\ Begun'
  BY <1>1, <1>5 DEF WriteLine
<1>6. CASE WriteRest
  BY <1>1, <1>6 DEF WriteRest
<1>7. CASE CloseFile \/ Kill
  BY <1>1, <1>7 DEF CloseFile, Kill, EndCommand
<1>8. CASE OpenToAppend
  BY <1>1, <1>8 DEF OpenToAppend
<1>9. ASSUME NEW d \in Sessions, Replace(d) PROVE Queue' /\ Begun'
  <2>1. /\ UNCHANGED <<job, out, queue, part>>
        /\ cut' = (cut \/ (job = "open" /\ out = dest[d]))
        /\ file' = [file EXCEPT ![dest[d]] = text[d]]
    BY <1>9 DEF Replace
  <2>2. out # dest[d] => file'[out] = file[out]
    BY <1>1, <2>1 DEF TypeOK
  <2>3. QED BY <1>1, <2>1, <2>2
<1>10. CASE UNCHANGED <<file, job, out, queue, part, cut>>
  BY <1>1, <1>10
<1>11. QED
  BY <1>3, <1>4, <1>5, <1>6, <1>7, <1>8, <1>9, <1>10 DEF Next, Session, WriteOn, Score,
     Click, ReadFile, Abandon, AlertsStage, AgeEntry, FeedStage, EvaluateMain,
     EvaluateFeed, vars, appendVars

\* OthersLabelKept fails only where an analyst first confirms the agent's label: without
\* such a click the tracked dataset keeps that label, in its place or in the note, through
\* any number of corrections, sessions and commands that race (feedback.py _relabelled).
THEOREM OnlyConfirmationLosesLabel == Spec /\ []NoConfirmation => []OthersLabelKept
<1>1. Init => AgentInv
  <2> SUFFICES ASSUME Init PROVE AgentInv
    OBVIOUS
  <2>1. KeepsAgent(file["main"])
    <3>1. PICK s \in [1..Cardinality(Tracked) -> Tracked] :
              /\ \A i, j \in DOMAIN s : s[i] = s[j] => i = j
              /\ file["main"] = [i \in DOMAIN s |->
                                    [site |-> s[i], expected |-> AgentLabel[s[i]],
                                     by |-> "agent", was |-> {}]]
      BY DEF Init, Files
    <3>2. Tracked \subseteq {s[i] : i \in DOMAIN s}
      <4>1. IsFiniteSet(Tracked) /\ Cardinality(Tracked) \in Nat
        BY LabelFilesAssumption, FS_Subset, FS_CardinalityType
      <4>2. IsFiniteSet(1..Cardinality(Tracked))
            /\ Cardinality(1..Cardinality(Tracked)) = Cardinality(Tracked)
        BY <4>1, FS_Interval
      <4>3. s \in Injection(1..Cardinality(Tracked), Tracked)
        BY <3>1 DEF Injection, IsInjective
      <4>4. s \in Surjection(1..Cardinality(Tracked), Tracked)
        BY <4>1, <4>2, <4>3, FS_Injection, FS_Surjection
      <4>5. QED BY <4>4 DEF Surjection
    <3>3. QED BY <3>1, <3>2, LabelFilesAssumption DEF KeepsAgent, SitesOf
  <2>2. QED BY <2>1 DEF Init, AgentInv
<1>2. Inv /\ AgentInv /\ NoConfirmation /\ [Next]_vars => AgentInv'
  BY MainKept, TextsKept, CommandKept DEF AgentInv
<1>3. AgentInv => OthersLabelKept
  BY DEF AgentInv, KeepsAgent, OthersLabelKept
<1>4. QED BY <1>1, <1>2, <1>3, InvHolds, PTL DEF Spec
=============================================================================
