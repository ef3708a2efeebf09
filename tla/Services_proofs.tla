--------------------------- MODULE Services_proofs ---------------------------
(* The services around the pipeline, for any values of their constants.  They *)
(* share no state, so each has an invariant of its own:                       *)
(*   StreamInv    what a stream holds follows what its client has             *)
(*   NoticeInv    the health of the webhook is that of its own deliveries     *)
(*   ClientInv    a call says no more of a torrent than the answers allow     *)
(*   PlanInv      only plans that may be overridden are approved              *)
(*   TInv         directories stay disjoint, as every transaction looks again *)
(*   CInv         a delivery that runs the handler made its request's claim   *)
(*   IdentityInv  a code that was used up let one request in                  *)
(*   BackupInv    a start goes on once its backup is whole                    *)
(*   PageInv      what lies before the cursor of a walk has been shown        *)
EXTENDS EventStream, Notifications, DownloaderClients, OrganizationPlans, Territories,
        CapabilityCalls, Identity, Backups, Paging, FiniteSetTheorems, WellFoundedInduction, TLAPS

-----------------------------------------------------------------------------
(* Numbers. *)

LEMMA LessIsWellFounded == IsWellFoundedOn({pair \in Nat \X Nat : pair[1] < pair[2]}, Nat)
BY NatLessThanWellFounded DEF OpToRel

\* Some number of those that qualify is the least.
LEMMA LeastExists ==
    ASSUME NEW S, S \subseteq Nat, S # {}
    PROVE  \E x \in S : \A y \in S : x <= y
<1> DEFINE R == {pair \in Nat \X Nat : pair[1] < pair[2]}
<1>1. IsWellFoundedOn(R, Nat)
  BY LessIsWellFounded
<1>2. PICK x \in S : \A y \in S : ~(<<y, x>> \in R)
  <2> HIDE DEF R
  <2> QED  BY <1>1, WFMin
<1>3. \A y \in S : ~(y < x)
  BY <1>2
<1> QED  BY <1>3

-----------------------------------------------------------------------------
(* The outbox and its streams. *)

Frames == [gap : BOOLEAN, id : Nat]
OpenReaders == [at : {"open"}, cursor : Nat, pending : Seq(Frames), fetch : BOOLEAN, closing : BOOLEAN]

StreamTypeOK ==
    /\ latest \in Nat
    /\ reader \in {NoReader} \cup OpenReaders
    /\ client \in [last : Nat, seen : Seq(Nat), gaps : SUBSET Nat, from : Nat, breaks : Nat]

\* Only the front of the log is ever gone, and never its end.
LogFrom(least) == least \in 1 .. latest /\ log = least .. latest
LogIsWhole == IF latest = 0 THEN log = {} ELSE \E least \in Nat : LogFrom(least)

\* Where the client's next event follows.
Resumes(c) == IF c.last = None THEN c.from ELSE c.last

\* What a stream holds follows what the client has, one event after the other, or is a gap.
PendingFollows ==
    reader.at = "open" =>
        /\ reader.cursor = client.last
        /\ \/ \A i \in 1 .. Len(reader.pending) :
                ~reader.pending[i].gap /\ reader.pending[i].id = Resumes(client) + i
           \/ Len(reader.pending) = 1 /\ reader.pending[1].gap /\ reader.pending[1].id >= client.last

SeenSoFar == \A i \in 1 .. Len(client.seen) : client.seen[i] <= client.last

StreamInv == StreamTypeOK /\ LogIsWhole /\ PendingFollows /\ SeenSoFar /\ SeesAllOrGap

-----------------------------------------------------------------------------
(* Pages of a log. *)

LEMMA IntervalRank ==
    ASSUME NEW a \in Nat, NEW b \in Nat, NEW x \in a .. b
    PROVE  Cardinality({y \in a .. b : y < x}) = x - a
<1> DEFINE below == {y \in a .. b : y < x}
<1>1. below = a .. (x - 1) /\ x \in Nat /\ x >= a /\ x - 1 \in Int
  OBVIOUS
<1> HIDE DEF below
<1>2. Cardinality(a .. (x - 1)) = IF a > x - 1 THEN 0 ELSE (x - 1) - a + 1
  BY <1>1, FS_Interval
<1>3. Cardinality(below) = x - a
  BY <1>1, <1>2
<1> QED  BY <1>3 DEF below

LEMMA IntervalAscends ==
    ASSUME NEW a \in Nat, NEW b \in Nat, a <= b + 1
    PROVE  /\ Ascending(a .. b) \in Seq(Nat) /\ Len(Ascending(a .. b)) = b - a + 1
           /\ \A i \in 1 .. (b - a + 1) : Ascending(a .. b)[i] = a + i - 1
<1>1. Cardinality(a .. b) = b - a + 1 /\ b - a + 1 \in Nat
  BY FS_Interval
<1>2. ASSUME NEW i \in 1 .. (b - a + 1)
      PROVE  (CHOOSE x \in a .. b : Cardinality({y \in a .. b : y < x}) = i - 1) = a + i - 1
  <2>1. a + i - 1 \in a .. b /\ Cardinality({y \in a .. b : y < a + i - 1}) = i - 1
    <3>1. a + i - 1 \in a .. b
      OBVIOUS
    <3> QED  BY <3>1, IntervalRank
  <2>2. \A x \in a .. b : Cardinality({y \in a .. b : y < x}) = i - 1 => x = a + i - 1
    BY IntervalRank
  <2> QED  BY <2>1, <2>2
<1>3. Ascending(a .. b) = [i \in 1 .. (b - a + 1) |-> a + i - 1]
  BY <1>1, <1>2 DEF Ascending
<1> QED  BY <1>1, <1>3

\* The first n ids above x of a whole log follow one another.
LEMMA PageIsInterval ==
    ASSUME NEW least \in Nat, LogFrom(least), latest \in Nat, NEW x \in Nat, x + 1 >= least, x <= latest,
           NEW n \in Nat \ {0}
    PROVE  \E b \in Nat : x <= b /\ Page(x, n) = (x + 1) .. b
<1>1. Above(x) = (x + 1) .. latest
  BY DEF Above, LogFrom
<1>2. \A y \in (x + 1) .. latest : Cardinality({z \in (x + 1) .. latest : z < y}) = y - (x + 1)
  BY IntervalRank
<1>3. Page(x, n) = {y \in (x + 1) .. latest : y - (x + 1) < n}
  BY <1>1, <1>2 DEF Page
<1> DEFINE b == IF x + n <= latest THEN x + n ELSE latest
<1>4. b \in Nat /\ x <= b /\ {y \in (x + 1) .. latest : y - (x + 1) < n} = (x + 1) .. b
  OBVIOUS
<1> QED  BY <1>3, <1>4

LEMMA LeastOfLog == ASSUME latest \in Nat, NEW least \in Nat, LogFrom(least) PROVE Least(log) = least /\ log # {}
<1>1. least \in log /\ \A y \in log : y \in Nat /\ least <= y
  BY DEF LogFrom
<1>2. \A x \in log : (\A y \in log : x <= y) => x = least
  BY <1>1
<1> QED  BY <1>1, <1>2 DEF Least

-----------------------------------------------------------------------------
(* The outbox. *)

LEMMA CommitKeeps == ASSUME StreamInv, Commit PROVE StreamInv'
<1>1. latest \in Nat /\ latest' = latest + 1 /\ log' = log \cup {latest + 1} /\ UNCHANGED <<reader, client, session>>
  BY DEF Commit, StreamInv, StreamTypeOK
<1>2. LogIsWhole'
  <2>1. CASE latest = 0
    <3>1. log' = 1 .. latest' /\ 1 \in 1 .. latest'
      BY <1>1, <2>1 DEF StreamInv, LogIsWhole
    <3> QED  BY <1>1, <3>1 DEF LogIsWhole, LogFrom
  <2>2. CASE latest # 0
    <3>1. PICK least \in Nat : LogFrom(least)
      BY <2>2 DEF StreamInv, LogIsWhole
    <3>2. log' = least .. latest' /\ least \in 1 .. latest'
      BY <1>1, <3>1 DEF LogFrom
    <3> QED  BY <1>1, <3>2 DEF LogIsWhole, LogFrom
  <2> QED  BY <2>1, <2>2
<1> QED  BY <1>1, <1>2 DEF StreamInv, StreamTypeOK, PendingFollows, SeenSoFar, SeesAllOrGap

LEMMA CleanupKeeps == ASSUME StreamInv, Cleanup PROVE StreamInv'
<1>1. PICK old \in SUBSET log : Deletable(old) # {} /\ log' = log \ Deletable(old)
  BY DEF Cleanup
<1>2. UNCHANGED <<latest, reader, client, session>> /\ latest \in Nat
  BY DEF Cleanup, StreamInv, StreamTypeOK
<1>3. latest # 0
  BY <1>1 DEF StreamInv, LogIsWhole, Deletable
<1>4. PICK least \in Nat : LogFrom(least)
  BY <1>3 DEF StreamInv, LogIsWhole
<1>5. \A y \in log : Above(y) = (y + 1) .. latest /\ y \in Nat /\ y <= latest
  BY <1>4 DEF Above, LogFrom
<1>6. \A y \in log : Cardinality(Above(y)) = latest - y
  <2> SUFFICES ASSUME NEW y \in log PROVE Cardinality(Above(y)) = latest - y
    OBVIOUS
  <2>0. y \in Nat /\ y <= latest /\ y + 1 \in Int /\ latest \in Int
    BY <1>2, <1>5
  <2>1. Cardinality((y + 1) .. latest) = IF y + 1 > latest THEN 0 ELSE latest - (y + 1) + 1
    BY <2>0, FS_Interval
  <2> QED  BY <1>2, <1>5, <2>0, <2>1
<1>7. latest \in log /\ latest \notin Deletable(old)
  BY <1>2, <1>4, <1>6, StreamAssumption DEF LogFrom, Deletable
<1>8. ASSUME NEW x \in Deletable(old), NEW y \in log, y <= x PROVE y \in Deletable(old)
  <2>1. x \in log /\ latest - x >= Successors /\ \A z \in log : z <= x => z \in old
    BY <1>6 DEF Deletable
  <2>2. latest - y >= Successors
    BY <1>2, <1>5, <1>8, <2>1, StreamAssumption
  <2>3. \A z \in log : z <= y => z \in old
    BY <1>5, <1>8, <2>1
  <2> QED  BY <1>6, <2>2, <2>3 DEF Deletable
<1>9. PICK first \in log' : \A y \in log' : first <= y
  <2>1. log' \subseteq Nat /\ log' # {}
    BY <1>1, <1>5, <1>7
  <2> QED  BY <2>1, LeastExists
<1>10. log' = first .. latest
  <2>1. \A y \in log' : y \in first .. latest
    BY <1>1, <1>5, <1>9
  <2>2. ASSUME NEW y \in first .. latest PROVE y \in log'
    <3>1. first \in log /\ first \notin Deletable(old) /\ first \in Nat
      BY <1>1, <1>5, <1>9
    <3>2. y \in log
      BY <1>4, <3>1 DEF LogFrom
    <3>3. y \notin Deletable(old)
      BY <1>8, <3>1
    <3> QED  BY <1>1, <3>2, <3>3
  <2> QED  BY <2>1, <2>2
<1>11. LogIsWhole'
  <2>1. first \in 1 .. latest
    BY <1>1, <1>4, <1>5, <1>9 DEF LogFrom
  <2> QED  BY <1>2, <1>3, <1>10, <2>1 DEF LogIsWhole, LogFrom
<1> QED  BY <1>2, <1>11 DEF StreamInv, StreamTypeOK, PendingFollows, SeenSoFar, SeesAllOrGap

-----------------------------------------------------------------------------
(* The streams. *)

\* Only the stream changes.
LEMMA ReaderChanges ==
    ASSUME StreamInv, UNCHANGED <<log, latest, client>>, reader' \in {NoReader} \cup OpenReaders, PendingFollows'
    PROVE  StreamInv'
BY DEF StreamInv, StreamTypeOK, LogIsWhole, LogFrom, SeenSoFar, SeesAllOrGap

LEMMA ReaderGone ==
    ASSUME StreamInv, UNCHANGED <<log, latest>>, reader' = NoReader,
           client' = client \/ client' = [client EXCEPT !.breaks = @ + 1]
    PROVE  StreamInv'
<1>1. client \in [last : Nat, seen : Seq(Nat), gaps : SUBSET Nat, from : Nat, breaks : Nat]
  BY DEF StreamInv, StreamTypeOK
<1>2. client' \in [last : Nat, seen : Seq(Nat), gaps : SUBSET Nat, from : Nat, breaks : Nat]
      /\ client'.last = client.last /\ client'.seen = client.seen /\ client'.gaps = client.gaps
      /\ client'.from = client.from
  BY <1>1
<1> QED  BY <1>2 DEF StreamInv, StreamTypeOK, LogIsWhole, LogFrom, PendingFollows, SeenSoFar, SeesAllOrGap, NoReader

LEMMA OpenReader == StreamInv /\ reader.at = "open" => reader \in OpenReaders
BY DEF StreamInv, StreamTypeOK, NoReader

LEMMA ConnectKeeps == ASSUME StreamInv, Connect PROVE StreamInv'
<1>1. client.last \in Nat /\ <<>> \in Seq(Frames)
  BY DEF StreamInv, StreamTypeOK
<1>2. reader' \in OpenReaders /\ reader'.cursor = client.last /\ reader'.pending = <<>>
  BY <1>1 DEF Connect, Opened, OpenReaders
<1>3. PendingFollows'
  BY <1>2 DEF Connect, PendingFollows
<1> QED  BY <1>2, <1>3, ReaderChanges DEF Connect

LEMMA WakeKeeps == ASSUME StreamInv, Wake PROVE StreamInv'
<1>1. reader \in OpenReaders
  BY OpenReader DEF Wake
<1>2. reader' \in OpenReaders /\ reader'.cursor = reader.cursor /\ reader'.pending = reader.pending
      /\ reader'.at = reader.at
  BY <1>1 DEF Wake, OpenReaders
<1>3. PendingFollows'
  BY <1>2 DEF Wake, StreamInv, PendingFollows
<1> QED  BY <1>2, <1>3, ReaderChanges DEF Wake

\* A frame is the next event, or a gap that takes everything before it with it.
LEMMA SendKeeps == ASSUME StreamInv, Send PROVE StreamInv'
<1> DEFINE frame == Head(reader.pending)
           seen == IF frame.gap THEN client.seen ELSE Append(client.seen, frame.id)
           gaps == IF frame.gap THEN client.gaps \cup {frame.id} ELSE client.gaps
<1>1. reader \in OpenReaders /\ reader.at = "open" /\ UNCHANGED <<log, latest>>
  BY OpenReader DEF Send
<1>2. reader.pending \in Seq(Frames) /\ reader.pending # <<>>
  BY <1>1 DEF Send, OpenReaders
<1>3. frame = reader.pending[1] /\ frame \in Frames /\ Tail(reader.pending) \in Seq(Frames)
      /\ Len(reader.pending) \in Nat \ {0} /\ Len(Tail(reader.pending)) = Len(reader.pending) - 1
      /\ \A i \in 1 .. Len(Tail(reader.pending)) : Tail(reader.pending)[i] = reader.pending[i + 1]
  BY <1>2
<1>4. client \in [last : Nat, seen : Seq(Nat), gaps : SUBSET Nat, from : Nat, breaks : Nat]
  BY DEF StreamInv, StreamTypeOK
<1>5. frame.gap \in BOOLEAN /\ frame.id \in Nat
  BY <1>3 DEF Frames
<1>6. client' = [client EXCEPT !.last = frame.id, !.seen = seen, !.gaps = gaps]
      /\ reader' = [reader EXCEPT !.cursor = frame.id, !.pending = Tail(reader.pending)]
  BY DEF Send
<1>7. frame.gap => frame.id >= client.last /\ Len(reader.pending) = 1
  BY <1>1, <1>3 DEF StreamInv, PendingFollows
<1>8. ~frame.gap => /\ frame.id = Resumes(client) + 1
                    /\ \A i \in 1 .. Len(reader.pending) :
                            ~reader.pending[i].gap /\ reader.pending[i].id = Resumes(client) + i
  BY <1>1, <1>3 DEF StreamInv, PendingFollows
<1>9. Resumes(client) \in Nat /\ Resumes(client) >= client.last
      /\ (client.last # None => Resumes(client) = client.last) /\ (client.last = None => Resumes(client) = client.from)
  BY <1>4 DEF Resumes, None
<1> DEFINE rest == Tail(reader.pending)
           pending == reader.pending
<1>10. frame.gap => Len(rest) = 0
  BY <1>3, <1>7
<1> HIDE DEF frame
<1>11. seen \in Seq(Nat) /\ gaps \in SUBSET Nat
  BY <1>4, <1>5
<1>12. reader' \in OpenReaders /\ reader'.cursor = frame.id /\ reader'.pending = rest
  BY <1>1, <1>3, <1>5, <1>6 DEF OpenReaders
<1> HIDE DEF seen, gaps
<1>13. client' \in [last : Nat, seen : Seq(Nat), gaps : SUBSET Nat, from : Nat, breaks : Nat]
       /\ client'.last = frame.id /\ client'.seen = seen /\ client'.gaps = gaps /\ client'.from = client.from
  BY <1>4, <1>5, <1>6, <1>11
<1>14. StreamTypeOK' /\ LogIsWhole'
  BY <1>1, <1>12, <1>13 DEF StreamInv, StreamTypeOK, LogIsWhole, LogFrom
<1>15. PendingFollows'
  <2>1. CASE frame.gap
    <3> HIDE DEF rest
    <3>1. Len(reader'.pending) = 0
      BY <1>10, <1>12, <2>1
    <3> QED  BY <1>12, <1>13, <3>1 DEF PendingFollows
  <2>2. CASE ~frame.gap
    <3>1. Resumes(client)' = frame.id
      BY <1>8, <1>9, <1>13, <2>2 DEF Resumes, None
    <3>2. ASSUME NEW i \in 1 .. Len(rest) PROVE ~rest[i].gap /\ rest[i].id = frame.id + i
      <4>1. i + 1 \in 1 .. Len(pending) /\ rest[i] = pending[i + 1]
        BY <1>3
      <4>2. ~pending[i + 1].gap /\ pending[i + 1].id = Resumes(client) + (i + 1)
        BY <1>8, <2>2, <4>1
      <4> QED  BY <1>8, <1>9, <2>2, <4>1, <4>2
    <3> HIDE DEF rest
    <3> QED  BY <1>12, <1>13, <3>1, <3>2 DEF PendingFollows
  <2> QED  BY <2>1, <2>2
<1>16. Len(client.seen) \in Nat /\ \A i \in 1 .. Len(client.seen) : client.seen[i] \in Nat /\ client.seen[i] <= client.last
  BY <1>4 DEF StreamInv, SeenSoFar
<1>17. frame.id >= client.last /\ (~frame.gap => frame.id > client.last)
  BY <1>4, <1>5, <1>7, <1>8, <1>9
<1>18. \A i \in 1 .. Len(client.seen) : seen[i] = client.seen[i]
  BY <1>4, <1>5, <1>16 DEF seen
<1>19. Len(seen) = (IF frame.gap THEN Len(client.seen) ELSE Len(client.seen) + 1)
       /\ (~frame.gap => seen[Len(client.seen) + 1] = frame.id)
  BY <1>4, <1>5, <1>16 DEF seen
<1>20. \A i \in 1 .. Len(seen) : i \in 1 .. Len(client.seen) \/ (~frame.gap /\ i = Len(client.seen) + 1)
  BY <1>16, <1>19
<1>21. SeenSoFar'
  <2> SUFFICES ASSUME NEW i \in 1 .. Len(seen) PROVE seen[i] <= frame.id
    BY <1>13 DEF SeenSoFar
  <2>1. CASE i \in 1 .. Len(client.seen)
    BY <1>4, <1>5, <1>16, <1>17, <1>18, <2>1
  <2>2. CASE ~frame.gap /\ i = Len(client.seen) + 1
    BY <1>5, <1>19, <2>2
  <2> QED  BY <1>20, <2>1, <2>2
<1>22. \A i, j \in DOMAIN client'.seen : i < j => client'.seen[i] < client'.seen[j]
  <2>0. DOMAIN client'.seen = 1 .. Len(seen)
    BY <1>11, <1>13
  <2> SUFFICES ASSUME NEW i \in 1 .. Len(seen), NEW j \in 1 .. Len(seen), i < j PROVE seen[i] < seen[j]
    BY <1>13, <2>0
  <2>1. i \in 1 .. Len(client.seen)
    BY <1>16, <1>20
  <2>2. CASE j \in 1 .. Len(client.seen)
    <3>1. DOMAIN client.seen = 1 .. Len(client.seen)
      BY <1>4
    <3>2. client.seen[i] < client.seen[j]
      BY <2>1, <2>2, <3>1 DEF StreamInv, SeesAllOrGap
    <3> QED  BY <1>18, <2>1, <2>2, <3>2
  <2>3. CASE ~frame.gap /\ j = Len(client.seen) + 1
    <3>1. seen[i] = client.seen[i] /\ client.seen[i] \in Nat /\ client.seen[i] <= client.last
      BY <1>16, <1>18, <2>1
    <3>2. seen[j] = frame.id /\ frame.id > client.last
      BY <1>17, <1>19, <2>3
    <3>3. client.last \in Nat /\ frame.id \in Nat
      BY <1>4, <1>5
    <3> QED  BY <3>1, <3>2, <3>3
  <2> QED  BY <1>20, <2>2, <2>3
<1>23. Range(client.seen) \subseteq Range(seen) /\ (~frame.gap => frame.id \in Range(seen))
  <2>1. DOMAIN client.seen = 1 .. Len(client.seen) /\ DOMAIN seen = 1 .. Len(seen)
    BY <1>4, <1>11
  <2>2. \A i \in 1 .. Len(client.seen) : i \in 1 .. Len(seen)
    BY <1>16, <1>19
  <2>3. ~frame.gap => Len(client.seen) + 1 \in 1 .. Len(seen)
    BY <1>16, <1>19
  <2> QED  BY <1>18, <1>19, <2>1, <2>2, <2>3 DEF Range
<1>24. ASSUME NEW x \in (client.from + 1) .. frame.id PROVE x \in Range(seen) \/ \E gap \in gaps : x <= gap
  <2>1. CASE frame.gap
    BY <1>4, <1>5, <2>1 DEF gaps
  <2>2. CASE ~frame.gap
    <3>1. CASE x = frame.id
      BY <1>23, <2>2, <3>1
    <3>2. CASE x # frame.id
      <4>1. x \in (client.from + 1) .. client.last
        BY <1>4, <1>5, <1>8, <1>9, <2>2, <3>2
      <4>2. x \in Range(client.seen) \/ \E gap \in client.gaps : x <= gap
        BY <4>1 DEF StreamInv, SeesAllOrGap
      <4> QED  BY <1>23, <2>2, <4>2 DEF gaps
    <3> QED  BY <3>1, <3>2
  <2> QED  BY <1>5, <2>1, <2>2
<1>25. SeesAllOrGap'
  BY <1>13, <1>22, <1>24 DEF SeesAllOrGap
<1> QED  BY <1>14, <1>15, <1>21, <1>25 DEF StreamInv

\* A page follows what the client has, and a gap ends where the log begins.
LEMMA FetchKeeps == ASSUME StreamInv, Fetch PROVE StreamInv'
<1> DEFINE fresh == reader.cursor = None /\ log # {}
           start == IF fresh THEN Least(log) - 1 ELSE reader.cursor
           page == Page(start, PageSize)
           frames == [i \in DOMAIN Ascending(page) |-> [gap |-> FALSE, id |-> Ascending(page)[i]]]
           from == IF fresh THEN Least(log) - 1 ELSE client.from
<1>1. reader \in OpenReaders /\ reader.at = "open" /\ UNCHANGED <<log, latest>> /\ latest \in Nat
      /\ reader.cursor = client.last
  BY OpenReader DEF Fetch, StreamInv, StreamTypeOK, PendingFollows
<1>2. client \in [last : Nat, seen : Seq(Nat), gaps : SUBSET Nat, from : Nat, breaks : Nat]
  BY DEF StreamInv, StreamTypeOK
<1>3. client' = [client EXCEPT !.from = from]
  BY DEF Fetch
<1>4. reader' = IF log # {} /\ Behind(reader.cursor)
                THEN [reader EXCEPT !.fetch = FALSE, !.closing = TRUE,
                                    !.pending = <<[gap |-> TRUE, id |-> Boundary]>>]
                ELSE [reader EXCEPT !.fetch = Cardinality(page) = PageSize, !.pending = frames]
  BY DEF Fetch
<1>5. log # {} => \E least \in Nat : LogFrom(least)
  BY DEF StreamInv, LogIsWhole
<1>6. log # {} => Least(log) \in Nat \ {0} /\ LogFrom(Least(log)) /\ Least(log) <= latest
  BY <1>1, <1>5, LeastOfLog DEF LogFrom
<1>7. from \in Nat
  BY <1>2, <1>6
<1> HIDE DEF from
<1>8. client' \in [last : Nat, seen : Seq(Nat), gaps : SUBSET Nat, from : Nat, breaks : Nat]
      /\ client'.last = client.last /\ client'.seen = client.seen /\ client'.gaps = client.gaps /\ client'.from = from
  BY <1>2, <1>3, <1>7
<1>9. SeenSoFar' /\ SeesAllOrGap'
  <2>1. SeenSoFar'
    BY <1>8 DEF StreamInv, SeenSoFar
  <2>2. (from + 1) .. client.last \subseteq (client.from + 1) .. client.last
    BY <1>1, <1>2, <1>7 DEF from, None
  <2> QED  BY <1>8, <2>1, <2>2 DEF StreamInv, SeesAllOrGap
<1>10. CASE log # {} /\ Behind(reader.cursor)
  <2>1. Boundary \in Nat /\ Boundary >= client.last
    BY <1>1, <1>2, <1>6, <1>10 DEF Boundary, Behind
  <2> DEFINE told == <<[gap |-> TRUE, id |-> Boundary]>>
  <2>2. told \in Seq(Frames) /\ Len(told) = 1 /\ told[1].gap /\ told[1].id = Boundary
    BY <2>1 DEF Frames
  <2>3. reader' = [reader EXCEPT !.fetch = FALSE, !.closing = TRUE, !.pending = told]
    BY <1>4, <1>10
  <2> HIDE DEF told
  <2>4. reader' \in OpenReaders /\ reader'.cursor = reader.cursor /\ reader'.pending = told
    BY <1>1, <2>2, <2>3 DEF OpenReaders
  <2>5. PendingFollows'
    BY <1>1, <1>8, <2>1, <2>2, <2>4 DEF PendingFollows
  <2> QED  BY <1>1, <1>8, <1>9, <2>4, <2>5 DEF StreamInv, StreamTypeOK, LogIsWhole, LogFrom
<1>11. CASE ~(log # {} /\ Behind(reader.cursor))
  <2>1. start \in Nat /\ (log # {} => start = Resumes(client)')
    BY <1>1, <1>2, <1>6, <1>8 DEF Resumes, None, from
  <2>2. \E b \in Nat : start <= b /\ page = (start + 1) .. b
    <3>1. CASE log = {}
      <4>1. page = (start + 1) .. start
        BY <2>1, <3>1 DEF Page, Above
      <4> HIDE DEF page, start
      <4> QED  BY <2>1, <4>1
    <3>2. CASE log # {}
      <4>1. start + 1 >= Least(log)
        BY <1>1, <1>2, <1>6, <1>11, <3>2 DEF Behind, None
      <4>2. CASE start <= latest
        <5> HIDE DEF start
        <5> QED  BY <1>1, <1>6, <2>1, <3>2, <4>1, <4>2, StreamAssumption, PageIsInterval
      <4>3. CASE start > latest
        <5>1. page = (start + 1) .. start
          <6> HIDE DEF start
          <6> QED  BY <1>1, <1>6, <2>1, <3>2, <4>3 DEF Page, Above, LogFrom
        <5> HIDE DEF page, start
        <5> QED  BY <2>1, <5>1
      <4> QED  BY <1>1, <2>1, <4>2, <4>3
    <3> QED  BY <3>1, <3>2
  <2>3. PICK b \in Nat : start <= b /\ page = (start + 1) .. b
    BY <2>2
  <2> HIDE DEF start
  <2>4. start + 1 <= b + 1 /\ start + 1 \in Nat
    BY <2>1, <2>3
  <2>5. Ascending(page) \in Seq(Nat) /\ Len(Ascending(page)) = b - start
        /\ \A i \in 1 .. (b - start) : Ascending(page)[i] = start + i
    <3>1. Ascending((start + 1) .. b) \in Seq(Nat) /\ Len(Ascending((start + 1) .. b)) = b - (start + 1) + 1
          /\ \A i \in 1 .. (b - (start + 1) + 1) : Ascending((start + 1) .. b)[i] = (start + 1) + i - 1
      BY <2>4, IntervalAscends
    <3> QED  BY <2>1, <2>3, <3>1
  <2> HIDE DEF page
  <2>6. DOMAIN Ascending(page) = 1 .. (b - start) /\ b - start \in Nat
    BY <2>1, <2>3, <2>5
  <2>7. frames = [i \in 1 .. (b - start) |-> [gap |-> FALSE, id |-> start + i]]
    BY <2>5, <2>6
  <2>8. \A i \in 1 .. (b - start) : [gap |-> FALSE, id |-> start + i] \in Frames
    BY <2>1 DEF Frames
  <2> DEFINE n == b - start
  <2>9. frames \in Seq(Frames) /\ Len(frames) = b - start
        /\ \A i \in 1 .. (b - start) : ~frames[i].gap /\ frames[i].id = start + i
    <3> HIDE DEF frames
    <3>1. \A i \in 1 .. n : frames[i] = [gap |-> FALSE, id |-> start + i]
      BY <2>7
    <3>2. frames \in [1 .. n -> Frames]
      BY <2>7, <2>8
    <3> HIDE DEF n
    <3>3. frames \in Seq(Frames) /\ Len(frames) = n
      BY <2>6, <3>2 DEF n
    <3> QED  BY <3>1, <3>3 DEF n
  <2> DEFINE full == Cardinality(page) = PageSize
  <2>10. full \in BOOLEAN /\ reader' = [reader EXCEPT !.fetch = full, !.pending = frames]
    BY <1>4, <1>11
  <2> HIDE DEF frames, full
  <2>11. reader' \in OpenReaders /\ reader'.cursor = reader.cursor /\ reader'.pending = frames
    BY <1>1, <2>9, <2>10 DEF OpenReaders
  <2>12. Len(frames) # 0 => log # {}
    <3>1. log = {} => page = {}
      BY DEF page, Page, Above
    <3>2. start < b => start + 1 \in page
      BY <2>1, <2>3
    <3> HIDE DEF n
    <3>3. log = {} => ~(start < b)
      BY <3>1, <3>2
    <3>4. Len(frames) # 0 => start < b
      BY <2>1, <2>3, <2>6, <2>9
    <3> QED  BY <3>3, <3>4
  <2>13. PendingFollows'
    <3>1. ASSUME NEW i \in 1 .. Len(frames) PROVE ~frames[i].gap /\ frames[i].id = Resumes(client)' + i
      BY <2>1, <2>6, <2>9, <2>12
    <3> QED  BY <1>1, <1>8, <2>11, <3>1 DEF PendingFollows
  <2> QED  BY <1>1, <1>8, <1>9, <2>11, <2>13 DEF StreamInv, StreamTypeOK, LogIsWhole, LogFrom
<1> QED  BY <1>10, <1>11

LEMMA StreamInitInv == StreamInit => StreamInv
BY DEF StreamInit, StreamInv, StreamTypeOK, LogIsWhole, PendingFollows, SeenSoFar, SeesAllOrGap, NoReader, None

LEMMA StreamNextInv == StreamInv /\ [StreamNext]_streamVars => StreamInv'
<1> SUFFICES ASSUME StreamInv, [StreamNext]_streamVars PROVE StreamInv'
  OBVIOUS
<1>1. CASE Commit \/ Cleanup
  BY <1>1, CommitKeeps, CleanupKeeps
<1>2. CASE Connect \/ Wake \/ Send \/ Fetch
  BY <1>2, ConnectKeeps, WakeKeeps, SendKeeps, FetchKeeps
<1>3. CASE Break \/ Revalidate \/ Close
  BY <1>3, ReaderGone DEF Break, Revalidate, Close
<1>4. CASE Revoke \/ UNCHANGED streamVars
  <2>1. UNCHANGED <<log, latest, reader, client>>
    BY <1>4 DEF Revoke, streamVars
  <2> QED
    BY <2>1 DEF StreamInv, StreamTypeOK, LogIsWhole, LogFrom, PendingFollows, Resumes, SeenSoFar, SeesAllOrGap
<1> QED  BY <1>1, <1>2, <1>3, <1>4 DEF StreamNext

\* For any number of events, page size, pruning and disconnections: a client sees every event after
\* the one it started from, once and in order, or is told of a gap that covers it (event_stream and
\* cleanup_cycle).
THEOREM ClientsSeeAllOrAGap == StreamSpec => []SeesAllOrGap
<1>1. StreamSpec => []StreamInv
  BY StreamInitInv, StreamNextInv, PTL DEF StreamSpec
<1>2. StreamInv => SeesAllOrGap
  BY DEF StreamInv
<1> QED  BY <1>1, <1>2, PTL

-----------------------------------------------------------------------------
(* Notices: what a delivery becomes, and what it says of the webhook. *)

DeliveryRows ==
    [status : {"none"} \cup Undecided \cup DeliveryEnded, version : Nat, tries : Nat,
     due : BOOLEAN, expired : BOOLEAN]

Outcomes == {"delivered", "retryable", "unauthorized", "rejected"}

Couriers ==
    {NoCourier}
    \cup [at : {"claimed", "sending"}, n : Notices, version : Nat, token : Nat \ {0}]
    \cup [at : {"sent"}, n : Notices, version : Nat, token : Nat \ {0}, outcome : Outcomes]

NoticeTypeOK ==
    /\ notices \in [Notices -> {"none", "unread", "read"}]
    /\ webhook \in [version : Nat, exists : BOOLEAN, enabled : BOOLEAN,
                    health : {"unconfigured", "healthy", "degraded", "unavailable", "unauthorized"}]
    /\ deliveries \in [Notices -> DeliveryRows]
    /\ courier \in Couriers

\* A delivery is made with its notice, or never.
MadeWithItsNotice == \A n \in Notices : notices[n] = "none" => deliveries[n] = NoDelivery

\* The worker is about a delivery that was made, under the configuration it was made for, and it
\* heard of a success only from that configuration's endpoint.
CourierIsTrue ==
    courier.at # "idle" =>
        /\ notices[courier.n] # "none"
        /\ deliveries[courier.n].version = courier.version
        /\ courier.at = "sent" /\ courier.outcome = "delivered" => <<courier.n, courier.version>> \in accepted

NoticeInv == NoticeTypeOK /\ MadeWithItsNotice /\ CourierIsTrue /\ HealthIsItsOwn

\* What may become of a delivery while the webhook is what it is: an end is final.
Onward(d, e) ==
    /\ e.version = d.version
    /\ e.tries >= d.tries
    /\ d.status \in {"succeeded", "failed"} => e.status = d.status
    /\ e.status = "succeeded" => d.status = "succeeded"

\* The deliveries go on, none succeeds, and the configuration stays: the health stays true.
LEMMA HealthStaysTrue ==
    ASSUME NoticeInv, webhook' = webhook, accepted \subseteq accepted',
           deliveries' \in [Notices -> DeliveryRows],
           \A n \in Notices : Onward(deliveries[n], deliveries'[n])
    PROVE  HealthIsItsOwn'
<1> USE DEF NoticeInv, HealthIsItsOwn, Onward
<1>0. \A n \in Notices : deliveries[n].tries \in Nat /\ deliveries'[n].tries \in Nat
  BY DEF NoticeTypeOK, DeliveryRows
<1>1. \A n \in Notices : deliveries'[n].status = "succeeded" => <<n, deliveries'[n].version>> \in accepted'
  OBVIOUS
<1>2. webhook.health = "healthy" =>
        \E n \in Notices : deliveries'[n].version = webhook.version /\ deliveries'[n].status = "succeeded"
  OBVIOUS
<1>3. webhook.health = "unauthorized" =>
        \E n \in Notices : deliveries'[n].version = webhook.version /\ deliveries'[n].status = "failed"
  OBVIOUS
<1>4. webhook.health # "unconfigured" =>
        \E n \in Notices : deliveries'[n].version = webhook.version /\ deliveries'[n].tries > 0
  BY <1>0
<1> QED  BY <1>1, <1>2, <1>3, <1>4

\* A new configuration, or none, is of unknown health.
LEMMA UnknownIsTrue ==
    ASSUME webhook'.health = "unconfigured", accepted' = accepted,
           \A n \in Notices : deliveries'[n].status = "succeeded" =>
                <<n, deliveries'[n].version>> \in accepted
    PROVE  HealthIsItsOwn'
BY DEF HealthIsItsOwn

LEMMA CancelledRow ==
    ASSUME NEW d \in DeliveryRows
    PROVE  /\ Cancelled(d) \in DeliveryRows /\ Cancelled(d).version = d.version
           /\ Cancelled(d).tries = d.tries /\ Cancelled(d).status = "cancelled"
<1>1. [d EXCEPT !.status = "cancelled", !.due = FALSE, !.expired = FALSE] \in DeliveryRows
  BY DEF DeliveryRows, DeliveryEnded
<1> QED  BY <1>1 DEF Cancelled, DeliveryRows

\* The sweep ends what is undecided, or what ran out of attempts.
LEMMA SweptIsOnward ==
    ASSUME NEW d \in DeliveryRows
    PROVE  Swept(d) \in DeliveryRows /\ Onward(d, Swept(d))
<1>1. d.tries \in Nat /\ d.version \in Nat /\ d.tries >= d.tries
  BY DEF DeliveryRows
<1>2. Cancelled(d) \in DeliveryRows /\ Cancelled(d).version = d.version /\ Cancelled(d).tries = d.tries
      /\ Cancelled(d).status = "cancelled"
  BY CancelledRow
<1>3. CASE d.status \in Undecided /\ ~InForce(d.version)
  BY <1>1, <1>2, <1>3 DEF Swept, Onward, Undecided
<1>4. CASE d.status = "sending" /\ d.tries >= MaxTries /\ d.expired /\ InForce(d.version)
  <2>1. Swept(d) = [d EXCEPT !.status = "failed", !.expired = FALSE]
    BY <1>4 DEF Swept
  <2>2. [d EXCEPT !.status = "failed", !.expired = FALSE] \in DeliveryRows
    BY DEF DeliveryRows, DeliveryEnded
  <2>3. /\ Swept(d).version = d.version /\ Swept(d).tries = d.tries /\ Swept(d).status = "failed"
    BY <2>1 DEF DeliveryRows
  <2> QED  BY <1>1, <1>4, <2>1, <2>2, <2>3 DEF Onward
<1>5. CASE ~(d.status \in Undecided /\ ~InForce(d.version))
           /\ ~(d.status = "sending" /\ d.tries >= MaxTries /\ d.expired)
  BY <1>1, <1>5 DEF Swept, Onward
<1> QED  BY <1>3, <1>4, <1>5 DEF Undecided

\* A step of the worker, or of time, that leaves the notices and the webhook alone.
LEMMA CourierMoves ==
    ASSUME NoticeInv, UNCHANGED <<notices, webhook>>, accepted \subseteq accepted',
           deliveries' \in [Notices -> DeliveryRows], courier' \in Couriers,
           \A n \in Notices : Onward(deliveries[n], deliveries'[n]),
           \A n \in Notices : notices[n] = "none" => deliveries'[n] = deliveries[n],
           courier'.at # "idle" =>
                /\ notices[courier'.n] # "none"
                /\ deliveries'[courier'.n].version = courier'.version
                /\ courier'.at = "sent" /\ courier'.outcome = "delivered" =>
                        <<courier'.n, courier'.version>> \in accepted'
    PROVE  NoticeInv'
<1>1. HealthIsItsOwn'
  BY HealthStaysTrue
<1>2. NoticeTypeOK' /\ MadeWithItsNotice' /\ CourierIsTrue'
  BY DEF NoticeInv, NoticeTypeOK, MadeWithItsNotice, CourierIsTrue
<1> QED  BY <1>1, <1>2 DEF NoticeInv

\* What stays is onward of itself.
LEMMA SameIsOnward == ASSUME NoticeTypeOK PROVE \A n \in Notices : Onward(deliveries[n], deliveries[n])
BY DEF NoticeTypeOK, DeliveryRows, Onward

\* One delivery's row is replaced.
LEMMA DeliveryReplaced ==
    ASSUME NoticeInv, NEW n \in Notices, NEW d \in DeliveryRows, Onward(deliveries[n], d),
           deliveries' = [deliveries EXCEPT ![n] = d]
    PROVE  /\ deliveries' \in [Notices -> DeliveryRows]
           /\ \A m \in Notices : Onward(deliveries[m], deliveries'[m])
           /\ deliveries'[n] = d
           /\ \A m \in Notices : m # n => deliveries'[m] = deliveries[m]
BY SameIsOnward DEF NoticeInv, NoticeTypeOK

LEMMA NoticeInitInv == NoticeInit => NoticeInv
BY DEF NoticeInit, NoticeInv, NoticeTypeOK, DeliveryRows, Couriers, NoDelivery, NoWebhook, NoCourier,
   MadeWithItsNotice, CourierIsTrue, HealthIsItsOwn

LEMMA NotifyKeeps == NoticeInv /\ Notify => NoticeInv'
<1> SUFFICES ASSUME NoticeInv, Notify PROVE NoticeInv'
  OBVIOUS
<1>1. PICK n \in Notices :
        /\ notices[n] = "none"
        /\ notices' = [notices EXCEPT ![n] = "unread"]
        /\ deliveries' = IF webhook.enabled
                         THEN [deliveries EXCEPT ![n] = [NoDelivery EXCEPT !.status = "pending",
                                                            !.version = webhook.version]]
                         ELSE deliveries
  BY DEF Notify
<1> DEFINE d == IF webhook.enabled THEN [NoDelivery EXCEPT !.status = "pending", !.version = webhook.version]
                ELSE deliveries[n]
<1>2. UNCHANGED <<webhook, courier, accepted>>
  BY DEF Notify
<1>3. deliveries[n] = NoDelivery
  BY <1>1 DEF NoticeInv, MadeWithItsNotice
<1>4. d \in DeliveryRows
  BY <1>3 DEF NoticeInv, NoticeTypeOK, NoDelivery, DeliveryRows, Undecided
<1>5. deliveries' = [deliveries EXCEPT ![n] = d]
  BY <1>1 DEF NoticeInv, NoticeTypeOK
<1>6. d.tries = 0 /\ d.status \in {"none", "pending"}
  BY <1>3 DEF NoDelivery
<1> HIDE DEF d
<1>7. NoticeTypeOK' /\ MadeWithItsNotice'
  BY <1>1, <1>2, <1>4, <1>5 DEF NoticeInv, NoticeTypeOK, MadeWithItsNotice
<1>8. CourierIsTrue'
  BY <1>1, <1>2, <1>5 DEF NoticeInv, NoticeTypeOK, CourierIsTrue, Couriers, NoCourier
<1>9. \A m \in Notices : deliveries[m].status \in {"succeeded", "failed"} \/ deliveries[m].tries > 0
                            => m # n /\ deliveries'[m] = deliveries[m]
  BY <1>3, <1>5 DEF NoDelivery, NoticeInv, NoticeTypeOK
<1>10. \A m \in Notices : deliveries'[m].status = "succeeded" => deliveries'[m] = deliveries[m]
  BY <1>5, <1>6 DEF NoticeInv, NoticeTypeOK
<1>11. HealthIsItsOwn'
  BY <1>2, <1>9, <1>10 DEF HealthIsItsOwn, NoticeInv
<1> QED  BY <1>7, <1>8, <1>11 DEF NoticeInv

LEMMA MarkReadKeeps == ASSUME NEW marked \in SUBSET Notices, NoticeInv, MarkRead(marked) PROVE NoticeInv'
<1>1. UNCHANGED <<webhook, deliveries, courier, accepted>>
  BY DEF MarkRead
<1>2. notices' \in [Notices -> {"none", "unread", "read"}] /\ \A n \in Notices : notices'[n] = "none" <=> notices[n] = "none"
  BY DEF MarkRead, NoticeInv, NoticeTypeOK
<1>3. NoticeTypeOK' /\ MadeWithItsNotice' /\ CourierIsTrue'
  BY <1>1, <1>2 DEF NoticeInv, NoticeTypeOK, MadeWithItsNotice, CourierIsTrue, Couriers, NoCourier
<1> QED  BY <1>1, <1>3 DEF NoticeInv, HealthIsItsOwn

LEMMA SaveWebhookKeeps == NoticeInv /\ SaveWebhook => NoticeInv'
<1> SUFFICES ASSUME NoticeInv, SaveWebhook PROVE NoticeInv'
  OBVIOUS
<1>1. UNCHANGED <<notices, deliveries, courier, accepted>>
  BY DEF SaveWebhook
<1>2. webhook'.health = "unconfigured" /\ NoticeTypeOK'
  BY <1>1 DEF SaveWebhook, NoticeInv, NoticeTypeOK
<1>3. HealthIsItsOwn'
  BY <1>1, <1>2, UnknownIsTrue DEF NoticeInv, HealthIsItsOwn
<1> QED  BY <1>1, <1>2, <1>3 DEF NoticeInv, MadeWithItsNotice, CourierIsTrue

LEMMA DeleteWebhookKeeps == NoticeInv /\ DeleteWebhook => NoticeInv'
<1> SUFFICES ASSUME NoticeInv, DeleteWebhook PROVE NoticeInv'
  OBVIOUS
<1>1. UNCHANGED <<notices, courier, accepted>>
  BY DEF DeleteWebhook
<1>2. webhook'.health = "unconfigured"
  BY DEF DeleteWebhook, NoWebhook
<1>3. \A n \in Notices : /\ deliveries'[n] \in DeliveryRows
                         /\ deliveries'[n].version = deliveries[n].version
                         /\ deliveries'[n].status = "succeeded" => deliveries[n].status = "succeeded"
                         /\ notices[n] = "none" => deliveries'[n] = deliveries[n]
  <2> SUFFICES ASSUME NEW n \in Notices
               PROVE  /\ deliveries'[n] \in DeliveryRows
                      /\ deliveries'[n].version = deliveries[n].version
                      /\ deliveries'[n].status = "succeeded" => deliveries[n].status = "succeeded"
                      /\ notices[n] = "none" => deliveries'[n] = deliveries[n]
    OBVIOUS
  <2>1. deliveries[n] \in DeliveryRows
    BY DEF NoticeInv, NoticeTypeOK
  <2>2. deliveries'[n] = IF deliveries[n].status \in Undecided THEN Cancelled(deliveries[n]) ELSE deliveries[n]
    BY DEF DeleteWebhook
  <2>3. notices[n] = "none" => deliveries[n].status = "none"
    BY DEF NoticeInv, MadeWithItsNotice, NoDelivery
  <2> QED  BY <2>1, <2>2, <2>3, CancelledRow DEF Undecided
<1>4. deliveries' \in [Notices -> DeliveryRows] /\ NoticeTypeOK'
  BY <1>1, <1>3 DEF DeleteWebhook, NoticeInv, NoticeTypeOK, NoWebhook
<1>5. HealthIsItsOwn'
  BY <1>1, <1>2, <1>3, UnknownIsTrue DEF NoticeInv, HealthIsItsOwn
<1>6. MadeWithItsNotice' /\ CourierIsTrue'
  BY <1>1, <1>3 DEF NoticeInv, MadeWithItsNotice, CourierIsTrue, NoticeTypeOK, Couriers, NoCourier
<1> QED  BY <1>4, <1>5, <1>6 DEF NoticeInv

LEMMA ClaimDeliveryKeeps == NoticeInv /\ ClaimDelivery => NoticeInv'
<1> SUFFICES ASSUME NoticeInv, ClaimDelivery PROVE NoticeInv'
  OBVIOUS
<1> DEFINE swept == [n \in Notices |-> Swept(deliveries[n])]
           open == {n \in Notices : Claimable(swept[n])}
           n == CHOOSE m \in open : \A k \in open : m <= k
<1>1. UNCHANGED <<notices, webhook, accepted>>
  BY DEF ClaimDelivery
<1>2. \A m \in Notices : /\ swept[m] \in DeliveryRows
                         /\ Onward(deliveries[m], swept[m])
                         /\ notices[m] = "none" => swept[m] = deliveries[m] /\ swept[m].status = "none"
  <2>1. \A m \in Notices : deliveries[m] \in DeliveryRows
    BY DEF NoticeInv, NoticeTypeOK
  <2>2. \A m \in Notices : notices[m] = "none" => Swept(deliveries[m]) = deliveries[m] /\ deliveries[m].status = "none"
    BY DEF NoticeInv, MadeWithItsNotice, NoDelivery, Swept, Undecided
  <2> QED  BY <2>1, <2>2, SweptIsOnward
<1>3. CASE open = {}
  <2>1. deliveries' = swept /\ courier' = courier
    BY <1>3 DEF ClaimDelivery
  <2>2. courier'.at = "idle" /\ courier' \in Couriers
    BY <2>1 DEF ClaimDelivery, NoticeInv, NoticeTypeOK
  <2>3. deliveries' \in [Notices -> DeliveryRows]
    BY <1>2, <2>1
  <2> HIDE DEF swept
  <2> QED  BY <1>1, <1>2, <2>1, <2>2, <2>3, CourierMoves
<1>4. CASE open # {}
  <2>1. open \subseteq Nat
    BY NoticeAssumption
  <2>2. n \in open
    <3> HIDE DEF open
    <3> QED  BY <1>4, <2>1, LeastExists
  <2>3. /\ deliveries' = [swept EXCEPT ![n].status = "sending", ![n].tries = @ + 1,
                                       ![n].due = FALSE, ![n].expired = FALSE]
        /\ courier' = [at |-> "claimed", n |-> n, version |-> swept[n].version,
                       token |-> swept[n].tries + 1]
    BY <1>4 DEF ClaimDelivery
  <2> HIDE DEF n
  <2>4. n \in Notices /\ Claimable(swept[n])
    BY <2>2
  <2> HIDE DEF swept, open
  <2>5. swept \in [Notices -> DeliveryRows]
    BY <1>2 DEF swept
  <2> DEFINE d == [swept[n] EXCEPT !.status = "sending", !.tries = @ + 1, !.due = FALSE, !.expired = FALSE]
  <2>6. swept[n] \in DeliveryRows /\ swept[n].tries \in Nat /\ swept[n].version \in Nat
    BY <2>4, <2>5 DEF DeliveryRows
  <2>7. d \in DeliveryRows /\ d.version = swept[n].version /\ d.tries = swept[n].tries + 1 /\ d.status = "sending"
    <3> DEFINE next == swept[n].tries + 1
    <3>1. next \in Nat
      BY <2>6
    <3> HIDE DEF next
    <3>2. [swept[n] EXCEPT !.status = "sending", !.tries = next, !.due = FALSE, !.expired = FALSE] \in DeliveryRows
      BY <2>6, <3>1 DEF DeliveryRows, Undecided
    <3>3. d = [swept[n] EXCEPT !.status = "sending", !.tries = next, !.due = FALSE, !.expired = FALSE]
      BY <2>6 DEF DeliveryRows, next
    <3> HIDE DEF d
    <3>4. d.version = swept[n].version /\ d.tries = next /\ d.status = "sending"
      BY <2>6, <3>3 DEF DeliveryRows
    <3> QED  BY <3>2, <3>3, <3>4 DEF next
  <2>8. deliveries' = [swept EXCEPT ![n] = d]
    BY <2>3, <2>4, <2>5
  <2>9. swept[n].status \in {"pending", "retry-wait", "sending"}
    BY <2>4 DEF Claimable
  <2>10. deliveries[n] \in DeliveryRows /\ Onward(deliveries[n], swept[n])
    BY <1>2, <2>4 DEF NoticeInv, NoticeTypeOK
  <2>11. Onward(deliveries[n], d)
    <3> HIDE DEF d
    <3> QED  BY <2>6, <2>7, <2>9, <2>10 DEF Onward, DeliveryRows
  <2> HIDE DEF d
  <2>12. deliveries' \in [Notices -> DeliveryRows]
    BY <2>5, <2>7, <2>8
  <2>13. notices[n] # "none"
    BY <1>2, <2>4, <2>9
  <2>14. \A m \in Notices : Onward(deliveries[m], deliveries'[m]) /\ (notices[m] = "none" => deliveries'[m] = deliveries[m])
    BY <1>2, <2>5, <2>8, <2>11, <2>13
  <2>15. courier' \in Couriers /\ courier'.n = n /\ courier'.version = d.version /\ courier'.at = "claimed"
    BY <2>3, <2>4, <2>6, <2>7 DEF Couriers
  <2>16. deliveries'[n] = d
    BY <2>4, <2>5, <2>8
  <2> QED  BY <1>1, <2>12, <2>13, <2>14, <2>15, <2>16, CourierMoves
<1> QED  BY <1>3, <1>4

\* What the worker hears of its request.
LEMMA OutcomeIsTrue ==
    ASSUME NoticeInv, courier.at \in {"claimed", "sending"}, NEW o \in Outcomes, Outcome(o),
           o = "delivered" => <<courier.n, courier.version>> \in accepted',
           accepted \subseteq accepted', UNCHANGED <<notices, webhook, deliveries>>
    PROVE  NoticeInv'
<1>1. courier \in [at : {"claimed", "sending"}, n : Notices, version : Nat, token : Nat \ {0}]
  BY DEF NoticeInv, NoticeTypeOK, Couriers, NoCourier
<1>2. courier' \in Couriers /\ courier'.n = courier.n /\ courier'.version = courier.version
      /\ courier'.at = "sent" /\ courier'.outcome = o
  BY <1>1 DEF Outcome, Couriers
<1>3. notices[courier.n] # "none" /\ deliveries[courier.n].version = courier.version
  BY <1>1 DEF NoticeInv, CourierIsTrue
<1>4. deliveries' \in [Notices -> DeliveryRows]
  BY DEF NoticeInv, NoticeTypeOK
<1>5. \A n \in Notices : Onward(deliveries[n], deliveries'[n])
  BY SameIsOnward DEF NoticeInv
<1> QED  BY <1>2, <1>3, <1>4, <1>5, CourierMoves

LEMMA RecheckWebhookKeeps == NoticeInv /\ RecheckWebhook => NoticeInv'
<1> SUFFICES ASSUME NoticeInv, RecheckWebhook PROVE NoticeInv'
  OBVIOUS
<1>1. UNCHANGED <<notices, webhook, deliveries, accepted>> /\ courier.at = "claimed"
  BY DEF RecheckWebhook
<1>2. CASE InForce(courier.version) /\ Holds
  <2>1. courier' = [courier EXCEPT !.at = "sending"]
    BY <1>2 DEF RecheckWebhook
  <2>2. courier \in [at : {"claimed", "sending"}, n : Notices, version : Nat, token : Nat \ {0}]
    BY <1>1 DEF NoticeInv, NoticeTypeOK, Couriers, NoCourier
  <2>3. courier' \in Couriers /\ courier'.n = courier.n /\ courier'.version = courier.version /\ courier'.at = "sending"
    BY <2>1, <2>2 DEF Couriers
  <2> QED  BY <1>1, <2>3 DEF NoticeInv, NoticeTypeOK, MadeWithItsNotice, CourierIsTrue, HealthIsItsOwn
<1>3. CASE ~(InForce(courier.version) /\ Holds)
  BY <1>1, <1>3, OutcomeIsTrue DEF RecheckWebhook, Outcomes
<1> QED  BY <1>2, <1>3

LEMMA TransmitKeeps == NoticeInv /\ Transmit => NoticeInv'
<1> SUFFICES ASSUME NoticeInv, Transmit PROVE NoticeInv'
  OBVIOUS
<1>1. UNCHANGED <<notices, webhook, deliveries>> /\ courier.at = "sending"
  BY DEF Transmit
<1>2. CASE accepted' = accepted \cup {<<courier.n, courier.version>>} /\ (Outcome("delivered") \/ Outcome("retryable"))
  BY <1>1, <1>2, OutcomeIsTrue DEF Outcomes
<1>3. CASE UNCHANGED accepted /\ (Outcome("retryable") \/ Outcome("unauthorized") \/ Outcome("rejected"))
  BY <1>1, <1>3, OutcomeIsTrue DEF Outcomes
<1> QED  BY <1>2, <1>3 DEF Transmit

LEMMA SettleDeliveryKeeps == NoticeInv /\ SettleDelivery => NoticeInv'
<1> SUFFICES ASSUME NoticeInv, SettleDelivery PROVE NoticeInv'
  OBVIOUS
<1> DEFINE n == courier.n
           result == Settled(courier.outcome)
           held == Holds /\ ~deliveries[n].expired
           d == [deliveries[n] EXCEPT !.status = result[1]]
           own == InForce(courier.version)
<1>1. UNCHANGED <<notices, accepted>> /\ courier.at = "sent" /\ courier' = NoCourier
  BY DEF SettleDelivery
<1>2. /\ deliveries' = IF held THEN [deliveries EXCEPT ![n].status = result[1]] ELSE deliveries
      /\ webhook' = IF held /\ own THEN [webhook EXCEPT !.health = result[2]] ELSE webhook
  BY DEF SettleDelivery
<1>3. courier \in [at : {"sent"}, n : Notices, version : Nat, token : Nat \ {0}, outcome : Outcomes]
  BY <1>1 DEF NoticeInv, NoticeTypeOK, Couriers, NoCourier
<1>4. /\ result[1] \in {"cancelled", "succeeded", "retry-wait", "failed"}
      /\ result[2] \in {"unavailable", "healthy", "degraded", "unauthorized"}
      /\ result[1] = "succeeded" <=> own /\ courier.outcome = "delivered"
      /\ own /\ result[2] = "healthy" => result[1] = "succeeded"
      /\ own /\ result[2] = "unauthorized" => result[1] = "failed"
  <2>1. CASE ~own
    <3>1. result = <<"cancelled", "unavailable">>
      BY <2>1 DEF Settled
    <3> HIDE DEF result
    <3> QED  BY <2>1, <3>1
  <2>2. CASE own /\ courier.outcome = "delivered"
    BY <2>2 DEF Settled
  <2>3. CASE own /\ courier.outcome = "retryable" /\ courier.token < MaxTries
    BY <2>3 DEF Settled
  <2>4. CASE own /\ courier.outcome = "retryable" /\ ~(courier.token < MaxTries)
    BY <2>4 DEF Settled
  <2>5. CASE own /\ courier.outcome = "unauthorized"
    BY <2>5 DEF Settled
  <2>6. CASE own /\ courier.outcome = "rejected"
    BY <2>6 DEF Settled
  <2> QED  BY <1>3, <2>1, <2>2, <2>3, <2>4, <2>5, <2>6 DEF Outcomes
<1>5. deliveries[n] \in DeliveryRows /\ deliveries[n].version = courier.version /\ notices[n] # "none"
      /\ (courier.outcome = "delivered" => <<n, courier.version>> \in accepted)
  BY <1>1, <1>3 DEF NoticeInv, NoticeTypeOK, CourierIsTrue
<1> HIDE DEF result
<1>6. d \in DeliveryRows /\ d.status = result[1] /\ d.version = deliveries[n].version /\ d.tries = deliveries[n].tries
  BY <1>4, <1>5 DEF DeliveryRows, Undecided, DeliveryEnded
<1>7. CASE ~held
  <2>1. deliveries' = deliveries /\ webhook' = webhook
    BY <1>2, <1>7
  <2> QED  BY <1>1, <2>1 DEF NoticeInv, NoticeTypeOK, MadeWithItsNotice, CourierIsTrue, HealthIsItsOwn, Couriers, NoCourier
<1>8. CASE held
  <2>1. deliveries[n].status = "sending" /\ deliveries[n].tries = courier.token /\ courier.token > 0
    BY <1>3, <1>8 DEF Holds
  <2>2. deliveries' = [deliveries EXCEPT ![n] = d]
    BY <1>2, <1>8
  <2> HIDE DEF d, held
  <2>3. deliveries' \in [Notices -> DeliveryRows] /\ deliveries'[n] = d /\ \A m \in Notices : m # n => deliveries'[m] = deliveries[m]
    BY <1>3, <1>6, <2>2 DEF NoticeInv, NoticeTypeOK
  <2>4. MadeWithItsNotice' /\ CourierIsTrue'
    BY <1>1, <1>5, <2>3 DEF NoticeInv, MadeWithItsNotice, CourierIsTrue, NoCourier
  <2>5. CASE own
    <3>1. webhook' = [webhook EXCEPT !.health = result[2]] /\ webhook.version = courier.version
      BY <1>2, <1>8, <2>5 DEF InForce
    <3>2. NoticeTypeOK' /\ webhook'.health = result[2] /\ webhook'.version = webhook.version
      BY <1>1, <1>4, <2>3, <3>1 DEF NoticeInv, NoticeTypeOK, Couriers
    <3>3. \A m \in Notices : deliveries'[m].status = "succeeded" => <<m, deliveries'[m].version>> \in accepted
      BY <1>4, <1>5, <1>6, <2>3 DEF NoticeInv, HealthIsItsOwn
    <3>4. n \in Notices /\ deliveries'[n].version = webhook'.version /\ deliveries'[n].tries > 0
          /\ deliveries'[n].status = result[1]
      BY <1>3, <1>5, <1>6, <2>1, <2>3, <3>1, <3>2
    <3>5. HealthIsItsOwn'
      BY <1>1, <1>4, <2>5, <3>2, <3>3, <3>4 DEF HealthIsItsOwn
    <3> QED  BY <2>4, <3>2, <3>5 DEF NoticeInv
  <2>6. CASE ~own
    <3>1. webhook' = webhook /\ d.status # "succeeded"
      BY <1>2, <1>4, <1>6, <2>6
    <3>2. Onward(deliveries[n], d)
      BY <1>5, <1>6, <2>1, <3>1 DEF Onward, DeliveryRows
    <3>3. \A m \in Notices : Onward(deliveries[m], deliveries'[m])
      BY <2>3, <3>2, SameIsOnward DEF NoticeInv
    <3>4. HealthIsItsOwn'
      BY <1>1, <2>3, <3>1, <3>3, HealthStaysTrue
    <3>5. NoticeTypeOK'
      BY <1>1, <2>3, <3>1 DEF NoticeInv, NoticeTypeOK, Couriers
    <3> QED  BY <2>4, <3>4, <3>5 DEF NoticeInv
  <2> QED  BY <2>5, <2>6
<1> QED  BY <1>7, <1>8

\* The worker's hold is not touched, and one delivery's mark is.
LEMMA TimeKeeps ==
    ASSUME NoticeInv, NEW n \in Notices, DeliveryLeaseExpires(n) \/ RetryComesDue(n)
    PROVE  NoticeInv'
<1> DEFINE d == IF deliveries[n].status = "sending" THEN [deliveries[n] EXCEPT !.expired = TRUE]
                ELSE [deliveries[n] EXCEPT !.due = TRUE]
<1>1. UNCHANGED <<notices, webhook, courier, accepted>> /\ deliveries[n].status \in {"sending", "retry-wait"}
      /\ deliveries' = [deliveries EXCEPT ![n] = d]
  BY DEF DeliveryLeaseExpires, RetryComesDue
<1>2. deliveries[n] \in DeliveryRows /\ notices[n] # "none"
  BY <1>1 DEF NoticeInv, NoticeTypeOK, MadeWithItsNotice, NoDelivery
<1>3. d \in DeliveryRows /\ Onward(deliveries[n], d)
  <2>1. [deliveries[n] EXCEPT !.expired = TRUE] \in DeliveryRows /\ [deliveries[n] EXCEPT !.due = TRUE] \in DeliveryRows
    BY <1>2 DEF DeliveryRows
  <2>2. /\ d.version = deliveries[n].version /\ d.tries = deliveries[n].tries /\ d.tries >= deliveries[n].tries
        /\ d.status = deliveries[n].status
    BY <1>2 DEF DeliveryRows
  <2> QED  BY <2>1, <2>2 DEF Onward
<1> HIDE DEF d
<1>4. /\ deliveries' \in [Notices -> DeliveryRows]
      /\ \A m \in Notices : Onward(deliveries[m], deliveries'[m])
      /\ \A m \in Notices : m # n => deliveries'[m] = deliveries[m]
  BY <1>1, <1>3, DeliveryReplaced
<1>5. courier \in Couriers /\ (courier.at # "idle" => courier.n \in Notices)
  BY DEF NoticeInv, NoticeTypeOK, Couriers, NoCourier
<1>6. courier.at # "idle" =>
                /\ notices[courier.n] # "none"
                /\ deliveries'[courier.n].version = courier.version
                /\ courier.at = "sent" /\ courier.outcome = "delivered" =>
                        <<courier.n, courier.version>> \in accepted'
  BY <1>1, <1>4, <1>5 DEF NoticeInv, CourierIsTrue, Onward
<1>7. \A m \in Notices : notices[m] = "none" => deliveries'[m] = deliveries[m]
  BY <1>2, <1>4
<1> QED  BY <1>1, <1>4, <1>5, <1>6, <1>7, CourierMoves

LEMMA DropDeliveryKeeps == NoticeInv /\ DropDelivery => NoticeInv'
BY DEF DropDelivery, NoticeInv, NoticeTypeOK, MadeWithItsNotice, CourierIsTrue, HealthIsItsOwn, Couriers, NoCourier

LEMMA NoticeNextInv == NoticeInv /\ [NoticeNext]_noticeVars => NoticeInv'
<1> SUFFICES ASSUME NoticeInv, [NoticeNext]_noticeVars PROVE NoticeInv'
  OBVIOUS
<1>1. CASE Notify \/ SaveWebhook \/ DeleteWebhook
  BY <1>1, NotifyKeeps, SaveWebhookKeeps, DeleteWebhookKeeps
<1>2. CASE \E marked \in SUBSET Notices : MarkRead(marked)
  BY <1>2, MarkReadKeeps
<1>3. CASE \E n \in Notices : DeliveryLeaseExpires(n) \/ RetryComesDue(n)
  BY <1>3, TimeKeeps
<1>4. CASE ClaimDelivery \/ RecheckWebhook \/ Transmit \/ SettleDelivery \/ DropDelivery
  BY <1>4, ClaimDeliveryKeeps, RecheckWebhookKeeps, TransmitKeeps, SettleDeliveryKeeps, DropDeliveryKeeps
<1>5. CASE UNCHANGED noticeVars
  BY <1>5 DEF noticeVars, NoticeInv, NoticeTypeOK, MadeWithItsNotice, CourierIsTrue, HealthIsItsOwn
<1> QED  BY <1>1, <1>2, <1>3, <1>4, <1>5 DEF NoticeNext

\* For any notices, any number of attempts, changes of the webhook and faults: a delivery reported
\* as made was taken by the endpoint of its own configuration, and the health that is shown was
\* told by a delivery of the configuration in force (claim and finish of the delivery store).
THEOREM HealthIsTold == NoticeSpec => []HealthIsItsOwn
<1>1. NoticeSpec => []NoticeInv
  BY NoticeInitInv, NoticeNextInv, PTL DEF NoticeSpec
<1>2. NoticeInv => HealthIsItsOwn
  BY DEF NoticeInv
<1> QED  BY <1>1, <1>2, PTL

-----------------------------------------------------------------------------
(* Downloader protocols. *)

Peers ==
    [of : Transmissions \cup Qbittorrents, session : Nat, torrent : {"none", "late", "hidden", "listed"},
     taken : {0, 1}, renewed : Nat]

ClientCalls ==
    [at : {"start", "info", "act", "version", "tags", "add", "query", "ended"}, op : Operations,
     session : Nat, codec : Codecs \cup {"none"},
     answer : {"none", "done", "missing", "invalid", "unsupported", "unauthorized", "timeout", "unavailable"},
     again : BOOLEAN, faulty : BOOLEAN]

\* A late add has not been executed, and nobody was answered it; a torrent that is there was taken.
PeerTells(p, c) ==
    /\ p.torrent = "late" => p.taken = 0 /\ c.faulty
    /\ p.torrent \in {"hidden", "listed"} => p.taken = 1

\* What the answer of a call says of the downloader.
AnswerTells(p, c) ==
    c.op = "add" =>
        /\ c.answer = "done" => p.torrent = "listed"
        /\ c.answer = "missing" /\ ~c.faulty => p.taken = 1
        /\ c.answer \in {"invalid", "unsupported"} /\ ~c.faulty => p.taken = 0 /\ p.torrent = "none"

\* No request before the adding one takes the torrent, the query by tag follows an accepted add
\* or one that was not answered, and a call that has not ended answers nothing.
ClientInv ==
    /\ peer \in Peers /\ call \in ClientCalls
    /\ PeerTells(peer, call) /\ AnswerTells(peer, call)
    /\ call.at \notin {"query", "ended"} => peer.taken = 0 /\ peer.torrent = "none"
    /\ call.at = "query" /\ call.op = "add" /\ ~call.faulty => peer.taken = 1
    /\ call.at # "ended" => call.answer = "none"
    /\ call.at = "version" => call.op = "probe"

\* A request that changes nothing at the downloader: the call goes on, or it ends with an answer
\* that is true.
LEMMA CallGoesOn ==
    ASSUME ClientInv, UNCHANGED peer, call' \in ClientCalls, call'.op = call.op, call.at # "ended",
           call.faulty => call'.faulty,
           call'.at \notin {"query", "ended"} => call.at # "query",
           call'.at = "query" => call.op # "add" \/ call'.faulty \/ call.at = "query",
           call'.at # "ended" => call'.answer = "none",
           call'.at = "version" => call.op = "probe",
           AnswerTells(peer, call')
    PROVE  ClientInv'
<1>1. PeerTells(peer, call')
  BY DEF ClientInv, PeerTells
<1> QED  BY <1>1 DEF ClientInv, PeerTells, AnswerTells

LEMMA ClientInitInv == ClientInit => ClientInv
BY DEF ClientInit, ClientInv, PeerTells, AnswerTells, Untouched, Begun, Peers, ClientCalls, Operations, Codecs

\* Ending with an answer that says nothing of the torrent, or that nobody knows what became of it.
LEMMA EndsOtherwise ==
    ASSUME ClientInv, UNCHANGED peer, call.at # "ended",
           \/ \E answer \in {"invalid", "unsupported", "unauthorized", "timeout", "unavailable"} : Fails(answer)
           \/ Ended("unauthorized")
           \/ /\ \E answer \in {"invalid", "unsupported"} : Ended(answer)
              /\ call.op = "add" => call.at # "query"
    PROVE  ClientInv'
<1>1. call' \in ClientCalls /\ call'.op = call.op /\ call'.at = "ended"
      /\ call'.answer \in {"invalid", "unsupported", "unauthorized", "timeout", "unavailable"}
      /\ (call.faulty => call'.faulty)
  BY DEF Ended, Fails, ClientInv, ClientCalls
<1>2. \/ call'.faulty \/ call'.answer = "unauthorized"
      \/ call.op = "add" => call.at # "query"
  BY DEF Ended, Fails, ClientInv, ClientCalls
<1>3. AnswerTells(peer, call')
  BY <1>1, <1>2 DEF ClientInv, AnswerTells
<1> QED  BY <1>1, <1>3, CallGoesOn

\* A call that goes on to another request answers nothing yet.
LEMMA CallContinues ==
    ASSUME ClientInv, UNCHANGED peer, call' \in ClientCalls, call'.op = call.op,
           call'.faulty = call.faulty, call'.answer = call.answer,
           call.at \notin {"query", "ended"}, call'.at # "ended",
           call'.at = "version" => call.op = "probe",
           call'.at = "query" => call.op # "add"
    PROVE  ClientInv'
<1>1. AnswerTells(peer, call')
  BY DEF ClientInv, AnswerTells
<1> QED  BY <1>1, CallGoesOn DEF ClientInv

\* A call that was not to add anything tells nothing of a torrent.
LEMMA OtherCallEnds ==
    ASSUME ClientInv, UNCHANGED peer, call' \in ClientCalls, call'.op = call.op, call'.faulty = call.faulty,
           call.op # "add", call.at # "ended", call'.at = "ended"
    PROVE  ClientInv'
<1>1. AnswerTells(peer, call')
  BY DEF AnswerTells
<1> QED  BY <1>1, CallGoesOn

\* A refused session is taken over, once.
LEMMA RefusedKeeps == ASSUME ClientInv, UNCHANGED peer, call.at \in {"info", "act"}, Refused PROVE ClientInv'
<1>1. CASE call.again
  BY <1>1, EndsOtherwise DEF Refused
<1>2. CASE ~call.again
  <2>1. call' \in ClientCalls /\ call'.op = call.op /\ call'.at = call.at /\ call'.answer = call.answer
        /\ call'.faulty = call.faulty
    BY <1>2 DEF Refused, ClientInv, ClientCalls, Peers
  <2> QED  BY <2>1, CallContinues
<1> QED  BY <1>1, <1>2

LEMMA NegotiatedKeeps ==
    ASSUME ClientInv, UNCHANGED peer, call.at \in {"start", "info"}, NEW codec \in Codecs \cup {"none"}, Negotiated(codec)
    PROVE  ClientInv'
<1>1. CASE ~Understood(codec) \/ ~peer.of.supported \/ codec # peer.of.speaks
  BY <1>1, EndsOtherwise DEF Negotiated
<1>2. CASE Understood(codec) /\ peer.of.supported /\ codec = peer.of.speaks
  <2>1. call' = [call EXCEPT !.at = IF call.op = "probe" THEN "ended" ELSE "act",
                             !.answer = IF call.op = "probe" THEN "done" ELSE @,
                             !.codec = codec, !.again = FALSE]
    BY <1>2 DEF Negotiated
  <2>2. call' \in ClientCalls /\ call'.op = call.op /\ call'.faulty = call.faulty
    BY <2>1 DEF ClientInv, ClientCalls
  <2>3. call'.at = (IF call.op = "probe" THEN "ended" ELSE "act")
        /\ call'.answer = IF call.op = "probe" THEN "done" ELSE call.answer
    BY <2>1 DEF ClientInv, ClientCalls
  <2>4. CASE call.op = "probe"
    BY <2>2, <2>3, <2>4, OtherCallEnds
  <2>5. CASE call.op # "probe"
    BY <2>2, <2>3, <2>5, CallContinues
  <2> QED  BY <2>4, <2>5
<1> QED  BY <1>1, <1>2

LEMMA HelloKeeps == ASSUME ClientInv, Hello PROVE ClientInv'
<1>0. call.at = "start" /\ UNCHANGED peer
  BY DEF Hello
<1>1. CASE peer.of.protected /\ peer.of.hints /\ ~peer.of.supported
  BY <1>0, <1>1, EndsOtherwise DEF Hello
<1>2. CASE peer.of.protected /\ ~(peer.of.hints /\ ~peer.of.supported)
  <2>0. peer.of \in Transmissions
    BY DEF Hello, ClientInv, Peers, Transmissions, Qbittorrents
  <2>1. call' = [call EXCEPT !.at = "info", !.session = peer.session,
                             !.codec = IF peer.of.hints THEN peer.of.speaks ELSE "legacy"]
    BY <1>2 DEF Hello
  <2>2. call' \in ClientCalls /\ call'.op = call.op /\ call'.at = "info" /\ call'.answer = call.answer
        /\ call'.faulty = call.faulty
    BY <2>0, <2>1 DEF ClientInv, ClientCalls, Peers, Transmissions, Codecs
  <2> QED  BY <1>0, <2>2, CallContinues
<1>3. CASE ~peer.of.protected
  BY <1>0, <1>3, NegotiatedKeeps DEF Hello, Codecs
<1> QED  BY <1>1, <1>2, <1>3

LEMMA AskInfoKeeps == ASSUME ClientInv, AskInfo PROVE ClientInv'
<1>1. CASE Accepts(call.session)
  <2>1. call.codec \in Codecs \cup {"none"}
    BY DEF ClientInv, ClientCalls
  <2> QED  BY <1>1, <2>1, NegotiatedKeeps DEF AskInfo
<1>2. CASE ~Accepts(call.session)
  BY <1>2, RefusedKeeps DEF AskInfo
<1> QED  BY <1>1, <1>2

\* The torrent arrives.
LEMMA TakenIsThere ==
    ASSUME ClientInv, peer.taken = 0, NEW how \in {"hidden", "listed"}
    PROVE  Taken(how) \in Peers /\ Taken(how).taken = 1 /\ Taken(how).torrent = how
<1>1. peer.taken + 1 = 1 /\ peer \in Peers
  BY DEF ClientInv
<1>2. Taken(how) = [peer EXCEPT !.taken = 1, !.torrent = how]
  BY <1>1 DEF Taken, Peers
<1>3. [peer EXCEPT !.taken = 1, !.torrent = how] \in Peers
  BY <1>1 DEF Peers
<1> QED  BY <1>1, <1>2, <1>3 DEF Peers

LEMMA AcceptedIsTaken ==
    ASSUME ClientInv, peer.taken = 0, Accepted
    PROVE  peer' \in Peers /\ peer'.taken = 1 /\ peer'.torrent \in {"hidden", "listed"}
BY TakenIsThere DEF Accepted

LEMMA ActKeeps == ASSUME ClientInv, Act PROVE ClientInv'
<1>0. call.at = "act"
  BY DEF Act
<1>1. CASE ~Accepts(call.session)
  BY <1>0, <1>1, RefusedKeeps DEF Act
<1>2. CASE Accepts(call.session) /\ call.op = "add" /\ peer' = Taken("listed")
                                /\ (Ended("done") \/ LostAnswer \/ Fails("invalid"))
  <2>1. peer' \in Peers /\ peer'.taken = 1 /\ peer'.torrent = "listed"
    BY <1>0, <1>2, TakenIsThere DEF ClientInv
  <2>2. /\ call' \in ClientCalls /\ call'.op = "add" /\ call'.at = "ended"
        /\ call'.answer = "done" \/ (call'.answer \in {"invalid", "timeout", "unavailable"} /\ call'.faulty)
    <3>1. CASE Ended("done")
      BY <1>0, <1>2, <3>1 DEF Ended, ClientInv, ClientCalls
    <3>2. CASE LostAnswer \/ Fails("invalid")
      BY <1>0, <1>2, <3>2 DEF LostAnswer, Fails, ClientInv, ClientCalls
    <3> QED  BY <1>2, <3>1, <3>2
  <2> QED  BY <2>1, <2>2 DEF ClientInv, PeerTells, AnswerTells
<1>3. CASE Accepts(call.session) /\ call.op = "add" /\ Ended("invalid") /\ UNCHANGED peer
  BY <1>0, <1>3, EndsOtherwise
<1>4. CASE Accepts(call.session) /\ call.op # "add"
  <2>1. call' \in ClientCalls /\ call'.op = call.op /\ call'.at = "ended" /\ call'.faulty = call.faulty
        /\ UNCHANGED peer
    BY <1>0, <1>4 DEF Act, Ended, ClientInv, ClientCalls
  <2> QED  BY <1>0, <1>4, <2>1, OtherCallEnds
<1> QED  BY <1>1, <1>2, <1>3, <1>4 DEF Act

LEMMA LogInKeeps == ASSUME ClientInv, LogIn PROVE ClientInv'
<1> DEFINE next == CASE call.op = "probe" -> "version" [] call.op = "add" -> "tags" [] call.op = "fetch" -> "query"
<1>1. call.op \in Operations /\ peer.session \in Nat
  BY DEF ClientInv, ClientCalls, Peers
<1>2. /\ next \in {"version", "tags", "query"}
      /\ next = "version" => call.op = "probe"
      /\ next = "query" => call.op # "add"
  BY <1>1 DEF Operations
<1>3. call' = [call EXCEPT !.session = peer.session, !.at = next] /\ call.at = "start" /\ UNCHANGED peer
  BY DEF LogIn
<1> HIDE DEF next
<1>4. call' \in ClientCalls /\ call'.op = call.op /\ call'.at = next /\ call'.answer = call.answer
      /\ call'.faulty = call.faulty
  BY <1>1, <1>2, <1>3 DEF ClientInv, ClientCalls
<1> QED  BY <1>2, <1>3, <1>4, CallContinues

LEMMA ReadVersionKeeps == ASSUME ClientInv, ReadVersion PROVE ClientInv'
<1>1. call.at = "version" /\ call.op = "probe" /\ UNCHANGED peer
  BY DEF ReadVersion, ClientInv
<1>2. call' \in ClientCalls /\ call'.op = call.op /\ call'.at = "ended" /\ call'.faulty = call.faulty
  BY DEF ReadVersion, Ended, ClientInv, ClientCalls
<1> QED  BY <1>1, <1>2, OtherCallEnds

LEMMA CreateTagsKeeps == ASSUME ClientInv, CreateTags PROVE ClientInv'
<1>0. call.at = "tags" /\ UNCHANGED peer
  BY DEF CreateTags
<1>1. CASE Goes("add")
  <2>1. call' \in ClientCalls /\ call'.op = call.op /\ call'.at = "add" /\ call'.answer = call.answer
        /\ call'.faulty = call.faulty
    BY <1>1 DEF Goes, ClientInv, ClientCalls
  <2> QED  BY <1>0, <2>1, CallContinues
<1>2. CASE Ended("invalid") \/ Ended("unauthorized")
  BY <1>0, <1>2, EndsOtherwise
<1> QED  BY <1>1, <1>2 DEF CreateTags

LEMMA AddTorrentKeeps == ASSUME ClientInv, AddTorrent PROVE ClientInv'
<1>0. call.at = "add" /\ call.answer = "none" /\ peer.taken = 0 /\ peer.torrent = "none"
  BY DEF AddTorrent, ClientInv
<1>1. CASE (Ended("unauthorized") \/ Ended("invalid")) /\ UNCHANGED peer
  BY <1>0, <1>1, EndsOtherwise
<1>2. CASE Goes("query") /\ Accepted
  <2>1. peer' \in Peers /\ peer'.taken = 1 /\ peer'.torrent \in {"hidden", "listed"}
    BY <1>0, <1>2, AcceptedIsTaken
  <2>2. call' \in ClientCalls /\ call'.at = "query" /\ call'.answer = "none"
    BY <1>0, <1>2 DEF Goes, ClientInv, ClientCalls
  <2> QED  BY <2>1, <2>2 DEF ClientInv, PeerTells, AnswerTells
<1>3. CASE Fails("invalid") /\ Accepted
  <2>1. peer' \in Peers /\ peer'.taken = 1 /\ peer'.torrent \in {"hidden", "listed"}
    BY <1>0, <1>3, AcceptedIsTaken
  <2>2. call' \in ClientCalls /\ call'.at = "ended" /\ call'.answer = "invalid" /\ call'.faulty
    BY <1>0, <1>3 DEF Fails, ClientInv, ClientCalls
  <2> QED  BY <2>1, <2>2 DEF ClientInv, PeerTells, AnswerTells
<1>4. CASE call' = [call EXCEPT !.at = "query", !.faulty = TRUE]
           /\ (UNCHANGED peer \/ peer' = [peer EXCEPT !.torrent = "late"] \/ Accepted)
  <2>1. call' \in ClientCalls /\ call'.at = "query" /\ call'.answer = "none" /\ call'.faulty
    BY <1>0, <1>4 DEF ClientInv, ClientCalls
  <2>2. /\ peer' \in Peers
        /\ peer'.torrent = "late" => peer'.taken = 0
        /\ peer'.torrent \in {"hidden", "listed"} => peer'.taken = 1
    <3>1. CASE UNCHANGED peer \/ peer' = [peer EXCEPT !.torrent = "late"]
      BY <1>0, <3>1 DEF ClientInv, Peers
    <3>2. CASE Accepted
      BY <1>0, <3>2, AcceptedIsTaken
    <3> QED  BY <1>4, <3>1, <3>2
  <2> QED  BY <2>1, <2>2 DEF ClientInv, PeerTells, AnswerTells
<1> QED  BY <1>1, <1>2, <1>3, <1>4 DEF AddTorrent

LEMMA QueryTagKeeps == ASSUME ClientInv, QueryTag PROVE ClientInv'
<1> DEFINE answer == IF ~Cookie THEN "unauthorized" ELSE IF call.op = "add" THEN Confirmed ELSE "done"
<1>1. call.at = "query" /\ UNCHANGED peer /\ Ended(answer)
  BY DEF QueryTag
<1>2. answer \in {"unauthorized", "done", "missing"}
      /\ (call.op = "add" /\ answer = "done" => peer.torrent = "listed")
  BY DEF Confirmed
<1> HIDE DEF answer
<1>3. call' \in ClientCalls /\ call'.op = call.op /\ call'.at = "ended" /\ call'.answer = answer
      /\ call'.faulty = call.faulty
  BY <1>1, <1>2 DEF Ended, ClientInv, ClientCalls
<1>4. AnswerTells(peer, call')
  BY <1>1, <1>2, <1>3 DEF ClientInv, AnswerTells
<1> QED  BY <1>1, <1>3, <1>4, CallGoesOn

LEMMA LoseRequestKeeps == ASSUME ClientInv, LoseRequest PROVE ClientInv'
BY EndsOtherwise DEF LoseRequest, LostAnswer

LEMMA RenewKeeps == ASSUME ClientInv, Renew PROVE ClientInv'
<1>1. peer.session + 1 \in Nat /\ peer.renewed + 1 \in Nat
  BY DEF ClientInv, Peers
<1>2. peer' \in Peers /\ peer'.taken = peer.taken /\ peer'.torrent = peer.torrent
  BY <1>1 DEF Renew, ClientInv, Peers
<1> QED  BY <1>2 DEF Renew, ClientInv, PeerTells, AnswerTells

\* Nobody was told anything of a late add.
LEMMA ArrivesKeeps == ASSUME ClientInv, Arrives PROVE ClientInv'
<1>1. /\ peer.torrent = "late" /\ peer.taken = 0 /\ call.faulty /\ UNCHANGED call
      /\ call.at \in {"query", "ended"} /\ ~(call.op = "add" /\ call.answer = "done")
  BY DEF Arrives, ClientInv, PeerTells, AnswerTells
<1>2. peer' \in Peers /\ peer'.torrent # "late" /\ (peer'.torrent \in {"hidden", "listed"} => peer'.taken = 1)
  <2>1. CASE Cookie
    BY <1>1, <2>1, AcceptedIsTaken DEF Arrives
  <2>2. CASE ~Cookie
    BY <2>2 DEF Arrives, ClientInv, Peers
  <2> QED  BY <2>1, <2>2
<1> QED  BY <1>1, <1>2 DEF ClientInv, PeerTells, AnswerTells

LEMMA TorrentListedKeeps == ASSUME ClientInv, TorrentListed PROVE ClientInv'
<1>1. peer.torrent = "hidden" /\ peer.taken = 1 /\ UNCHANGED call
  BY DEF TorrentListed, ClientInv, PeerTells
<1>2. peer' \in Peers /\ peer'.torrent \in {"listed", "none"} /\ peer'.taken = 1
  BY <1>1 DEF TorrentListed, ClientInv, Peers
<1> QED  BY <1>1, <1>2 DEF ClientInv, PeerTells, AnswerTells

LEMMA ClientNextInv == ClientInv /\ [ClientNext]_clientVars => ClientInv'
<1>1. ASSUME ClientInv, UNCHANGED clientVars PROVE ClientInv'
  BY <1>1 DEF clientVars, ClientInv, PeerTells, AnswerTells
<1> QED
  BY <1>1, HelloKeeps, AskInfoKeeps, ActKeeps, LogInKeeps, ReadVersionKeeps, CreateTagsKeeps, AddTorrentKeeps,
     QueryTagKeeps, LoseRequestKeeps, RenewKeeps, ArrivesKeeps, TorrentListedKeeps DEF ClientNext

\* However often a downloader renews its session, whatever answers are lost, however late an add
\* is executed or listed: a torrent said to be added is listed, one said to be missing was taken
\* if nothing was lost, a refusal that could be read is one, and the torrent was taken once at
\* most (add and the query by tag of the qBittorrent client, valid_add_response,
\* send_with_session_retry of the Transmission client).
THEOREM CallsTellTheTruth == ClientSpec => []CallTellsTruth
<1>1. ClientSpec => []ClientInv
  BY ClientInitInv, ClientNextInv, PTL DEF ClientSpec
<1>2. ClientInv => CallTellsTruth
  BY DEF ClientInv, AnswerTells, CallTellsTruth, Peers
<1> QED  BY <1>1, <1>2, PTL

-----------------------------------------------------------------------------
(* Organization plans. *)

Drafts == [row : Nat, rules : Nat, automatic : BOOLEAN, matches : BOOLEAN, taken : BOOLEAN]
Approvals == {NoApproval} \cup [key : PlanKeys, shown : Nat]
PlanRows == [draft : Drafts, approval : Approvals]
PlanStatuses == {"queued", "running", "paused", "filing", "review", "ran"}

Planners ==
    {IdlePlanner} \cup [at : {"row"}] \cup [at : {"rules"}, row : Nat \ {0}]
    \cup [at : {"compare", "persist"}, draft : Drafts]
    \cup [at : {"finish"}, plan : Nat, go : BOOLEAN]

PlanRequests ==
    {NoPlanRequest}
    \cup [at : {"row"}, key : PlanKeys, saw : PlanStatuses]
    \cup [at : {"rules"}, key : PlanKeys, saw : PlanStatuses, row : Nat \ {0}]
    \cup [at : {"recalculate"}, key : PlanKeys, saw : PlanStatuses, draft : Drafts]
    \cup [at : {"check", "execute", "deliver"}, kind : {"execute", "deliver"}, key : PlanKeys,
          saw : PlanStatuses, version : Nat \ {0}]
    \cup [at : {"approve"}, key : PlanKeys, saw : PlanStatuses, version : Nat, plan : Nat \ {0}]
    \cup [at : {"resume"}, saw : PlanStatuses]

PlanTypeOK ==
    /\ target \in [exists : BOOLEAN, saved : Seq(TargetConfigs)]
    /\ target.saved # <<>>
    /\ taken \in BOOLEAN
    /\ plans \in Seq(PlanRows)
    /\ planning \in [status : PlanStatuses, ran : Nat]
    /\ planner \in Planners
    /\ requests \in [Callers -> PlanRequests]

\* What was read of the target was saved, and what is asked for was drawn.
ReadWasSaved ==
    /\ planner.at = "rules" => planner.row <= Len(target.saved)
    /\ \A c \in Callers :
        /\ requests[c].at = "rules" => requests[c].row <= Len(target.saved)
        /\ requests[c].at \in {"check", "execute"} => plans # <<>>

\* A person's approval, given or under way, is of a plan that leaves nothing at its destination over.
ApprovalsAreOverridable ==
    /\ \A p \in 1 .. Len(plans) : Approved(p) => Overridable(plans[p].draft)
    /\ \A c \in Callers : requests[c].at = "approve" =>
        requests[c].plan <= Len(plans) /\ Overridable(plans[requests[c].plan].draft)

\* What ran is a plan, and was allowed.
RanWasAuthorized == planning.ran \in 0 .. Len(plans) /\ OnlyAuthorizedRuns

PlanInv == PlanTypeOK /\ ReadWasSaved /\ ApprovalsAreOverridable /\ RanWasAuthorized

\* Plans and configurations are only added, and plans only approved.
Lasting ==
    /\ Len(target'.saved) >= Len(target.saved)
    /\ Len(plans') >= Len(plans)
    /\ \A p \in 1 .. Len(plans) : plans'[p].draft = plans[p].draft /\ (Approved(p) => Approved(p)')

LEMMA DrawnIsDraft ==
    ASSUME PlanTypeOK, NEW row \in Nat \ {0}, row <= Len(target.saved)
    PROVE  Drawn(row, RulesNow, taken) \in Drafts
<1> DEFINE saved == target.saved
<1>0. saved \in Seq(TargetConfigs) /\ saved # <<>> /\ row <= Len(saved)
  BY DEF PlanTypeOK
<1> HIDE DEF saved
<1>1. saved[row] \in TargetConfigs
  BY <1>0
<1>2. Len(saved) \in Nat \ {0} /\ saved[Len(saved)] \in TargetConfigs
  BY <1>0
<1>3. RulesNow \in Nat /\ (RulesNow # 0 => target.saved[RulesNow].matches \in BOOLEAN)
  BY <1>2 DEF RulesNow, TargetConfigs, saved
<1>4. (RulesNow # 0 /\ target.saved[RulesNow].matches) \in BOOLEAN /\ taken \in BOOLEAN
  BY DEF PlanTypeOK
<1>5. target.saved[row].automatic \in BOOLEAN
  BY <1>1 DEF TargetConfigs, saved
<1> QED  BY <1>3, <1>4, <1>5 DEF Drawn, Drafts

\* A step that leaves the plans, the target's rows but for new ones, and what ran alone.
LEMMA PlansStay ==
    ASSUME PlanInv, UNCHANGED plans, PlanTypeOK', Len(target'.saved) >= Len(target.saved),
           planning'.ran = planning.ran,
           planner' = planner \/ (planner'.at = "rules" => planner'.row <= Len(target'.saved)),
           \A c \in Callers : \/ requests'[c] = requests[c]
                              \/ /\ requests'[c].at = "rules" => requests'[c].row <= Len(target'.saved)
                                 /\ requests'[c].at \in {"check", "execute"} => plans # <<>>
                                 /\ requests'[c].at = "approve" =>
                                        requests'[c].plan <= Len(plans)
                                        /\ Overridable(plans[requests'[c].plan].draft)
    PROVE  PlanInv'
<1>1. Len(target.saved) \in Nat /\ Len(target'.saved) \in Nat
  BY DEF PlanInv, PlanTypeOK
<1>2. planner.at = "rules" => planner.row \in Nat
  BY DEF PlanInv, PlanTypeOK, Planners, IdlePlanner
<1>3. \A c \in Callers : requests[c].at = "rules" => requests[c].row \in Nat
  BY DEF PlanInv, PlanTypeOK, PlanRequests, NoPlanRequest
<1>4. ReadWasSaved'
  <2>1. planner'.at = "rules" => planner'.row <= Len(target'.saved)
    BY <1>1, <1>2 DEF PlanInv, ReadWasSaved
  <2>2. ASSUME NEW c \in Callers
        PROVE  /\ requests'[c].at = "rules" => requests'[c].row <= Len(target'.saved)
               /\ requests'[c].at \in {"check", "execute"} => plans' # <<>>
    BY <1>1, <1>3 DEF PlanInv, ReadWasSaved
  <2> QED  BY <2>1, <2>2 DEF ReadWasSaved
<1>5. ApprovalsAreOverridable'
  BY DEF PlanInv, ApprovalsAreOverridable, Approved
<1>6. RanWasAuthorized'
  BY DEF PlanInv, RanWasAuthorized, OnlyAuthorizedRuns, Approved
<1> QED  BY <1>4, <1>5, <1>6 DEF PlanInv

\* Only one request moves.
LEMMA RequestMoves ==
    ASSUME PlanInv, NEW c \in Callers, NEW r \in PlanRequests, Turn(c, r),
           UNCHANGED <<target, taken, plans, planner>>, planning' \in [status : PlanStatuses, ran : Nat],
           planning'.ran = planning.ran,
           r.at = "rules" => r.row <= Len(target.saved),
           r.at \in {"check", "execute"} => plans # <<>>,
           r.at = "approve" => r.plan <= Len(plans) /\ Overridable(plans[r.plan].draft)
    PROVE  PlanInv'
<1>1. PlanTypeOK'
  BY DEF PlanInv, PlanTypeOK, Turn
<1>2. \A d \in Callers : requests'[d] = IF d = c THEN r ELSE requests[d]
  BY DEF PlanInv, PlanTypeOK, Turn
<1>3. Len(target'.saved) >= Len(target.saved)
  BY DEF PlanInv, PlanTypeOK
<1> QED  BY <1>1, <1>2, <1>3, PlansStay

\* Only the worker, or what it works on, moves.
LEMMA PlannerMoves ==
    ASSUME PlanInv, planner' \in Planners, UNCHANGED <<target, taken, plans, requests>>,
           planning' \in [status : PlanStatuses, ran : Nat], planning'.ran = planning.ran,
           planner'.at = "rules" => planner'.row <= Len(target.saved)
    PROVE  PlanInv'
<1>1. PlanTypeOK'
  BY DEF PlanInv, PlanTypeOK
<1>3. Len(target'.saved) >= Len(target.saved)
  BY DEF PlanInv, PlanTypeOK
<1> QED  BY <1>1, <1>3, PlansStay

\* A new version of the plan.
LEMMA PersistedKeeps ==
    ASSUME PlanInv, NEW draft \in Drafts, plans' = Persisted(draft), UNCHANGED <<target, taken, planning>>,
           planner' \in Planners, planner' = planner \/ planner'.at # "rules",
           requests' \in [Callers -> PlanRequests],
           \A d \in Callers : requests'[d] = requests[d] \/ requests'[d].at = "resume"
    PROVE  PlanInv'
<1> DEFINE new == [draft |-> draft, approval |-> NoApproval]
<1>1. new \in PlanRows
  BY DEF PlanRows, Approvals
<1> HIDE DEF new
<1>2. plans' = Append(plans, new) /\ plans \in Seq(PlanRows)
  BY DEF Persisted, PlanInv, PlanTypeOK, new
<1>3. plans' \in Seq(PlanRows) /\ Len(plans') = Len(plans) + 1 /\ plans'[Len(plans) + 1] = new
      /\ \A p \in 1 .. Len(plans) : plans'[p] = plans[p]
  BY <1>1, <1>2
<1>4. PlanTypeOK'
  BY <1>3 DEF PlanInv, PlanTypeOK
<1>6. ReadWasSaved'
  BY <1>3 DEF PlanInv, ReadWasSaved
<1>7. Len(plans) \in Nat
  BY <1>2
<1>8. ApprovalsAreOverridable'
  <2>1. ASSUME NEW p \in 1 .. Len(plans'), Approved(p)' PROVE Overridable(plans'[p].draft)
    <3>1. CASE p \in 1 .. Len(plans)
      BY <1>3, <2>1, <3>1 DEF PlanInv, ApprovalsAreOverridable, Approved
    <3>2. CASE p = Len(plans) + 1
      BY <1>3, <2>1, <3>2 DEF Approved, new
    <3> QED  BY <1>3, <1>7, <3>1, <3>2
  <2>2. ASSUME NEW d \in Callers, requests'[d].at = "approve"
        PROVE  requests'[d].plan <= Len(plans') /\ Overridable(plans'[requests'[d].plan].draft)
    <3>1. requests'[d] = requests[d] /\ requests[d].at = "approve"
      BY <2>2
    <3>2. requests[d].plan \in Nat \ {0}
      BY <3>1 DEF PlanInv, PlanTypeOK, PlanRequests, NoPlanRequest
    <3>3. requests[d].plan <= Len(plans) /\ Overridable(plans[requests[d].plan].draft)
      BY <3>1 DEF PlanInv, ApprovalsAreOverridable
    <3> QED  BY <1>3, <1>7, <3>1, <3>2, <3>3
  <2> QED  BY <2>1, <2>2 DEF ApprovalsAreOverridable
<1>9. RanWasAuthorized'
  <2>1. planning.ran \in 0 .. Len(plans)
    BY DEF PlanInv, RanWasAuthorized
  <2>2. planning'.ran \in 0 .. Len(plans')
    BY <1>3, <1>7, <2>1
  <2>3. planning.ran # NoPlan => planning.ran \in 1 .. Len(plans)
    BY <1>7, <2>1 DEF NoPlan
  <2> QED  BY <1>3, <2>2, <2>3 DEF PlanInv, RanWasAuthorized, OnlyAuthorizedRuns, Approved
<1> QED  BY <1>4, <1>6, <1>8, <1>9 DEF PlanInv

LEMMA PlanInitInv == PlanInit => PlanInv
<1> SUFFICES ASSUME PlanInit PROVE PlanInv
  OBVIOUS
<1>1. PICK c \in TargetConfigs : target = [exists |-> TRUE, saved |-> <<c>>]
  BY DEF PlanInit
<1>2. <<c>> \in Seq(TargetConfigs) /\ <<c>> # <<>>
  OBVIOUS
<1>3. target \in [exists : BOOLEAN, saved : Seq(TargetConfigs)] /\ target.saved # <<>>
  BY <1>1, <1>2
<1>4. plans = <<>> /\ <<>> \in Seq(PlanRows) /\ taken = FALSE
  BY DEF PlanInit
<1>5. planning \in [status : PlanStatuses, ran : Nat] /\ planner \in Planners
  BY DEF PlanInit, Planners, PlanStatuses, NoPlan
<1>6. requests \in [Callers -> PlanRequests]
  BY DEF PlanInit, PlanRequests
<1>7. PlanTypeOK
  BY <1>3, <1>4, <1>5, <1>6 DEF PlanTypeOK
<1> QED
  BY <1>7 DEF PlanInit, PlanInv, ReadWasSaved, ApprovalsAreOverridable, RanWasAuthorized, OnlyAuthorizedRuns,
     NoPlan, IdlePlanner, NoPlanRequest

LEMMA TargetKept ==
    ASSUME PlanInv, ReplaceTarget \/ DeleteTarget \/ Obstruct
    PROVE  PlanInv'
<1>1. CASE ReplaceTarget
  <2>1. PICK c \in TargetConfigs : target' = [target EXCEPT !.saved = Append(@, c)]
    BY <1>1 DEF ReplaceTarget
  <2>2. UNCHANGED <<taken, plans, planning, planner, requests>>
    BY <1>1 DEF ReplaceTarget
  <2>3. target.saved \in Seq(TargetConfigs)
    BY DEF PlanInv, PlanTypeOK
  <2> DEFINE longer == Append(target.saved, c)
  <2>a. longer \in Seq(TargetConfigs) /\ target \in [exists : BOOLEAN, saved : Seq(TargetConfigs)]
    BY <2>3 DEF PlanInv, PlanTypeOK
  <2>b. target' = [target EXCEPT !.saved = longer]
    BY <2>1
  <2> HIDE DEF longer
  <2>c. target' \in [exists : BOOLEAN, saved : Seq(TargetConfigs)] /\ target'.saved = longer
    BY <2>a, <2>b
  <2>4. target'.saved = Append(target.saved, c) /\ target' \in [exists : BOOLEAN, saved : Seq(TargetConfigs)]
    BY <2>c DEF longer
  <2>5. Len(target'.saved) = Len(target.saved) + 1 /\ Len(target.saved) \in Nat /\ target'.saved # <<>>
    BY <2>3, <2>4
  <2>6. PlanTypeOK'
    BY <2>2, <2>4, <2>5 DEF PlanInv, PlanTypeOK
  <2> QED  BY <2>2, <2>5, <2>6, PlansStay
<1>2. CASE DeleteTarget
  <2>1. UNCHANGED <<taken, plans, planning, planner, requests>> /\ target' = [target EXCEPT !.exists = FALSE]
    BY <1>2 DEF DeleteTarget
  <2>2. target \in [exists : BOOLEAN, saved : Seq(TargetConfigs)]
    BY DEF PlanInv, PlanTypeOK
  <2>3. target' \in [exists : BOOLEAN, saved : Seq(TargetConfigs)] /\ target'.saved = target.saved
    BY <2>1, <2>2
  <2>4. PlanTypeOK' /\ Len(target'.saved) \in Nat
    BY <2>1, <2>3 DEF PlanInv, PlanTypeOK
  <2> QED  BY <2>1, <2>3, <2>4, PlansStay
<1>3. CASE Obstruct
  <2>1. UNCHANGED <<target, plans, planning, planner, requests>> /\ taken' = TRUE
    BY <1>3 DEF Obstruct
  <2>2. PlanTypeOK' /\ Len(target'.saved) >= Len(target.saved)
    BY <2>1 DEF PlanInv, PlanTypeOK
  <2> QED  BY <2>1, <2>2, PlansStay
<1> QED  BY <1>1, <1>2, <1>3

LEMMA PlanningTyped ==
    ASSUME PlanInv, NEW status \in PlanStatuses
    PROVE  /\ [planning EXCEPT !.status = status] \in [status : PlanStatuses, ran : Nat]
           /\ [planning EXCEPT !.status = status].ran = planning.ran
BY DEF PlanInv, PlanTypeOK

\* The planning stage up to the plan.
LEMMA StageKeeps ==
    ASSUME PlanInv, ClaimPlanning \/ ReadRow \/ ReadRules \/ Compare \/ FinishPlanning
    PROVE  PlanInv'
<1>0. planning \in [status : PlanStatuses, ran : Nat] /\ planner \in Planners
  BY DEF PlanInv, PlanTypeOK
<1>1. CASE ClaimPlanning
  BY <1>1, PlanningTyped, PlannerMoves DEF ClaimPlanning, PlannerTo, Planners, PlanStatuses
<1>2. CASE ReadRow
  <2>1. CASE target.exists
    <3>1. RowNow \in Nat \ {0} /\ RowNow <= Len(target.saved)
      BY DEF RowNow, PlanInv, PlanTypeOK
    <3> QED  BY <1>0, <1>2, <2>1, <3>1, PlannerMoves DEF ReadRow, PlannerTo, Planners
  <2>2. CASE ~target.exists
    BY <1>2, <2>2, PlanningTyped, PlannerMoves DEF ReadRow, PlannerTo, Planners, PlanStatuses, IdlePlanner
  <2> QED  BY <2>1, <2>2
<1>3. CASE ReadRules
  <2>1. planner.row \in Nat \ {0} /\ planner.row <= Len(target.saved)
    BY <1>0, <1>3 DEF ReadRules, Planners, IdlePlanner, PlanInv, ReadWasSaved
  <2>2. Drawn(planner.row, RulesNow, taken) \in Drafts
    BY <2>1, DrawnIsDraft DEF PlanInv
  <2> QED  BY <1>0, <1>3, <2>2, PlannerMoves DEF ReadRules, PlannerTo, Planners
<1>4. CASE Compare
  <2>1. planner.draft \in Drafts
    BY <1>0, <1>4 DEF Compare, Planners, IdlePlanner
  <2>2. Newest \in Nat /\ (Newest > 0 => Authorized(Newest) \in BOOLEAN)
    BY DEF Newest, PlanInv, PlanTypeOK, Authorized, Approved, OnItsOwn
  <2>3. planner' \in Planners /\ planner'.at # "rules"
    BY <1>4, <2>1, <2>2 DEF Compare, PlannerTo, Planners
  <2> QED  BY <1>0, <1>4, <2>3, PlannerMoves DEF Compare
<1>5. CASE FinishPlanning
  BY <1>5, PlanningTyped, PlannerMoves DEF FinishPlanning, PlannerTo, Planners, PlanStatuses, IdlePlanner
<1> QED  BY <1>1, <1>2, <1>3, <1>4, <1>5

LEMMA PersistNextKeeps == ASSUME PlanInv, PersistNext PROVE PlanInv'
<1>1. planner.draft \in Drafts
  BY DEF PersistNext, PlanInv, PlanTypeOK, Planners, IdlePlanner
<1>2. Newest + 1 \in Nat /\ OnItsOwn(planner.draft) \in BOOLEAN
  BY DEF Newest, PlanInv, PlanTypeOK, OnItsOwn
<1>3. planner' \in Planners /\ planner'.at # "rules"
  BY <1>2 DEF PersistNext, PlannerTo, Planners
<1> QED  BY <1>1, <1>3, PersistedKeeps DEF PersistNext, PlanInv, PlanTypeOK

\* The file stage asks again, and of the newest plan.
LEMMA RunPlanKeeps == ASSUME PlanInv, RunPlan PROVE PlanInv'
<1>1. UNCHANGED <<target, taken, plans, planner, requests>>
  BY DEF RunPlan
<1>2. CASE ~RunsNow(Newest)
  <2>1. planning' \in [status : PlanStatuses, ran : Nat] /\ planning'.ran = planning.ran
    BY <1>2, PlanningTyped DEF RunPlan, PlanStatuses
  <2>2. PlanTypeOK' /\ Len(target'.saved) >= Len(target.saved)
    BY <1>1, <2>1 DEF PlanInv, PlanTypeOK
  <2> QED  BY <1>1, <2>1, <2>2, PlansStay
<1>3. CASE RunsNow(Newest)
  <2>1. planning' = [status |-> "ran", ran |-> Newest] /\ Newest = Len(plans) /\ Newest \in Nat
    BY <1>3 DEF RunPlan, Newest, PlanInv, PlanTypeOK
  <2>2. PlanTypeOK'
    BY <1>1, <2>1 DEF PlanInv, PlanTypeOK, PlanStatuses
  <2>3. Newest # NoPlan => Overridable(plans[Newest].draft) /\ (OnItsOwn(plans[Newest].draft) \/ Approved(Newest))
    <3>1. Newest # NoPlan => Newest \in 1 .. Len(plans)
      BY <2>1 DEF NoPlan
    <3>2. OnItsOwn(plans[Newest].draft) => Overridable(plans[Newest].draft)
      BY DEF OnItsOwn, Overridable
    <3> QED  BY <1>3, <3>1, <3>2 DEF RunsNow, Authorized, PlanInv, ApprovalsAreOverridable
  <2>4. RanWasAuthorized'
    BY <1>1, <2>1, <2>3 DEF RanWasAuthorized, OnlyAuthorizedRuns, Approved, PlanInv
  <2> QED
    BY <1>1, <2>2, <2>4 DEF PlanInv, ReadWasSaved, ApprovalsAreOverridable, Approved
<1> QED  BY <1>2, <1>3

LEMMA AskPlanKeeps == ASSUME PlanInv, NEW c \in Callers, AskPlan(c) PROVE PlanInv'
<1>1. PICK k \in PlanKeys :
        \/ Turn(c, [at |-> "row", key |-> k, saw |-> planning.status])
        \/ /\ Newest > 0
           /\ \E kind \in {"execute", "deliver"} :
                Turn(c, [at |-> "check", kind |-> kind, key |-> k, saw |-> planning.status,
                         version |-> Newest])
  BY DEF AskPlan
<1>2. UNCHANGED <<target, taken, plans, planner, planning>> /\ planning \in [status : PlanStatuses, ran : Nat]
      /\ planning.status \in PlanStatuses
  BY DEF AskPlan, PlanInv, PlanTypeOK
<1>3. CASE Turn(c, [at |-> "row", key |-> k, saw |-> planning.status])
  <2>1. [at |-> "row", key |-> k, saw |-> planning.status] \in PlanRequests
    BY <1>2 DEF PlanRequests
  <2> QED  BY <1>2, <1>3, <2>1, RequestMoves
<1>4. ASSUME NEW kind \in {"execute", "deliver"}, Newest > 0,
             Turn(c, [at |-> "check", kind |-> kind, key |-> k, saw |-> planning.status, version |-> Newest])
      PROVE  PlanInv'
  <2> DEFINE r == [at |-> "check", kind |-> kind, key |-> k, saw |-> planning.status, version |-> Newest]
  <2>1. Newest \in Nat \ {0} /\ plans # <<>>
    BY <1>4 DEF Newest, PlanInv, PlanTypeOK
  <2>2. r \in PlanRequests /\ r.at = "check"
    BY <1>2, <2>1 DEF PlanRequests
  <2> HIDE DEF r
  <2> QED  BY <1>2, <1>4, <2>1, <2>2, RequestMoves DEF r
<1> QED  BY <1>1, <1>3, <1>4

\* Going nowhere, or on to the resumption of the stage.
LEMMA RequestEnds ==
    ASSUME PlanInv, NEW c \in Callers, UNCHANGED <<target, taken, plans, planner, planning>>,
           \/ Turn(c, NoPlanRequest)
           \/ \E saw \in PlanStatuses : Turn(c, [at |-> "resume", saw |-> saw])
    PROVE  PlanInv'
<1>1. planning' \in [status : PlanStatuses, ran : Nat] /\ planning'.ran = planning.ran
  BY DEF PlanInv, PlanTypeOK
<1>2. NoPlanRequest \in PlanRequests /\ NoPlanRequest.at = "none"
  BY DEF PlanRequests, NoPlanRequest
<1>3. CASE Turn(c, NoPlanRequest)
  BY <1>1, <1>2, <1>3, RequestMoves
<1>4. ASSUME NEW saw \in PlanStatuses, Turn(c, [at |-> "resume", saw |-> saw]) PROVE PlanInv'
  <2>1. [at |-> "resume", saw |-> saw] \in PlanRequests
    BY DEF PlanRequests
  <2> QED  BY <1>1, <1>4, <2>1, RequestMoves
<1> QED  BY <1>3, <1>4

LEMMA RecalculateRowKeeps == ASSUME PlanInv, NEW c \in Callers, RecalculateRow(c) PROVE PlanInv'
<1>1. CASE target.exists
  <2> DEFINE r == [at |-> "rules", key |-> requests[c].key, saw |-> requests[c].saw, row |-> RowNow]
  <2>1. requests[c].key \in PlanKeys /\ requests[c].saw \in PlanStatuses
    BY DEF RecalculateRow, PlanInv, PlanTypeOK, PlanRequests, NoPlanRequest
  <2>2. RowNow \in Nat \ {0} /\ RowNow <= Len(target.saved)
    BY DEF RowNow, PlanInv, PlanTypeOK
  <2>3. r \in PlanRequests /\ r.at = "rules" /\ r.row = RowNow
    BY <2>1, <2>2 DEF PlanRequests
  <2>4. Turn(c, r) /\ UNCHANGED <<target, taken, plans, planner, planning>>
    BY <1>1 DEF RecalculateRow
  <2>5. planning' \in [status : PlanStatuses, ran : Nat]
    BY <2>4 DEF PlanInv, PlanTypeOK
  <2> HIDE DEF r
  <2> QED  BY <2>2, <2>3, <2>4, <2>5, RequestMoves
<1>2. CASE ~target.exists
  BY <1>2, RequestEnds DEF RecalculateRow
<1> QED  BY <1>1, <1>2

LEMMA RecalculateRulesKeeps == ASSUME PlanInv, NEW c \in Callers, RecalculateRules(c) PROVE PlanInv'
<1> DEFINE draft == Drawn(requests[c].row, RulesNow, taken)
           r == [at |-> "recalculate", key |-> requests[c].key, saw |-> requests[c].saw, draft |-> draft]
<1>1. requests[c].key \in PlanKeys /\ requests[c].saw \in PlanStatuses /\ requests[c].row \in Nat \ {0}
      /\ requests[c].row <= Len(target.saved)
  BY DEF RecalculateRules, PlanInv, PlanTypeOK, PlanRequests, NoPlanRequest, ReadWasSaved
<1>2. draft \in Drafts
  BY <1>1, DrawnIsDraft DEF PlanInv
<1>3. Turn(c, r) /\ UNCHANGED <<target, taken, plans, planner, planning>>
  BY DEF RecalculateRules
<1>4. planning' \in [status : PlanStatuses, ran : Nat]
  BY <1>3 DEF PlanInv, PlanTypeOK
<1> HIDE DEF draft
<1>5. r \in PlanRequests /\ r.at = "recalculate"
  BY <1>1, <1>2 DEF PlanRequests
<1> HIDE DEF r
<1> QED  BY <1>3, <1>4, <1>5, RequestMoves

LEMMA RecalculateKeeps == ASSUME PlanInv, NEW c \in Callers, Recalculate(c) PROVE PlanInv'
<1> DEFINE r == requests[c]
           made == receipts[r.key].plan
<1>1. r.key \in PlanKeys /\ r.saw \in PlanStatuses /\ r.draft \in Drafts
  BY DEF Recalculate, PlanInv, PlanTypeOK, PlanRequests, NoPlanRequest
<1>2. CASE made = NoPlan
  <2>1. plans' = Persisted(r.draft) /\ Turn(c, [at |-> "resume", saw |-> r.saw])
        /\ UNCHANGED <<target, taken, planning, planner>>
    BY <1>2 DEF Recalculate
  <2>2. [at |-> "resume", saw |-> r.saw] \in PlanRequests
    BY <1>1 DEF PlanRequests
  <2>3. requests' \in [Callers -> PlanRequests]
    BY <2>1, <2>2 DEF Turn, PlanInv, PlanTypeOK
  <2>4. \A d \in Callers : requests'[d] = requests[d] \/ requests'[d].at = "resume"
    BY <2>1 DEF Turn, PlanInv, PlanTypeOK
  <2>5. planner' \in Planners
    BY <2>1 DEF PlanInv, PlanTypeOK
  <2> HIDE DEF r
  <2> QED  BY <1>1, <2>1, <2>3, <2>4, <2>5, PersistedKeeps
<1>3. CASE made # NoPlan
  <2>1. UNCHANGED <<plans, target, taken, planning, planner>>
        /\ Turn(c, IF plans[made].draft = r.draft THEN [at |-> "resume", saw |-> r.saw] ELSE NoPlanRequest)
    BY <1>3 DEF Recalculate
  <2>2. Turn(c, NoPlanRequest) \/ Turn(c, [at |-> "resume", saw |-> r.saw])
    BY <2>1
  <2> QED  BY <1>1, <2>1, <2>2, RequestEnds
<1> QED  BY <1>2, <1>3

LEMMA CheckVersionKeeps == ASSUME PlanInv, NEW c \in Callers, CheckVersion(c) PROVE PlanInv'
<1> DEFINE r == [requests[c] EXCEPT !.at = requests[c].kind]
<1>1. requests[c] \in [at : {"check", "execute", "deliver"}, kind : {"execute", "deliver"}, key : PlanKeys,
                       saw : PlanStatuses, version : Nat \ {0}] /\ plans # <<>>
  BY DEF CheckVersion, PlanInv, PlanTypeOK, PlanRequests, NoPlanRequest, ReadWasSaved
<1>2. UNCHANGED <<target, taken, plans, planner, planning>>
  BY DEF CheckVersion
<1>3. CASE requests[c].version = Newest
  <2>1. Turn(c, r)
    BY <1>3 DEF CheckVersion
  <2>2. r \in PlanRequests /\ r.at \in {"execute", "deliver"}
    BY <1>1 DEF PlanRequests
  <2>3. planning' \in [status : PlanStatuses, ran : Nat]
    BY <1>2 DEF PlanInv, PlanTypeOK
  <2> HIDE DEF r
  <2> QED  BY <1>1, <1>2, <2>1, <2>2, <2>3, RequestMoves
<1>4. CASE requests[c].version # Newest
  BY <1>2, <1>4, RequestEnds DEF CheckVersion
<1> QED  BY <1>3, <1>4

LEMMA ReadApprovedKeeps == ASSUME PlanInv, NEW c \in Callers, ReadApproved(c) PROVE PlanInv'
<1>1. requests[c] \in [at : {"check", "execute", "deliver"}, kind : {"execute", "deliver"}, key : PlanKeys,
                       saw : PlanStatuses, version : Nat \ {0}] /\ plans # <<>>
  BY DEF ReadApproved, PlanInv, PlanTypeOK, PlanRequests, NoPlanRequest, ReadWasSaved
<1>2. UNCHANGED <<target, taken, plans, planner, planning>>
  BY DEF ReadApproved
<1>3. CASE Overridable(plans[Newest].draft)
  <2> DEFINE r == [at |-> "approve", key |-> requests[c].key, saw |-> requests[c].saw,
                   version |-> requests[c].version, plan |-> Newest]
  <2>1. Turn(c, r)
    BY <1>3 DEF ReadApproved
  <2>2. Newest \in Nat \ {0} /\ Newest <= Len(plans)
    BY <1>1 DEF Newest, PlanInv, PlanTypeOK
  <2>3. r \in PlanRequests /\ r.at = "approve" /\ r.plan = Newest
    BY <1>1, <2>2 DEF PlanRequests
  <2>4. planning' \in [status : PlanStatuses, ran : Nat]
    BY <1>2 DEF PlanInv, PlanTypeOK
  <2> HIDE DEF r
  <2> QED  BY <1>2, <1>3, <2>1, <2>2, <2>3, <2>4, RequestMoves
<1>4. CASE ~Overridable(plans[Newest].draft)
  BY <1>2, <1>4, RequestEnds DEF ReadApproved
<1> QED  BY <1>3, <1>4

LEMMA ApproveKeeps == ASSUME PlanInv, NEW c \in Callers, Approve(c) PROVE PlanInv'
<1> DEFINE r == requests[c]
           used == \E p \in 1 .. Newest : plans[p].approval.key = r.key
<1>1. r \in [at : {"approve"}, key : PlanKeys, saw : PlanStatuses, version : Nat, plan : Nat \ {0}]
      /\ r.plan <= Len(plans) /\ Overridable(plans[r.plan].draft)
  BY DEF Approve, PlanInv, PlanTypeOK, PlanRequests, NoPlanRequest, ApprovalsAreOverridable
<1>2. UNCHANGED <<target, taken, planner, planning>>
  BY DEF Approve
<1>3. Turn(c, NoPlanRequest) \/ Turn(c, [at |-> "resume", saw |-> r.saw])
  BY DEF Approve
<1>4. CASE Approved(r.plan) \/ used
  <2>1. plans' = plans
    BY <1>4 DEF Approve
  <2> QED  BY <1>1, <1>2, <1>3, <2>1, RequestEnds
<1>5. CASE ~Approved(r.plan) /\ ~used
  <2> DEFINE approval == [key |-> r.key, shown |-> r.version]
  <2>1. plans' = [plans EXCEPT ![r.plan].approval = approval]
    BY <1>5 DEF Approve
  <2>2. approval \in Approvals
    BY <1>1 DEF Approvals
  <2> HIDE DEF approval
  <2>3. r.plan \in 1 .. Len(plans) /\ plans \in Seq(PlanRows) /\ Len(plans) \in Nat
    BY <1>1 DEF PlanInv, PlanTypeOK
  <2>4. plans[r.plan] \in PlanRows
    BY <2>3
  <2>5. [plans[r.plan] EXCEPT !.approval = approval] \in PlanRows
    BY <2>2, <2>4 DEF PlanRows
  <2>6. plans' \in Seq(PlanRows) /\ Len(plans') = Len(plans)
        /\ \A p \in 1 .. Len(plans) : plans'[p] = IF p = r.plan THEN [plans[p] EXCEPT !.approval = approval] ELSE plans[p]
    BY <2>1, <2>3, <2>5
  <2>7. \A p \in 1 .. Len(plans) : plans'[p].draft = plans[p].draft
    BY <2>3, <2>4, <2>6 DEF PlanRows
  <2>8. \A p \in 1 .. Len(plans) : p # r.plan => plans'[p] = plans[p]
    BY <2>6
  <2>9. \A d \in Callers : requests'[d] = requests[d] \/ requests'[d].at \in {"none", "resume"}
    BY <1>3 DEF Turn, NoPlanRequest, PlanInv, PlanTypeOK
  <2>10. PlanTypeOK'
    <3>1. [at |-> "resume", saw |-> r.saw] \in PlanRequests /\ NoPlanRequest \in PlanRequests
      BY <1>1 DEF PlanRequests
    <3>2. requests' \in [Callers -> PlanRequests]
      BY <1>3, <3>1 DEF Turn, PlanInv, PlanTypeOK
    <3> QED  BY <1>2, <2>6, <3>2 DEF PlanInv, PlanTypeOK
  <2>11. ReadWasSaved'
    BY <1>2, <2>3, <2>6, <2>9 DEF PlanInv, ReadWasSaved
  <2>12. ApprovalsAreOverridable'
    <3>1. ASSUME NEW p \in 1 .. Len(plans'), Approved(p)' PROVE Overridable(plans'[p].draft)
      <4>1. p \in 1 .. Len(plans)
        BY <2>6
      <4>2. CASE p = r.plan
        BY <1>1, <2>7, <4>1, <4>2
      <4>3. CASE p # r.plan
        BY <2>8, <3>1, <4>1, <4>3 DEF Approved, PlanInv, ApprovalsAreOverridable
      <4> QED  BY <4>2, <4>3
    <3>2. ASSUME NEW d \in Callers, requests'[d].at = "approve"
          PROVE  requests'[d].plan <= Len(plans') /\ Overridable(plans'[requests'[d].plan].draft)
      <4>1. requests'[d] = requests[d] /\ requests[d].at = "approve"
        <5>1. requests'[d] = requests[d]
          BY <2>9, <3>2
        <5> QED  BY <3>2, <5>1
      <4> requests[d] \in PlanRequests
        BY DEF PlanInv, PlanTypeOK
      <4> HIDE DEF r, used
      <4>2. requests[d].plan \in Nat \ {0}
        BY <4>1 DEF PlanRequests, NoPlanRequest
      <4>3. requests[d].plan <= Len(plans) /\ Overridable(plans[requests[d].plan].draft)
        BY <4>1 DEF PlanInv, ApprovalsAreOverridable
      <4> QED  BY <2>3, <2>6, <2>7, <4>1, <4>2, <4>3
    <3> QED  BY <3>1, <3>2 DEF ApprovalsAreOverridable
  <2>13. RanWasAuthorized'
    <3>1. planning.ran \in 0 .. Len(plans) /\ planning'.ran = planning.ran
      BY <1>2 DEF PlanInv, RanWasAuthorized
    <3>2. planning.ran # NoPlan => planning.ran \in 1 .. Len(plans)
      BY <2>3, <3>1 DEF NoPlan
    <3>3. planning.ran # NoPlan =>
            /\ Overridable(plans[planning.ran].draft)
            /\ OnItsOwn(plans[planning.ran].draft) \/ Approved(planning.ran)
      BY DEF PlanInv, RanWasAuthorized, OnlyAuthorizedRuns
    <3>4. planning.ran # NoPlan /\ Approved(planning.ran) => Approved(planning.ran)'
      <4>1. planning.ran # NoPlan /\ Approved(planning.ran) => planning.ran # r.plan
        BY <1>5
      <4> QED  BY <2>8, <3>1, <3>2, <4>1 DEF Approved
    <3>5. planning.ran # NoPlan => plans'[planning.ran].draft = plans[planning.ran].draft
      BY <2>7, <3>2
    <3>6. OnlyAuthorizedRuns'
      BY <3>1, <3>3, <3>4, <3>5 DEF OnlyAuthorizedRuns
    <3> QED  BY <2>6, <3>1, <3>6 DEF RanWasAuthorized
  <2> QED  BY <2>10, <2>11, <2>12, <2>13 DEF PlanInv
<1> QED  BY <1>4, <1>5

LEMMA DeliverKeeps == ASSUME PlanInv, NEW c \in Callers, Deliver(c) PROVE PlanInv'
<1>1. requests[c].saw \in PlanStatuses
  BY DEF Deliver, PlanInv, PlanTypeOK, PlanRequests, NoPlanRequest
<1>2. Turn(c, NoPlanRequest) \/ Turn(c, [at |-> "resume", saw |-> requests[c].saw])
  BY DEF Deliver
<1> QED  BY <1>1, <1>2, RequestEnds DEF Deliver

LEMMA ResumePlanningKeeps == ASSUME PlanInv, NEW c \in Callers, ResumePlanning(c) PROVE PlanInv'
<1>1. planning' \in [status : PlanStatuses, ran : Nat] /\ planning'.ran = planning.ran
  BY PlanningTyped DEF ResumePlanning, PlanInv, PlanTypeOK, PlanStatuses
<1>2. NoPlanRequest \in PlanRequests /\ NoPlanRequest.at = "none"
  BY DEF PlanRequests, NoPlanRequest
<1> QED  BY <1>1, <1>2, RequestMoves DEF ResumePlanning

\* Every step keeps the invariant.
LEMMA PlanNextInv == PlanInv /\ [PlanNext]_planVars => PlanInv'
<1> SUFFICES ASSUME PlanInv, [PlanNext]_planVars PROVE PlanInv'
  OBVIOUS
<1>1. CASE ReplaceTarget \/ DeleteTarget \/ Obstruct
  BY <1>1, TargetKept
<1>2. CASE ClaimPlanning \/ ReadRow \/ ReadRules \/ Compare \/ FinishPlanning
  BY <1>2, StageKeeps
<1>3. CASE PersistNext
  BY <1>3, PersistNextKeeps
<1>4. CASE RunPlan
  BY <1>4, RunPlanKeeps
<1>5. ASSUME NEW c \in Callers,
             \/ AskPlan(c) \/ RecalculateRow(c) \/ RecalculateRules(c) \/ Recalculate(c)
             \/ CheckVersion(c) \/ ReadApproved(c) \/ Approve(c) \/ Deliver(c) \/ ResumePlanning(c)
      PROVE  PlanInv'
  BY <1>5, AskPlanKeeps, RecalculateRowKeeps, RecalculateRulesKeeps, RecalculateKeeps, CheckVersionKeeps,
     ReadApprovedKeeps, ApproveKeeps, DeliverKeeps, ResumePlanningKeeps
<1>6. CASE UNCHANGED planVars
  BY <1>6 DEF planVars, PlanInv, PlanTypeOK, ReadWasSaved, ApprovalsAreOverridable, RanWasAuthorized,
     OnlyAuthorizedRuns, Approved
<1> QED  BY <1>1, <1>2, <1>3, <1>4, <1>5, <1>6 DEF PlanNext

\* For any number of callers, plans and changes of the target: what the file stage runs was allowed
\* by the configuration it was drawn from or approved by a person, and never lies over something
\* that was known to be there (run of OrganizationFileOperationHandler, authorize_once).
THEOREM OnlyAuthorizedPlansRun == PlanSpec => []OnlyAuthorizedRuns
<1>1. PlanSpec => []PlanInv
  BY PlanInitInv, PlanNextInv, PTL DEF PlanSpec
<1>2. PlanInv => OnlyAuthorizedRuns
  BY DEF PlanInv, RanWasAuthorized
<1> QED  BY <1>1, <1>2, PTL

-----------------------------------------------------------------------------
(* Territories.                                                             *)
(* However many administrators create, move and delete however many inboxes and *)
(* targets: their directories stay disjoint, because each transaction looks at  *)
(* what is there once more.  What the checks before it saw is not needed.       *)

\* The rows are those of the identities, so that a write changes one row and no other.
Rowed == targets = [t \in TargetIds |-> targets[t]]

TInv == Rowed /\ Disjoint

\* Whoever of two directories is asked about the other, they overlap or they do not.
LEMMA OverlapsBothWays == ASSUME NEW p, NEW q PROVE Overlaps(p, q) <=> Overlaps(q, p)
BY DEF Overlaps

\* A directory that the transaction found free may become an inbox.
LEMMA InboxKeeps ==
    ASSUME TInv, NEW p, Free(p, {}), inboxes' = inboxes \cup {p}, UNCHANGED targets
    PROVE  TInv'
<1>1. \A q \in inboxes : ~Overlaps(p, q) /\ ~Overlaps(q, p)
  BY OverlapsBothWays DEF Free, OverlapsInbox
<1>2. \A t \in Made : ~Overlaps(targets[t].path, p)
  BY OverlapsBothWays DEF Free, OverlapsTarget
<1>3. \A q, r \in inboxes' : q # r => ~Overlaps(q, r)
  BY <1>1 DEF TInv, Disjoint
<1>4. Made' = Made /\ Rowed'
  BY DEF Made, TInv, Rowed
<1>5. \A t \in Made : ~OverlapsInbox(targets[t].path)'
  BY <1>2 DEF TInv, Disjoint, OverlapsInbox
<1>6. \A t \in Made : ~OverlapsTarget(targets[t].path, {t})'
  BY <1>4 DEF TInv, Disjoint, OverlapsTarget
<1> QED  BY <1>3, <1>4, <1>5, <1>6 DEF TInv, Disjoint

\* A directory that was found free, but for what the target itself holds, may become the target's.
LEMMA TargetKeeps ==
    ASSUME TInv, NEW i, NEW row, Free(row.path, {i}),
           targets' = [targets EXCEPT ![i] = row], UNCHANGED inboxes
    PROVE  TInv'
<1>1. \A t \in TargetIds : targets'[t] = IF t = i THEN row ELSE targets[t]
  BY DEF TInv, Rowed
<1>2. Rowed'
  BY DEF TInv, Rowed
<1>3. \A t \in Made' : (t = i /\ targets'[t] = row) \/ (t # i /\ t \in Made /\ targets'[t] = targets[t])
  BY <1>1 DEF Made
<1>4. \A t \in Made : t # i => ~Overlaps(row.path, targets[t].path) /\ ~Overlaps(targets[t].path, row.path)
  BY OverlapsBothWays DEF Free, OverlapsTarget
<1>5. ASSUME NEW t \in Made' PROVE ~OverlapsInbox(targets[t].path)'
  BY <1>3, <1>5 DEF TInv, Disjoint, Free, OverlapsInbox
<1>6. ASSUME NEW t \in Made', NEW u \in Made', u # t PROVE ~Overlaps(targets'[t].path, targets'[u].path)
  <2>1. CASE t = i
    BY <1>3, <1>4, <1>6, <2>1
  <2>2. CASE u = i
    BY <1>3, <1>4, <1>6, <2>2
  <2>3. CASE t # i /\ u # i
    BY <1>3, <1>6, <2>3 DEF TInv, Disjoint, OverlapsTarget
  <2> QED  BY <2>1, <2>2, <2>3
<1>7. \A t \in Made' : ~OverlapsTarget(targets[t].path, {t})'
  BY <1>6 DEF OverlapsTarget
<1>8. \A p, q \in inboxes' : p # q => ~Overlaps(p, q)
  BY DEF TInv, Disjoint
<1> QED  BY <1>2, <1>5, <1>7, <1>8 DEF TInv, Disjoint

\* What is deleted overlaps nothing.
LEMMA RemovalKeeps ==
    ASSUME TInv, NEW i, targets' = [targets EXCEPT ![i] = NoTarget], UNCHANGED inboxes
    PROVE  TInv'
<1>1. \A t \in TargetIds : targets'[t] = IF t = i THEN NoTarget ELSE targets[t]
  BY DEF TInv, Rowed
<1>2. Rowed'
  BY DEF TInv, Rowed
<1>3. \A t \in Made' : t \in Made /\ targets'[t] = targets[t]
  BY <1>1 DEF Made
<1>4. \A t \in Made' : ~OverlapsInbox(targets[t].path)'
  BY <1>3 DEF TInv, Disjoint, OverlapsInbox
<1>5. \A t \in Made' : ~OverlapsTarget(targets[t].path, {t})'
  BY <1>3 DEF TInv, Disjoint, OverlapsTarget
<1>6. \A p, q \in inboxes' : p # q => ~Overlaps(p, q)
  BY DEF TInv, Disjoint
<1> QED  BY <1>2, <1>4, <1>5, <1>6 DEF TInv, Disjoint

\* Requests that wait, or change what is no directory, disturb nothing.
LEMMA NothingMoves == ASSUME TInv, UNCHANGED <<inboxes, targets>> PROVE TInv'
BY DEF TInv, Rowed, Disjoint, Made, OverlapsInbox, OverlapsTarget

\* There is nothing to overlap at first.
LEMMA TerritoryInitInv == TerritoryInit => TInv
<1> SUFFICES ASSUME TerritoryInit PROVE TInv
  OBVIOUS
<1>1. Made = {}
  BY DEF TerritoryInit, Made
<1> QED  BY <1>1 DEF TerritoryInit, TInv, Rowed, Disjoint

\* Every step keeps the invariant.
LEMMA TerritoryNextInv == TInv /\ [TerritoryNext]_territoryVars => TInv'
<1> SUFFICES ASSUME TInv, [TerritoryNext]_territoryVars PROVE TInv'
  OBVIOUS
<1>1. ASSUME NEW a \in Administrators, NEW p \in Directories, AskInbox(a, p) PROVE TInv'
  BY <1>1, NothingMoves DEF AskInbox
<1>2. ASSUME NEW a \in Administrators, NEW t \in TargetIds, NEW p \in Directories,
             NEW auto \in BOOLEAN, AskTarget(a, t, p, auto)
      PROVE  TInv'
  BY <1>2, NothingMoves DEF AskTarget
<1>3. ASSUME NEW a \in Administrators, CheckInboxes(a) \/ CheckTargets(a) PROVE TInv'
  BY <1>3, NothingMoves DEF CheckInboxes, CheckTargets
<1>4. ASSUME NEW a \in Administrators, CreateInbox(a) PROVE TInv'
  <2>1. CASE Free(edits[a].path, {})
    BY <1>4, <2>1, InboxKeeps DEF CreateInbox
  <2>2. CASE ~Free(edits[a].path, {})
    BY <1>4, <2>2, NothingMoves DEF CreateInbox
  <2> QED  BY <2>1, <2>2
<1>5. ASSUME NEW a \in Administrators, InsertTarget(a) PROVE TInv'
  <2> DEFINE e == edits[a]
             row == [version |-> 1, path |-> e.path, automatic |-> e.automatic]
  <2>1. CASE Free(e.path, {})
    <3>1. row.path = e.path /\ Free(row.path, {e.id})
      BY <2>1 DEF Free, OverlapsTarget
    <3>2. targets' = [targets EXCEPT ![e.id] = row] /\ UNCHANGED inboxes
      BY <1>5, <2>1 DEF InsertTarget
    <3> HIDE DEF row
    <3> QED  BY <3>1, <3>2, TargetKeeps
  <2>2. CASE ~Free(e.path, {})
    BY <1>5, <2>2, NothingMoves DEF InsertTarget
  <2> QED  BY <2>1, <2>2
<1>6. ASSUME NEW a \in Administrators, ReplaceTargetWhole(a) PROVE TInv'
  <2> DEFINE e == edits[a]
             row == [version |-> e.saw + 1, path |-> e.path, automatic |-> e.automatic]
             replaced == ~Unchanged(e) /\ Free(e.path, {e.id}) /\ targets[e.id].version = e.saw
  <2>1. CASE replaced
    <3>1. row.path = e.path /\ Free(row.path, {e.id})
      BY <2>1
    <3>2. targets' = [targets EXCEPT ![e.id] = row] /\ UNCHANGED inboxes
      BY <1>6, <2>1 DEF ReplaceTargetWhole
    <3> HIDE DEF row
    <3> QED  BY <3>1, <3>2, TargetKeeps
  <2>2. CASE ~replaced
    BY <1>6, <2>2, NothingMoves DEF ReplaceTargetWhole
  <2> QED  BY <2>1, <2>2
<1>7. ASSUME NEW a \in Administrators, NEW t \in TargetIds, RemoveTarget(a, t) PROVE TInv'
  BY <1>7, RemovalKeeps DEF RemoveTarget
<1>8. ASSUME NEW t \in TargetIds, Engage(t) \/ Disengage(t) PROVE TInv'
  BY <1>8, NothingMoves DEF Engage, Disengage
<1>9. CASE UNCHANGED territoryVars
  BY <1>9, NothingMoves DEF territoryVars
<1> QED  BY <1>1, <1>2, <1>3, <1>4, <1>5, <1>6, <1>7, <1>8, <1>9 DEF TerritoryNext

\* However creations and moves of inboxes and targets overlap in time, for any directories, any
\* number of administrators and of requests: no inbox contains another, and no target overlaps an
\* inbox or another target (has_inbox_overlap_on_connection and the overlap queries of the stores).
THEOREM TerritoriesStayApart == TerritorySpec => []Disjoint
<1>1. TerritorySpec => []TInv
  BY TerritoryInitInv, TerritoryNextInv, PTL DEF TerritorySpec
<1>2. TInv => Disjoint
  BY DEF TInv
<1> QED  BY <1>1, <1>2, PTL

-----------------------------------------------------------------------------
(* Capability calls.                                                        *)
(* However many copies of however many calls arrive, and whenever the process   *)
(* dies: a key is executed once at most.  The claim does it: a delivery that    *)
(* runs the handler made its request's claim, the claim stays, and no other     *)
(* request can claim the key.                                                   *)

Calls == [request : CallIds, key : CallKeys, body : Bodies]
Claims == [state : {"pending", "completed"}, key : CallKeys, body : Bodies]

CallTypeOK ==
    /\ claims \in [CallIds -> {Unclaimed} \cup Claims]
    /\ records \in [CallIds -> Nat]
    /\ arrivals \in [Deliveries -> {Idle}
                        \cup [at : {"check", "preflight", "reserve", "execute"}, call : Calls]
                        \cup [at : {"persist"}, call : Calls, result : Nat]]
    /\ executions \subseteq [number : Nat, request : CallIds, key : CallKeys]
    /\ IsFiniteSet(executions)
    /\ answered \subseteq [call : Calls, result : Nat]

\* A key belongs to one request for good.
KeyOfOne ==
    \A r, s \in CallIds :
        claims[r].state # "none" /\ claims[s].state # "none" /\ claims[r].key = claims[s].key => r = s

AtWork(d) == arrivals[d].at \in {"execute", "persist"}

\* A delivery at work owns a pending claim of its own call.
WorkIsClaimed ==
    \A d \in Deliveries : AtWork(d) =>
        /\ claims[arrivals[d].call.request].state = "pending"
        /\ claims[arrivals[d].call.request].key = arrivals[d].call.key
        /\ claims[arrivals[d].call.request].body = arrivals[d].call.body

WorksAlone ==
    \A d, e \in Deliveries :
        AtWork(d) /\ AtWork(e) /\ arrivals[d].call.request = arrivals[e].call.request => d = e

\* What has been executed was claimed, and no delivery is about to execute it.
ExecutedWasClaimed ==
    /\ \A x \in executions :
        /\ claims[x.request].state # "none"
        /\ claims[x.request].key = x.key
        /\ \A d \in Deliveries : arrivals[d].at = "execute" => arrivals[d].call.request # x.request
    /\ \A x, y \in executions : x.request = y.request => x = y

\* A result, to be recorded or on record, is that of an execution of the call.
ResultWasExecuted ==
    /\ \A d \in Deliveries : arrivals[d].at = "persist" =>
        \E x \in executions : /\ x.number = arrivals[d].result
                              /\ x.request = arrivals[d].call.request
    /\ \A r \in CallIds : claims[r].state = "completed" =>
        \E x \in executions : x.number = records[r] /\ x.request = r

\* What a caller was told is the record of its own call.
AnswerIsRecord ==
    \A a \in answered :
        /\ claims[a.call.request].state = "completed"
        /\ claims[a.call.request].key = a.call.key
        /\ claims[a.call.request].body = a.call.body
        /\ a.result = records[a.call.request]

CInv ==
    /\ CallTypeOK /\ KeyOfOne /\ WorkIsClaimed /\ WorksAlone
    /\ ExecutedWasClaimed /\ ResultWasExecuted /\ AnswerIsRecord

\* The invariant says that a key is executed once, and answered with that.
LEMMA InvRunsOnce == CInv => RunsOnce
<1> SUFFICES ASSUME CInv PROVE RunsOnce
  OBVIOUS
<1>1. \A x, y \in executions : x.key = y.key => x = y
  <2> SUFFICES ASSUME NEW x \in executions, NEW y \in executions, x.key = y.key PROVE x = y
    OBVIOUS
  <2>1. x.request \in CallIds /\ y.request \in CallIds
    BY DEF CInv, CallTypeOK
  <2>2. x.request = y.request
    BY <2>1 DEF CInv, KeyOfOne, ExecutedWasClaimed
  <2> QED  BY <2>2 DEF CInv, ExecutedWasClaimed
<1>2. ASSUME NEW a \in answered
      PROVE  \E x \in executions : x.number = a.result /\ x.request = a.call.request /\ x.key = a.call.key
  <2>1. a.call.request \in CallIds
    BY DEF CInv, CallTypeOK, Calls
  <2> QED  BY <2>1 DEF CInv, AnswerIsRecord, ResultWasExecuted, ExecutedWasClaimed
<1>3. ASSUME NEW a \in answered, NEW b \in answered, a.call.request = b.call.request PROVE a = b
  <2>1. a.call = b.call
    BY <1>3 DEF CInv, CallTypeOK, Calls, AnswerIsRecord
  <2> QED  BY <2>1 DEF CInv, CallTypeOK, AnswerIsRecord
<1> QED  BY <1>1, <1>2, <1>3 DEF RunsOnce

\* Nothing is claimed, under way, executed or answered at first.
LEMMA CallInitInv == CallInit => CInv
<1> SUFFICES ASSUME CallInit PROVE CInv
  OBVIOUS
<1>1. CallTypeOK
  BY FS_EmptySet DEF CallInit, CallTypeOK
<1>2. \A d \in Deliveries : arrivals[d].at = "idle"
  BY DEF CallInit, Idle
<1>3. \A r \in CallIds : claims[r].state = "none"
  BY DEF CallInit, Unclaimed
<1> QED
  BY <1>1, <1>2, <1>3 DEF CInv, CallInit, KeyOfOne, WorkIsClaimed, WorksAlone, AtWork,
     ExecutedWasClaimed, ResultWasExecuted, AnswerIsRecord

\* A delivery that ends, or goes on to a step before the claim, disturbs nothing; its caller may
\* have been given the record of its call.
LEMMA WaitingKeeps ==
    ASSUME CInv, NEW d \in Deliveries, NEW state,
           state \in {Idle} \cup [at : {"check", "preflight", "reserve"}, call : Calls],
           Go(d, state), UNCHANGED <<claims, records, executions>>,
           \A a \in answered' : a \in answered \/
                /\ a \in [call : Calls, result : Nat]
                /\ claims[a.call.request].state = "completed"
                /\ claims[a.call.request].key = a.call.key
                /\ claims[a.call.request].body = a.call.body
                /\ a.result = records[a.call.request]
    PROVE  CInv'
<1>1. state.at \in {"idle", "check", "preflight", "reserve"}
  BY DEF Idle
<1>2. \A e \in Deliveries : arrivals'[e] = IF e = d THEN state ELSE arrivals[e]
  BY DEF CInv, CallTypeOK, Go
<1>3. \A e \in Deliveries : arrivals'[e].at \in {"execute", "persist"} =>
          e # d /\ arrivals'[e] = arrivals[e]
  BY <1>1, <1>2
<1>4. CallTypeOK'
  <2>1. arrivals' \in [Deliveries -> {Idle}
                        \cup [at : {"check", "preflight", "reserve", "execute"}, call : Calls]
                        \cup [at : {"persist"}, call : Calls, result : Nat]]
    BY DEF CInv, CallTypeOK, Go
  <2>2. answered' \subseteq [call : Calls, result : Nat]
    BY DEF CInv, CallTypeOK
  <2> QED  BY <2>1, <2>2 DEF CInv, CallTypeOK
<1>5. KeyOfOne'
  BY DEF CInv, KeyOfOne
<1>6. WorkIsClaimed'
  BY <1>3 DEF CInv, WorkIsClaimed, AtWork
<1>7. WorksAlone'
  BY <1>3 DEF CInv, WorksAlone, AtWork
<1>8. ExecutedWasClaimed'
  BY <1>3 DEF CInv, ExecutedWasClaimed
<1>9. ResultWasExecuted'
  BY <1>3 DEF CInv, ResultWasExecuted
<1>10. AnswerIsRecord'
  BY DEF CInv, AnswerIsRecord
<1> QED  BY <1>4, <1>5, <1>6, <1>7, <1>8, <1>9, <1>10 DEF CInv

\* What a delivery is given when its call cannot be claimed is the record of its call.
LEMMA SettleKeeps ==
    ASSUME CInv, NEW d \in Deliveries, arrivals[d].at \in {"check", "reserve"},
           Settle(d), UNCHANGED <<claims, records, executions>>
    PROVE  CInv'
<1> DEFINE c == arrivals[d].call
<1>1. c \in Calls
  BY DEF CInv, CallTypeOK, Idle
<1>2. c.request \in CallIds
  BY <1>1 DEF Calls
<1>3. CASE Verdict(c) = "replay"
  <2>1. claims[c.request].state = "completed" /\ claims[c.request].key = c.key
            /\ claims[c.request].body = c.body
    <3> HIDE DEF c
    <3> QED  BY <1>3 DEF Verdict
  <2>2. records[c.request] \in Nat
    BY <1>2 DEF CInv, CallTypeOK
  <2>3. answered' = answered \cup {[call |-> c, result |-> records[c.request]]}
    BY <1>3 DEF Settle
  <2> HIDE DEF c
  <2>4. \A a \in answered' : a \in answered \/
                /\ a \in [call : Calls, result : Nat]
                /\ claims[a.call.request].state = "completed"
                /\ claims[a.call.request].key = a.call.key
                /\ claims[a.call.request].body = a.call.body
                /\ a.result = records[a.call.request]
    BY <1>1, <2>1, <2>2, <2>3
  <2> QED  BY <2>4, WaitingKeeps DEF Settle
<1>4. CASE Verdict(c) # "replay"
  <2>1. answered' = answered
    BY <1>4 DEF Settle
  <2> QED  BY <2>1, WaitingKeeps DEF Settle
<1> QED  BY <1>3, <1>4

\* A call is claimed only when neither its request nor its key has a claim.
LEMMA ReserveKeeps == ASSUME CInv, NEW d \in Deliveries, Reserve(d) PROVE CInv'
<1> DEFINE c == arrivals[d].call
           claim == [state |-> "pending", key |-> c.key, body |-> c.body]
           going == [arrivals[d] EXCEPT !.at = "execute"]
<1>1. arrivals[d] \in [at : {"reserve"}, call : Calls]
  BY DEF CInv, CallTypeOK, Reserve, Idle
<1>2. c \in Calls /\ c.request \in CallIds /\ claim \in Claims
  BY <1>1 DEF Calls, Claims
<1>3. CASE Verdict(c) # "free"
  BY <1>3, SettleKeeps DEF Reserve
<1>4. CASE Verdict(c) = "free"
  <2>1. claims[c.request] = Unclaimed /\ ~Occupied(c)
    <3> HIDE DEF c
    <3> QED  BY <1>4 DEF Verdict
  <2>2. \A r \in CallIds : claims'[r] = IF r = c.request THEN claim ELSE claims[r]
    BY <1>2, <1>4 DEF Reserve, CInv, CallTypeOK
  <2>3. /\ going \in [at : {"execute"}, call : Calls] /\ going.at = "execute" /\ going.call = c
        /\ \A e \in Deliveries : arrivals'[e] = IF e = d THEN going ELSE arrivals[e]
    BY <1>1, <1>4 DEF Reserve, Go, CInv, CallTypeOK
  <2>4. UNCHANGED <<records, executions, answered>>
    BY <1>4 DEF Reserve
  <2>5. \A r \in CallIds : claims[r].state # "none" => r # c.request /\ claims[r].key # c.key
    <3>1. ASSUME NEW r \in CallIds, claims[r].state # "none"
          PROVE  r # c.request /\ claims[r].key # c.key
      BY <2>1, <3>1 DEF Unclaimed, Occupied
    <3> QED  BY <3>1
  <2>6. claims[c.request].state = "none"
    BY <2>1 DEF Unclaimed
  <2>7. CallTypeOK'
    <3>1. claims' \in [CallIds -> {Unclaimed} \cup Claims]
      BY <1>2, <1>4 DEF Reserve, CInv, CallTypeOK
    <3>2. arrivals' \in [Deliveries -> {Idle}
                        \cup [at : {"check", "preflight", "reserve", "execute"}, call : Calls]
                        \cup [at : {"persist"}, call : Calls, result : Nat]]
      BY <1>4, <2>3 DEF Reserve, Go, CInv, CallTypeOK
    <3> QED  BY <2>4, <3>1, <3>2 DEF CInv, CallTypeOK
  <2>8. claim.state = "pending" /\ claim.key = c.key /\ claim.body = c.body
    OBVIOUS
  <2> HIDE DEF c, claim, going
  <2>9. KeyOfOne'
    BY <2>2, <2>5, <2>8 DEF CInv, KeyOfOne
  <2>10. \A e \in Deliveries : AtWork(e) => e # d /\ arrivals[e].call.request \in CallIds
                                /\ arrivals[e].call.request # c.request
    <3>1. ASSUME NEW e \in Deliveries, AtWork(e)
          PROVE  arrivals[e].call.request \in CallIds /\ claims[arrivals[e].call.request].state = "pending"
      BY <3>1 DEF CInv, CallTypeOK, Idle, AtWork, Calls, WorkIsClaimed
    <3> QED  BY <1>1, <2>6, <3>1 DEF AtWork
  <2>11. \A e \in Deliveries : AtWork(e)' => e = d \/ (e # d /\ AtWork(e) /\ arrivals'[e] = arrivals[e])
    BY <2>3 DEF AtWork
  <2>12. WorkIsClaimed'
    BY <1>2, <2>2, <2>3, <2>8, <2>10, <2>11 DEF CInv, WorkIsClaimed
  <2>13. WorksAlone'
    BY <2>3, <2>10, <2>11 DEF CInv, WorksAlone
  <2>14. \A x \in executions : x.request \in CallIds /\ x.request # c.request
    BY <2>6 DEF CInv, CallTypeOK, ExecutedWasClaimed
  <2>15. ExecutedWasClaimed'
    BY <2>2, <2>3, <2>4, <2>14 DEF CInv, ExecutedWasClaimed
  <2>16. ResultWasExecuted'
    <3>1. \A r \in CallIds : claims'[r].state = "completed" => claims[r].state = "completed"
      BY <2>2, <2>8
    <3>2. \A e \in Deliveries : arrivals'[e].at = "persist" => arrivals'[e] = arrivals[e]
      BY <2>3
    <3> QED  BY <2>4, <3>1, <3>2 DEF CInv, ResultWasExecuted
  <2>17. AnswerIsRecord'
    <3>1. \A a \in answered : a.call.request \in CallIds /\ a.call.request # c.request
      BY <2>6 DEF CInv, CallTypeOK, Calls, AnswerIsRecord
    <3> QED  BY <2>2, <2>4, <3>1 DEF CInv, AnswerIsRecord
  <2> QED  BY <2>7, <2>9, <2>12, <2>13, <2>15, <2>16, <2>17 DEF CInv
<1> QED  BY <1>3, <1>4

\* The handler runs once for a claim: nobody else has executed it or is about to.
LEMMA ExecuteKeeps == ASSUME CInv, NEW d \in Deliveries, Execute(d) PROVE CInv'
<1> DEFINE c == arrivals[d].call
           number == Cardinality(executions) + 1
           run == [number |-> number, request |-> c.request, key |-> c.key]
           going == [at |-> "persist", call |-> c, result |-> number]
<1>1. arrivals[d] \in [at : {"execute"}, call : Calls]
  BY DEF CInv, CallTypeOK, Execute, Idle
<1>2. c \in Calls /\ c.request \in CallIds /\ c.key \in CallKeys /\ number \in Nat
  BY <1>1, FS_CardinalityType DEF Calls, CInv, CallTypeOK
<1>3. CASE c.key \in Unhandled
  BY <1>3, WaitingKeeps DEF Execute
<1>4. CASE c.key \notin Unhandled
  <2>1. executions' = executions \cup {run} /\ UNCHANGED <<claims, records, answered>>
    BY <1>4 DEF Execute
  <2>2. \A e \in Deliveries : arrivals'[e] = IF e = d THEN going ELSE arrivals[e]
    BY <1>4 DEF Execute, Go, CInv, CallTypeOK
  <2>3. CallTypeOK'
    <3>1. IsFiniteSet(executions')
      BY <2>1, FS_AddElement DEF CInv, CallTypeOK
    <3>2. arrivals' \in [Deliveries -> {Idle}
                        \cup [at : {"check", "preflight", "reserve", "execute"}, call : Calls]
                        \cup [at : {"persist"}, call : Calls, result : Nat]]
      BY <1>2, <1>4 DEF Execute, Go, CInv, CallTypeOK
    <3> QED  BY <1>2, <2>1, <3>1, <3>2 DEF CInv, CallTypeOK
  <2>4. /\ going.at = "persist" /\ going.call = c /\ going.result = number
        /\ run.number = number /\ run.request = c.request /\ run.key = c.key
    OBVIOUS
  <2> HIDE DEF c, number, run, going
  <2>5. AtWork(d) /\ claims[c.request].state = "pending" /\ claims[c.request].key = c.key
    BY <1>1 DEF AtWork, CInv, WorkIsClaimed, c
  <2>6. \A e \in Deliveries : AtWork(e)' => AtWork(e) /\ arrivals'[e].call = arrivals[e].call
    BY <2>2, <2>4, <2>5 DEF AtWork, c
  <2>7. KeyOfOne'
    BY <2>1 DEF CInv, KeyOfOne
  <2>8. WorkIsClaimed'
    BY <2>1, <2>6 DEF CInv, WorkIsClaimed
  <2>9. WorksAlone'
    BY <2>6 DEF CInv, WorksAlone
  <2>10. \A x \in executions : x.request # c.request
    BY <1>1 DEF CInv, ExecutedWasClaimed, c
  <2>11. \A e \in Deliveries : arrivals'[e].at = "execute" =>
            e # d /\ arrivals'[e] = arrivals[e] /\ arrivals[e].call.request # c.request
    BY <1>1, <2>2, <2>4, <2>5 DEF CInv, WorksAlone, AtWork, c
  <2>12. ExecutedWasClaimed'
    BY <2>1, <2>4, <2>5, <2>10, <2>11 DEF CInv, ExecutedWasClaimed
  <2>13. ResultWasExecuted'
    BY <2>1, <2>2, <2>4 DEF CInv, ResultWasExecuted
  <2>14. AnswerIsRecord'
    BY <2>1 DEF CInv, AnswerIsRecord
  <2> QED  BY <2>3, <2>7, <2>8, <2>9, <2>12, <2>13, <2>14 DEF CInv
<1> QED  BY <1>3, <1>4

\* A result is recorded for a pending claim, and answered; or nothing is, and the claim stays.
LEMMA PersistKeeps == ASSUME CInv, NEW d \in Deliveries, Persist(d) PROVE CInv'
<1> DEFINE c == arrivals[d].call
           result == arrivals[d].result
<1>1. arrivals[d] \in [at : {"persist"}, call : Calls, result : Nat]
  BY DEF CInv, CallTypeOK, Persist, Idle
<1>2. c \in Calls /\ c.request \in CallIds /\ result \in Nat
  BY <1>1 DEF Calls
<1>3. CASE UNCHANGED <<claims, records, answered>>
  BY <1>3, WaitingKeeps DEF Persist
<1>4. CASE /\ claims[c.request].state = "pending"
           /\ claims' = [claims EXCEPT ![c.request].state = "completed"]
           /\ records' = [records EXCEPT ![c.request] = result]
           /\ answered' = answered \cup {[call |-> c, result |-> result]}
  <2>1. claims[c.request] \in Claims
    BY <1>2, <1>4 DEF CInv, CallTypeOK, Unclaimed
  <2>2. /\ \A r \in CallIds : /\ claims'[r].state = IF r = c.request THEN "completed" ELSE claims[r].state
                              /\ claims'[r].key = claims[r].key /\ claims'[r].body = claims[r].body
                              /\ records'[r] = IF r = c.request THEN result ELSE records[r]
    BY <1>2, <1>4, <2>1 DEF CInv, CallTypeOK, Claims
  <2>3. \A e \in Deliveries : arrivals'[e] = IF e = d THEN Idle ELSE arrivals[e]
    BY DEF Persist, Go, CInv, CallTypeOK
  <2>4. CallTypeOK'
    <3>1. claims' \in [CallIds -> {Unclaimed} \cup Claims]
      BY <1>2, <1>4, <2>1 DEF CInv, CallTypeOK, Claims
    <3>2. records' \in [CallIds -> Nat] /\ answered' \subseteq [call : Calls, result : Nat]
      BY <1>2, <1>4 DEF CInv, CallTypeOK
    <3>3. arrivals' \in [Deliveries -> {Idle}
                        \cup [at : {"check", "preflight", "reserve", "execute"}, call : Calls]
                        \cup [at : {"persist"}, call : Calls, result : Nat]]
      BY DEF Persist, Go, CInv, CallTypeOK
    <3> QED  BY <3>1, <3>2, <3>3 DEF Persist, CInv, CallTypeOK
  <2>5. AtWork(d) /\ claims[c.request].key = c.key /\ claims[c.request].body = c.body
    BY <1>1 DEF AtWork, CInv, WorkIsClaimed
  <2>6. \E x \in executions : x.number = result /\ x.request = c.request
    BY <1>1 DEF CInv, ResultWasExecuted
  <2>7. executions' = executions
    BY DEF Persist
  <2>8. \A e \in Deliveries : AtWork(e)' =>
            /\ AtWork(e) /\ arrivals'[e] = arrivals[e]
            /\ arrivals[e].call.request \in CallIds /\ arrivals[e].call.request # c.request
    <3>1. \A e \in Deliveries : AtWork(e)' => e # d /\ AtWork(e) /\ arrivals'[e] = arrivals[e]
      BY <2>3 DEF AtWork, Idle
    <3>2. \A e \in Deliveries : AtWork(e) => arrivals[e].call.request \in CallIds
      BY DEF CInv, CallTypeOK, Idle, AtWork, Calls
    <3> QED  BY <2>5, <3>1, <3>2 DEF CInv, WorksAlone
  <2> DEFINE given == [call |-> c, result |-> result]
  <2>9. given.call = c /\ given.result = result /\ answered' = answered \cup {given}
    BY <1>4
  <2> HIDE DEF c, result, given
  <2>10. KeyOfOne'
    <3>1. \A r \in CallIds : claims'[r].state # "none" => claims[r].state # "none"
      BY <1>4, <2>2
    <3> QED  BY <2>2, <3>1 DEF CInv, KeyOfOne
  <2>11. WorkIsClaimed'
    BY <2>2, <2>8 DEF CInv, WorkIsClaimed
  <2>12. WorksAlone'
    BY <2>8 DEF CInv, WorksAlone
  <2>13. ExecutedWasClaimed'
    <3>1. \A x \in executions : x.request \in CallIds
      BY DEF CInv, CallTypeOK
    <3>2. \A e \in Deliveries : arrivals'[e].at = "execute" => arrivals'[e] = arrivals[e]
      BY <2>3 DEF Idle
    <3>3. \A x \in executions : claims'[x.request].state # "none" /\ claims'[x.request].key = x.key
      BY <2>2, <3>1 DEF CInv, ExecutedWasClaimed
    <3> QED  BY <2>7, <3>2, <3>3 DEF CInv, ExecutedWasClaimed
  <2>14. ResultWasExecuted'
    <3>1. \A e \in Deliveries : arrivals'[e].at = "persist" => arrivals'[e] = arrivals[e]
      BY <2>3 DEF Idle
    <3> QED  BY <2>2, <2>6, <2>7, <3>1 DEF CInv, ResultWasExecuted
  <2>15. AnswerIsRecord'
    <3>1. \A a \in answered : a.call.request \in CallIds /\ a.call.request # c.request
      BY <1>4 DEF CInv, CallTypeOK, Calls, AnswerIsRecord
    <3> QED  BY <1>2, <2>2, <2>5, <2>9, <3>1 DEF CInv, AnswerIsRecord
  <2> QED  BY <2>4, <2>10, <2>11, <2>12, <2>13, <2>14, <2>15 DEF CInv
<1> QED  BY <1>3, <1>4 DEF Persist

\* The process dies: what was under way is gone, claims and executions are not.
LEMMA GatewayCrashKeeps == CInv /\ GatewayCrash => CInv'
<1> SUFFICES ASSUME CInv, GatewayCrash PROVE CInv'
  OBVIOUS
<1>1. UNCHANGED <<claims, records, executions, answered>>
  BY DEF GatewayCrash
<1>2. \A e \in Deliveries : arrivals'[e].at = "idle"
  BY DEF GatewayCrash, Idle
<1>3. CallTypeOK'
  BY DEF GatewayCrash, CInv, CallTypeOK
<1> QED
  BY <1>1, <1>2, <1>3 DEF CInv, KeyOfOne, WorkIsClaimed, WorksAlone, AtWork,
     ExecutedWasClaimed, ResultWasExecuted, AnswerIsRecord

\* Every step keeps the invariant.
LEMMA CallNextInv == CInv /\ [CallNext]_callVars => CInv'
<1> SUFFICES ASSUME CInv, [CallNext]_callVars PROVE CInv'
  OBVIOUS
<1>1. CASE GatewayCrash
  BY <1>1, GatewayCrashKeeps
<1>2. ASSUME NEW d \in Deliveries, Arrive(d) PROVE CInv'
  <2>1. PICK c \in Calls : Go(d, [at |-> "check", call |-> c])
    BY <1>2 DEF Arrive, Calls
  <2> QED  BY <1>2, <2>1, WaitingKeeps DEF Arrive
<1>3. ASSUME NEW d \in Deliveries, CheckClaim(d) PROVE CInv'
  <2>1. arrivals[d] \in [at : {"check"}, call : Calls]
    BY <1>3 DEF CInv, CallTypeOK, CheckClaim, Idle
  <2>2. CASE Verdict(arrivals[d].call) = "free"
    <3>1. [arrivals[d] EXCEPT !.at = "preflight"] \in [at : {"preflight"}, call : Calls]
      BY <2>1
    <3> QED  BY <1>3, <2>2, <3>1, WaitingKeeps DEF CheckClaim
  <2>3. CASE Verdict(arrivals[d].call) # "free"
    BY <1>3, <2>3, SettleKeeps DEF CheckClaim
  <2> QED  BY <2>2, <2>3
<1>4. ASSUME NEW d \in Deliveries, Preflight(d) PROVE CInv'
  <2>1. arrivals[d] \in [at : {"preflight"}, call : Calls]
    BY <1>4 DEF CInv, CallTypeOK, Preflight, Idle
  <2>2. [arrivals[d] EXCEPT !.at = "reserve"] \in [at : {"reserve"}, call : Calls]
    BY <2>1
  <2>3. CASE Go(d, Idle)
    BY <1>4, <2>3, WaitingKeeps DEF Preflight
  <2>4. CASE Go(d, [arrivals[d] EXCEPT !.at = "reserve"])
    BY <1>4, <2>2, <2>4, WaitingKeeps DEF Preflight
  <2> QED  BY <1>4, <2>3, <2>4 DEF Preflight
<1>5. ASSUME NEW d \in Deliveries, Reserve(d) \/ Execute(d) \/ Persist(d) PROVE CInv'
  BY <1>5, ReserveKeeps, ExecuteKeeps, PersistKeeps
<1>6. CASE UNCHANGED callVars
  BY <1>6 DEF callVars, CInv, CallTypeOK, KeyOfOne, WorkIsClaimed, WorksAlone, AtWork,
     ExecutedWasClaimed, ResultWasExecuted, AnswerIsRecord
<1> QED  BY <1>1, <1>2, <1>3, <1>4, <1>5, <1>6 DEF CallNext

\* For any number of requests, keys, bodies and copies under way, and any crashes of the process:
\* a key is executed once at most, and who is answered is given the result of the execution of
\* exactly its own call (reserve_execution and complete_execution_on_connection of the gateway).
THEOREM CallsRunOnce == CallSpec => []RunsOnce
<1>1. CallSpec => []CInv
  BY CallInitInv, CallNextInv, PTL DEF CallSpec
<1> QED  BY <1>1, InvRunsOnce, PTL

-----------------------------------------------------------------------------
(* Identity and devices. *)

Steps == {"clear", "fail", "count", "lock", "session", "enroll", "consume"}

VisitStates ==
    {NoVisit} \cup [at : {"bootstrap"}, now : Nat, number : Numbers]
    \cup [at : Steps, row : Rows, for : {"session"} \cup Access, code : Numbers, now : Nat, number : Numbers]
    \cup [at : {"rotate"}, device : Numbers, now : Nat, number : Numbers]

CodeRows == {Absent} \cup [is : {"code"}, expires : Nat, access : Access, used : BOOLEAN]

DeviceRows ==
    {Absent} \cup [is : {"enrolled", "revoked"}, access : {"session"} \cup Access, code : Numbers, token : Numbers]

IdentityTypeOK ==
    /\ time \in Nat /\ visited \in Numbers
    /\ visits \in [Visitors -> VisitStates]
    /\ codes \in [Numbers -> CodeRows]
    /\ devices \in [Numbers -> DeviceRows]

Codes == Numbers \ {0}

\* Used up, and for no more than it was issued for: or already gone.
Spent(c, for) ==
    codes[c] # Absent => codes[c].used /\ (codes[c].access = "administrator" \/ for = "media-read-only")

\* A request that used a code up, and a device that was let in with it.
Redeems(v, c) == visits[v].at \in {"clear", "enroll"} /\ visits[v].code = c
LetIn(d, c) == devices[d] # Absent /\ devices[d].code = c

CodesAreSpent ==
    /\ \A n \in Numbers : n > visited => codes[n] = Absent
    /\ \A c \in Codes, v \in Visitors : Redeems(v, c) => c <= visited /\ Spent(c, visits[v].for)
    /\ \A c \in Codes, d \in Numbers : LetIn(d, c) => c <= visited /\ Spent(c, devices[d].access)

OnePerCode ==
    \A c \in Codes :
        /\ \A v, w \in Visitors : Redeems(v, c) /\ Redeems(w, c) => v = w
        /\ \A v \in Visitors, d \in Numbers : ~(Redeems(v, c) /\ LetIn(d, c))
        /\ \A d, e \in Numbers : LetIn(d, c) /\ LetIn(e, c) => d = e

IdentityInv == IdentityTypeOK /\ CodesAreSpent /\ OnePerCode

\* Nobody uses a code up and nobody is let in: codes come and go, and requests go on.
LEMMA NobodyLetIn ==
    ASSUME IdentityInv, IdentityTypeOK', visited' >= visited,
           \A n \in Numbers : n > visited' => codes'[n] = Absent,
           \A n \in Numbers : n <= visited => codes'[n] = codes[n] \/ codes'[n] = Absent,
           \A c \in Codes, v \in Visitors : Redeems(v, c)' => Redeems(v, c) /\ visits'[v].for = visits[v].for,
           \A c \in Codes, d \in Numbers : LetIn(d, c)' => LetIn(d, c) /\ devices'[d].access = devices[d].access
    PROVE  IdentityInv'
<1>1. visited \in Nat /\ visited' \in Nat /\ \A c \in Codes : c \in Nat /\ c \in Numbers
  BY IdentityAssumption DEF IdentityInv, IdentityTypeOK, Numbers, Codes
<1>2. ASSUME NEW c \in Codes, NEW v \in Visitors, Redeems(v, c)'
      PROVE  c <= visited' /\ Spent(c, visits[v].for)'
  <2>1. Redeems(v, c) /\ c <= visited /\ Spent(c, visits[v].for) /\ visits'[v].for = visits[v].for
    BY <1>2 DEF IdentityInv, CodesAreSpent
  <2> QED  BY <1>1, <2>1 DEF Spent
<1>3. ASSUME NEW c \in Codes, NEW d \in Numbers, LetIn(d, c)'
      PROVE  c <= visited' /\ Spent(c, devices[d].access)'
  <2>1. LetIn(d, c) /\ c <= visited /\ Spent(c, devices[d].access) /\ devices'[d].access = devices[d].access
    BY <1>3 DEF IdentityInv, CodesAreSpent
  <2> QED  BY <1>1, <2>1 DEF Spent
<1>4. CodesAreSpent'
  BY <1>2, <1>3 DEF CodesAreSpent
<1>5. OnePerCode'
  BY DEF IdentityInv, OnePerCode
<1> QED  BY <1>4, <1>5 DEF IdentityInv

\* One request goes on.
LEMMA Visited ==
    ASSUME IdentityInv, NEW v \in Visitors, NEW s \in VisitStates, Visit(v, s)
    PROVE  /\ visits' \in [Visitors -> VisitStates]
           /\ \A w \in Visitors : visits'[w] = IF w = v THEN s ELSE visits[w]
BY DEF IdentityInv, IdentityTypeOK, Visit

LEMMA VisitGoesOn ==
    ASSUME IdentityInv, NEW v \in Visitors, NEW s \in VisitStates, Visit(v, s), UNCHANGED <<time, codes, devices>>,
           visited' \in Numbers, visited' >= visited,
           \A c \in Codes : s.at \in {"clear", "enroll"} /\ s.code = c => Redeems(v, c) /\ s.for = visits[v].for
    PROVE  IdentityInv'
<1>1. visits' \in [Visitors -> VisitStates] /\ \A w \in Visitors : visits'[w] = IF w = v THEN s ELSE visits[w]
  BY Visited
<1>2. IdentityTypeOK'
  BY <1>1 DEF IdentityInv, IdentityTypeOK
<1>3. \A c \in Codes, w \in Visitors : Redeems(w, c)' => Redeems(w, c) /\ visits'[w].for = visits[w].for
  BY <1>1 DEF Redeems
<1>4. \A c \in Codes, d \in Numbers : LetIn(d, c)' => LetIn(d, c) /\ devices'[d].access = devices[d].access
  BY DEF LetIn
<1>5. \A n \in Numbers : n > visited' => codes'[n] = Absent
  BY IdentityAssumption DEF IdentityInv, IdentityTypeOK, CodesAreSpent, Numbers
<1> QED  BY <1>2, <1>3, <1>4, <1>5, NobodyLetIn

LEMMA VisitEnds ==
    ASSUME IdentityInv, NEW v \in Visitors, Visit(v, NoVisit), UNCHANGED <<time, codes, devices, visited>>
    PROVE  IdentityInv'
<1>1. NoVisit \in VisitStates /\ NoVisit.at = "none"
  BY DEF VisitStates, NoVisit
<1>2. visited' \in Numbers /\ visited' >= visited
  BY IdentityAssumption DEF IdentityInv, IdentityTypeOK, Numbers
<1> QED  BY <1>1, <1>2, VisitGoesOn

LEMMA BeginKeeps ==
    ASSUME IdentityInv, NEW v \in Visitors, NEW s \in VisitStates, Begins(v, s),
           s.at \in {"clear", "enroll"} => s.code = 0
    PROVE  IdentityInv'
<1>1. visited' \in Numbers /\ visited' >= visited
  BY IdentityAssumption DEF Begins, IdentityInv, IdentityTypeOK, Numbers
<1> QED  BY <1>1, VisitGoesOn DEF Begins, Codes

LEMMA NextNumber == IdentityInv /\ visited < MaxVisits => visited + 1 \in Codes /\ time \in Nat
BY IdentityAssumption DEF IdentityInv, IdentityTypeOK, Numbers, Codes

LEMMA RequestsKeep ==
    ASSUME IdentityInv, NEW v \in Visitors,
           \/ AskBootstrap(v) \/ InsertAccount(v) \/ AskPassword(v) \/ RecordFailure(v) \/ CountFailures(v)
           \/ LockOut(v) \/ ClearThrottle(v) \/ InsertSession(v) \/ AskEnrollment(v) \/ AskRotation(v)
    PROVE  IdentityInv'
<1>0. visits[v] \in VisitStates /\ 0 \in Numbers
  BY IdentityAssumption DEF IdentityInv, IdentityTypeOK, Numbers
<1>1. CASE AskBootstrap(v)
  <2>1. [at |-> "bootstrap", now |-> time, number |-> visited + 1] \in VisitStates
    BY <1>1, NextNumber DEF AskBootstrap, Begins, VisitStates, Codes
  <2> QED  BY <1>1, <2>1, BeginKeeps DEF AskBootstrap
<1>2. CASE InsertAccount(v)
  BY <1>2, VisitEnds DEF InsertAccount
<1>3. CASE AskPassword(v)
  <2>1. PICK right \in BOOLEAN, for \in {"session"} \cup Access :
            Begins(v, [at |-> IF right THEN "clear" ELSE "fail", row |-> "password", for |-> for,
                       code |-> 0, now |-> time, number |-> visited + 1])
    BY <1>3 DEF AskPassword
  <2> DEFINE at == IF right THEN "clear" ELSE "fail"
             s == [at |-> at, row |-> "password", for |-> for, code |-> 0, now |-> time, number |-> visited + 1]
  <2>2. at \in Steps /\ visited + 1 \in Numbers /\ time \in Nat
    BY <2>1, NextNumber DEF Begins, Codes, Steps
  <2> HIDE DEF at
  <2>3. s \in VisitStates /\ s.code = 0
    BY <1>0, <2>2 DEF VisitStates, Rows
  <2>4. Begins(v, s)
    BY <2>1 DEF at
  <2> HIDE DEF s
  <2> QED  BY <2>3, <2>4, BeginKeeps
<1>4. CASE RecordFailure(v) \/ ClearThrottle(v)
  <2> DEFINE at == IF RecordFailure(v) THEN "count" ELSE IF visits[v].for = "session" THEN "session" ELSE "enroll"
             s == [visits[v] EXCEPT !.at = at]
  <2>1. visits[v] \in [at : Steps, row : Rows, for : {"session"} \cup Access, code : Numbers, now : Nat, number : Numbers]
    BY <1>0, <1>4 DEF RecordFailure, ClearThrottle, VisitStates, NoVisit
  <2>2. at \in {"count", "session", "enroll"} /\ at \in Steps
    BY DEF Steps
  <2>3. RecordFailure(v) => visits[v].at = "fail" /\ at = "count"
    BY DEF RecordFailure
  <2>4. ~RecordFailure(v) => visits[v].at = "clear"
    BY <1>4 DEF ClearThrottle
  <2>5. Visit(v, s) /\ UNCHANGED <<time, codes, devices, visited>>
    BY <1>4 DEF RecordFailure, ClearThrottle
  <2> HIDE DEF at
  <2>6. s \in VisitStates /\ s.at = at /\ s.code = visits[v].code /\ s.for = visits[v].for
    BY <2>1, <2>2 DEF VisitStates
  <2> HIDE DEF s
  <2>7. \A c \in Codes : s.at \in {"clear", "enroll"} /\ s.code = c => Redeems(v, c) /\ s.for = visits[v].for
    BY <2>3, <2>4, <2>6 DEF Redeems
  <2>8. visited' \in Numbers /\ visited' >= visited
    BY <2>5, IdentityAssumption DEF IdentityInv, IdentityTypeOK, Numbers
  <2> QED  BY <2>5, <2>6, <2>7, <2>8, VisitGoesOn
<1>5. CASE CountFailures(v)
  <2>1. visits[v] \in [at : Steps, row : Rows, for : {"session"} \cup Access, code : Numbers, now : Nat, number : Numbers]
    BY <1>0, <1>5 DEF CountFailures, VisitStates, NoVisit
  <2>2. CASE throttle[visits[v].row].count >= FailureLimit
    <3> DEFINE s == [visits[v] EXCEPT !.at = "lock"]
    <3>1. s \in VisitStates /\ s.at = "lock"
      BY <2>1 DEF VisitStates, Steps
    <3>2. Visit(v, s) /\ UNCHANGED <<time, codes, devices, visited>>
      BY <1>5, <2>2 DEF CountFailures
    <3>3. visited' \in Numbers /\ visited' >= visited
      BY <3>2, IdentityAssumption DEF IdentityInv, IdentityTypeOK, Numbers
    <3> HIDE DEF s
    <3> QED  BY <3>1, <3>2, <3>3, VisitGoesOn
  <2>3. CASE ~(throttle[visits[v].row].count >= FailureLimit)
    BY <1>5, <2>3, VisitEnds DEF CountFailures
  <2> QED  BY <2>2, <2>3
<1>6. CASE LockOut(v)
  BY <1>6, VisitEnds DEF LockOut
<1>7. CASE InsertSession(v)
  BY <1>7, VisitEnds DEF InsertSession
<1>8. CASE AskEnrollment(v)
  <2>1. PICK n \in Numbers, for \in Access :
            Begins(v, [at |-> "consume", row |-> "code", for |-> for, code |-> n, now |-> time,
                       number |-> visited + 1])
    BY <1>0, <1>8 DEF AskEnrollment
  <2> DEFINE s == [at |-> "consume", row |-> "code", for |-> for, code |-> n, now |-> time, number |-> visited + 1]
  <2>2. s \in VisitStates /\ s.at = "consume"
    BY <2>1, NextNumber DEF Begins, Codes, Steps, VisitStates, Rows
  <2> HIDE DEF s
  <2> QED  BY <2>1, <2>2, BeginKeeps DEF s
<1>9. CASE AskRotation(v)
  <2>1. PICK n \in Numbers : Begins(v, [at |-> "rotate", device |-> n, now |-> time, number |-> visited + 1])
    BY <1>9 DEF AskRotation
  <2> DEFINE s == [at |-> "rotate", device |-> n, now |-> time, number |-> visited + 1]
  <2>2. s \in VisitStates /\ s.at = "rotate"
    BY <2>1, NextNumber DEF Begins, Codes, VisitStates
  <2> HIDE DEF s
  <2> QED  BY <2>1, <2>2, BeginKeeps DEF s
<1> QED  BY <1>1, <1>2, <1>3, <1>4, <1>5, <1>6, <1>7, <1>8, <1>9

LEMMA IssueCodeKeeps == ASSUME IdentityInv, NEW v \in Visitors, IssueCode(v) PROVE IdentityInv'
<1> DEFINE fresh(access) == [is |-> "code", expires |-> time + CodeTime, access |-> access, used |-> FALSE]
<1>1. UNCHANGED <<time, visits, devices>> /\ visited' = visited + 1 /\ visited < MaxVisits
  BY DEF IssueCode
<1>2. PICK access \in Access :
        codes' = [n \in Numbers |->
            IF n = visited + 1 THEN fresh(access)
            ELSE IF codes[n] # Absent /\ codes[n].expires < time THEN Absent ELSE codes[n]]
  BY DEF IssueCode
<1>3. visited \in Nat /\ visited' \in Numbers /\ time \in Nat /\ CodeTime \in Nat
  BY <1>1, NextNumber, IdentityAssumption DEF Codes, IdentityInv, IdentityTypeOK, Numbers
<1>4. fresh(access) \in CodeRows
  BY <1>3 DEF CodeRows
<1> HIDE DEF fresh
<1>5. IdentityTypeOK'
  BY <1>1, <1>2, <1>3, <1>4 DEF IdentityInv, IdentityTypeOK, CodeRows
<1>6. ASSUME NEW n \in Numbers
      PROVE  /\ n > visited' => codes'[n] = Absent
             /\ n <= visited => codes'[n] = codes[n] \/ codes'[n] = Absent
  <2>1. n \in Nat
    BY DEF Numbers
  <2>2. n > visited => codes[n] = Absent
    BY DEF IdentityInv, CodesAreSpent
  <2> QED  BY <1>1, <1>2, <1>3, <2>1, <2>2
<1>7. \A c \in Codes, w \in Visitors : Redeems(w, c)' => Redeems(w, c) /\ visits'[w].for = visits[w].for
  BY <1>1 DEF Redeems
<1>8. \A c \in Codes, d \in Numbers : LetIn(d, c)' => LetIn(d, c) /\ devices'[d].access = devices[d].access
  BY <1>1 DEF LetIn
<1>9. visited' >= visited
  BY <1>1, <1>3
<1> QED  BY <1>5, <1>6, <1>7, <1>8, <1>9, NobodyLetIn

\* A code serves one request: before it nobody used it up and no device was let in with it.
LEMMA ConsumeCodeKeeps == ASSUME IdentityInv, NEW v \in Visitors, ConsumeCode(v) PROVE IdentityInv'
<1> DEFINE c == visits[v].code
           ok == c # 0 /\ codes[c] # Absent /\ Consumable(c, visits[v].now, visits[v].for)
           s == [visits[v] EXCEPT !.at = IF ok THEN "clear" ELSE "fail"]
<1>1. visits[v] \in [at : Steps, row : Rows, for : {"session"} \cup Access, code : Numbers, now : Nat, number : Numbers]
  BY DEF ConsumeCode, IdentityInv, IdentityTypeOK, VisitStates, NoVisit
<1>2. UNCHANGED <<time, visited, devices>> /\ Visit(v, s) /\ visits[v].at = "consume"
  BY DEF ConsumeCode
<1>3. s \in VisitStates /\ s.at = (IF ok THEN "clear" ELSE "fail") /\ s.code = c /\ s.for = visits[v].for
  <2> DEFINE at == IF ok THEN "clear" ELSE "fail"
  <2>1. at \in Steps
    BY DEF Steps
  <2> HIDE DEF at
  <2>2. [visits[v] EXCEPT !.at = at] \in VisitStates /\ [visits[v] EXCEPT !.at = at].at = at
        /\ [visits[v] EXCEPT !.at = at].code = c /\ [visits[v] EXCEPT !.at = at].for = visits[v].for
    BY <1>1, <2>1 DEF VisitStates
  <2> QED  BY <2>2 DEF at
<1>4. visited \in Numbers /\ visited' >= visited
  BY <1>2, IdentityAssumption DEF IdentityInv, IdentityTypeOK, Numbers
<1>5. CASE ~ok
  <2>1. UNCHANGED codes
    BY <1>5 DEF ConsumeCode
  <2>2. s.at = "fail"
    BY <1>3, <1>5
  <2> HIDE DEF s, ok
  <2> QED  BY <1>2, <1>3, <1>4, <2>1, <2>2, VisitGoesOn
<1>6. CASE ok
  <2>1. codes' = [codes EXCEPT ![c].used = TRUE] /\ c \in Codes
    BY <1>1, <1>6 DEF ConsumeCode, Codes
  <2>2. codes[c] \in [is : {"code"}, expires : Nat, access : Access, used : BOOLEAN] /\ c \in Numbers
    BY <1>6, <2>1 DEF IdentityInv, IdentityTypeOK, CodeRows, Codes
  <2>3. ~codes[c].used /\ (codes[c].access = "administrator" \/ visits[v].for = "media-read-only") /\ codes[c] # Absent
    BY <1>6 DEF Consumable
  <2> DEFINE row == [codes[c] EXCEPT !.used = TRUE]
  <2>4. row \in CodeRows /\ row.used = TRUE /\ row.access = codes[c].access
    BY <2>2 DEF CodeRows
  <2>5. codes' = [codes EXCEPT ![c] = row] /\ codes \in [Numbers -> CodeRows]
    BY <2>1 DEF IdentityInv, IdentityTypeOK
  <2>6. s.at = "clear"
    BY <1>3, <1>6
  <2> HIDE DEF row, s, ok, c
  <2>7. codes' \in [Numbers -> CodeRows] /\ codes'[c] = row /\ \A n \in Numbers : n # c => codes'[n] = codes[n]
    BY <2>2, <2>4, <2>5
  <2>8. visits' \in [Visitors -> VisitStates] /\ \A w \in Visitors : visits'[w] = IF w = v THEN s ELSE visits[w]
    BY <1>2, <1>3, Visited
  <2>9. IdentityTypeOK'
    BY <1>2, <2>7, <2>8 DEF IdentityInv, IdentityTypeOK
  <2>10. c <= visited
    <3>1. c > visited => codes[c] = Absent
      BY <2>2 DEF IdentityInv, CodesAreSpent
    <3> QED  BY <1>4, <2>2, <2>3, <3>1, IdentityAssumption DEF Numbers
  <2>11. (\A w \in Visitors : ~Redeems(w, c)) /\ (\A d \in Numbers : ~LetIn(d, c))
    BY <2>1, <2>3 DEF IdentityInv, CodesAreSpent, Spent
  <2>12. \A b \in Codes, d \in Numbers : LetIn(d, b)' <=> LetIn(d, b)
    BY <1>2 DEF LetIn
  <2>13. \A b \in Codes, w \in Visitors : w # v => (Redeems(w, b)' <=> Redeems(w, b))
    BY <2>8 DEF Redeems
  <2>14. \A b \in Codes : Redeems(v, b)' <=> b = c
    BY <1>3, <2>6, <2>8 DEF Redeems
  <2>15. \A b \in Codes, w \in Visitors : b = c /\ w = v => Spent(b, visits[w].for)'
    BY <1>3, <2>3, <2>4, <2>7, <2>8 DEF Spent
  <2>16. CodesAreSpent'
    <3>1. ASSUME NEW n \in Numbers, n > visited' PROVE codes'[n] = Absent
      <4>1. n # c
        BY <1>2, <1>4, <2>2, <2>10, <3>1 DEF Numbers
      <4> QED  BY <1>2, <2>7, <3>1, <4>1 DEF IdentityInv, CodesAreSpent
    <3>2. ASSUME NEW b \in Codes, NEW w \in Visitors, Redeems(w, b)'
          PROVE  b <= visited' /\ Spent(b, visits[w].for)'
      <4>1. CASE w = v
        BY <1>2, <2>10, <2>14, <2>15, <3>2, <4>1
      <4>2. CASE w # v
        <5>1. Redeems(w, b) /\ b # c /\ visits'[w] = visits[w]
          BY <2>8, <2>11, <2>13, <3>2, <4>2
        <5>2. b <= visited /\ Spent(b, visits[w].for) /\ codes'[b] = codes[b]
          BY <2>7, <5>1 DEF IdentityInv, CodesAreSpent, Codes
        <5> QED  BY <1>2, <5>1, <5>2 DEF Spent
      <4> QED  BY <4>1, <4>2
    <3>3. ASSUME NEW b \in Codes, NEW d \in Numbers, LetIn(d, b)'
          PROVE  b <= visited' /\ Spent(b, devices[d].access)'
      <4>1. LetIn(d, b) /\ b # c
        BY <2>11, <2>12, <3>3
      <4>2. b <= visited /\ Spent(b, devices[d].access) /\ codes'[b] = codes[b]
        BY <2>7, <4>1 DEF IdentityInv, CodesAreSpent, Codes
      <4> QED  BY <1>2, <4>1, <4>2 DEF Spent
    <3> QED  BY <3>1, <3>2, <3>3 DEF CodesAreSpent
  <2>17. OnePerCode'
    <3>1. ASSUME NEW b \in Codes
          PROVE  /\ (\A x, y \in Visitors : Redeems(x, b) /\ Redeems(y, b) => x = y)'
                 /\ (\A x \in Visitors, d \in Numbers : ~(Redeems(x, b) /\ LetIn(d, b)))'
                 /\ (\A d, e \in Numbers : LetIn(d, b) /\ LetIn(e, b) => d = e)'
      BY <2>11, <2>12, <2>13, <2>14 DEF IdentityInv, OnePerCode
    <3> QED  BY <3>1 DEF OnePerCode
  <2> QED  BY <2>9, <2>16, <2>17 DEF IdentityInv
<1> QED  BY <1>5, <1>6

\* The one request that used the code up lets the one device in.
LEMMA InsertDeviceKeeps == ASSUME IdentityInv, NEW v \in Visitors, InsertDevice(v) PROVE IdentityInv'
<1>1. visits[v] \in [at : Steps, row : Rows, for : {"session"} \cup Access, code : Numbers, now : Nat, number : Numbers]
  BY DEF InsertDevice, IdentityInv, IdentityTypeOK, VisitStates, NoVisit
<1>2. UNCHANGED <<time, visited, codes>> /\ Visit(v, NoVisit) /\ visits[v].at = "enroll"
  BY DEF InsertDevice
<1>3. CASE UNCHANGED devices
  BY <1>2, <1>3, VisitEnds
<1>4. CASE devices' = [devices EXCEPT ![visits[v].number] =
                [is |-> "enrolled", access |-> visits[v].for, code |-> visits[v].code, token |-> visits[v].number]]
  <2> DEFINE m == visits[v].number
             c == visits[v].code
             for == visits[v].for
             row == [is |-> "enrolled", access |-> for, code |-> c, token |-> m]
  <2>1. row \in DeviceRows /\ row.code = c /\ row.access = for /\ row # Absent /\ m \in Numbers
    BY <1>1 DEF DeviceRows, Absent
  <2>2. devices' = [devices EXCEPT ![m] = row] /\ devices \in [Numbers -> DeviceRows]
    BY <1>4 DEF IdentityInv, IdentityTypeOK
  <2>3. NoVisit \in VisitStates /\ NoVisit.at = "none"
    BY DEF VisitStates, NoVisit
  <2>4. visits' \in [Visitors -> VisitStates] /\ \A w \in Visitors : visits'[w] = IF w = v THEN NoVisit ELSE visits[w]
    BY <1>2, <2>3, Visited
  <2>5. Redeems(v, c)
    BY <1>2 DEF Redeems
  <2> HIDE DEF row
  <2>6. devices' \in [Numbers -> DeviceRows] /\ devices'[m] = row /\ \A d \in Numbers : d # m => devices'[d] = devices[d]
    BY <2>1, <2>2
  <2>7. IdentityTypeOK'
    BY <1>2, <2>4, <2>6 DEF IdentityInv, IdentityTypeOK
  <2>8. \A b \in Codes, w \in Visitors : Redeems(w, b)' => w # v /\ Redeems(w, b) /\ visits'[w] = visits[w]
    BY <2>3, <2>4 DEF Redeems
  <2>9. \A b \in Codes, d \in Numbers : d # m => (LetIn(d, b)' <=> LetIn(d, b))
    BY <2>6 DEF LetIn
  <2>10. \A b \in Codes, d \in Numbers : d = m => (LetIn(d, b)' <=> b = c)
    BY <2>1, <2>6 DEF LetIn
  <2>11. c \in Codes => c <= visited /\ Spent(c, for)
    BY <2>5 DEF IdentityInv, CodesAreSpent
  <2>12. c \in Codes => (\A w \in Visitors : Redeems(w, c) => w = v) /\ (\A d \in Numbers : ~LetIn(d, c))
    BY <2>5 DEF IdentityInv, OnePerCode
  <2> HIDE DEF m, c, for
  <2>13. CodesAreSpent'
    <3>1. \A b \in Codes, w \in Visitors : Redeems(w, b)' => b <= visited' /\ Spent(b, visits[w].for)'
      BY <1>2, <2>8 DEF IdentityInv, CodesAreSpent, Spent
    <3>2. \A b \in Codes, d \in Numbers : LetIn(d, b)' => b <= visited' /\ Spent(b, devices[d].access)'
      BY <1>2, <2>1, <2>6, <2>9, <2>10, <2>11 DEF IdentityInv, CodesAreSpent, Spent
    <3> QED  BY <1>2, <3>1, <3>2 DEF IdentityInv, CodesAreSpent
  <2>14. OnePerCode'
    <3>1. ASSUME NEW b \in Codes
          PROVE  /\ (\A x, y \in Visitors : Redeems(x, b) /\ Redeems(y, b) => x = y)'
                 /\ (\A x \in Visitors, d \in Numbers : ~(Redeems(x, b) /\ LetIn(d, b)))'
                 /\ (\A d, e \in Numbers : LetIn(d, b) /\ LetIn(e, b) => d = e)'
      BY <2>8, <2>9, <2>10, <2>12 DEF IdentityInv, OnePerCode
    <3> QED  BY <3>1 DEF OnePerCode
  <2> QED  BY <2>7, <2>13, <2>14 DEF IdentityInv
<1> QED  BY <1>3, <1>4 DEF InsertDevice

\* A device's token or standing changes, never its code or its access.
LEMMA DeviceChanges ==
    ASSUME IdentityInv, NEW n \in Numbers, devices[n] # Absent, NEW row \in DeviceRows, row # Absent,
           row.code = devices[n].code, row.access = devices[n].access,
           devices' = [devices EXCEPT ![n] = row], UNCHANGED <<time, codes, visited>>,
           UNCHANGED visits \/ \E v \in Visitors : Visit(v, NoVisit)
    PROVE  IdentityInv'
<1>1. NoVisit \in VisitStates /\ NoVisit.at = "none"
  BY DEF VisitStates, NoVisit
<1>2. visits' \in [Visitors -> VisitStates] /\ \A w \in Visitors : visits'[w] \in {NoVisit, visits[w]}
  BY <1>1, Visited DEF IdentityInv, IdentityTypeOK
<1>3. devices' \in [Numbers -> DeviceRows] /\ devices'[n] = row /\ \A d \in Numbers : d # n => devices'[d] = devices[d]
  BY DEF IdentityInv, IdentityTypeOK
<1>4. IdentityTypeOK'
  BY <1>2, <1>3 DEF IdentityInv, IdentityTypeOK
<1>5. \A c \in Codes, w \in Visitors : Redeems(w, c)' => Redeems(w, c) /\ visits'[w].for = visits[w].for
  BY <1>1, <1>2 DEF Redeems
<1>6. \A c \in Codes, d \in Numbers : LetIn(d, c)' => LetIn(d, c) /\ devices'[d].access = devices[d].access
  BY <1>3 DEF LetIn
<1>7. visited' >= visited /\ \A b \in Numbers : b > visited' => codes'[b] = Absent
  BY IdentityAssumption DEF IdentityInv, IdentityTypeOK, CodesAreSpent, Numbers
<1> QED  BY <1>4, <1>5, <1>6, <1>7, NobodyLetIn

LEMMA RotateTokenKeeps == ASSUME IdentityInv, NEW v \in Visitors, RotateToken(v) PROVE IdentityInv'
<1> DEFINE n == visits[v].device
           row == [devices[n] EXCEPT !.token = visits[v].number]
<1>1. n \in Numbers /\ visits[v].number \in Numbers
  BY DEF RotateToken, IdentityInv, IdentityTypeOK, VisitStates, NoVisit, Steps
<1>2. UNCHANGED <<time, codes, visited>> /\ Visit(v, NoVisit)
  BY DEF RotateToken
<1>3. CASE devices[n].is = "enrolled"
  <2>1. devices[n] \in [is : {"enrolled", "revoked"}, access : {"session"} \cup Access, code : Numbers, token : Numbers]
    BY <1>1, <1>3 DEF IdentityInv, IdentityTypeOK, DeviceRows, Absent
  <2>2. row \in DeviceRows /\ row.code = devices[n].code /\ row.access = devices[n].access /\ row.is = "enrolled"
    BY <1>1, <1>3, <2>1 DEF DeviceRows
  <2>3. devices' = [devices EXCEPT ![n] = row]
    BY <1>3 DEF RotateToken
  <2>4. devices[n] # Absent /\ row # Absent
    BY <1>3, <2>2 DEF Absent
  <2> HIDE DEF row, n
  <2> QED  BY <1>1, <1>2, <2>2, <2>3, <2>4, DeviceChanges
<1>4. CASE devices[n].is # "enrolled"
  BY <1>2, <1>4, VisitEnds DEF RotateToken
<1> QED  BY <1>3, <1>4

LEMMA RevokeDeviceKeeps == ASSUME IdentityInv, NEW n \in Numbers, RevokeDevice(n) PROVE IdentityInv'
<1> DEFINE row == [devices[n] EXCEPT !.is = "revoked"]
<1>1. devices[n] \in [is : {"enrolled", "revoked"}, access : {"session"} \cup Access, code : Numbers, token : Numbers]
  BY DEF RevokeDevice, IdentityInv, IdentityTypeOK, DeviceRows, Absent
<1>2. row \in DeviceRows /\ row.code = devices[n].code /\ row.access = devices[n].access /\ row.is = "revoked"
  BY <1>1 DEF DeviceRows
<1>3. devices' = [devices EXCEPT ![n] = row] /\ UNCHANGED <<time, codes, visited, visits>>
  BY DEF RevokeDevice
<1>4. devices[n] # Absent /\ row # Absent
  BY <1>1, <1>2 DEF Absent
<1> HIDE DEF row
<1> QED  BY <1>2, <1>3, <1>4, DeviceChanges

LEMMA IdentityInitInv == IdentityInit => IdentityInv
<1> SUFFICES ASSUME IdentityInit PROVE IdentityInv
  OBVIOUS
<1>1. IdentityTypeOK
  BY IdentityAssumption DEF IdentityInit, IdentityTypeOK, Numbers, VisitStates, CodeRows, DeviceRows
<1>2. (\A n \in Numbers : codes[n] = Absent /\ devices[n] = Absent) /\ \A v \in Visitors : visits[v] = NoVisit
  BY DEF IdentityInit
<1> QED  BY <1>1, <1>2 DEF IdentityInv, CodesAreSpent, OnePerCode, Redeems, LetIn, NoVisit

LEMMA IdentityNextInv == IdentityInv /\ [IdentityNext]_identityVars => IdentityInv'
<1> SUFFICES ASSUME IdentityInv, [IdentityNext]_identityVars PROVE IdentityInv'
  OBVIOUS
<1>1. ASSUME UNCHANGED <<visits, visited, codes, devices>>, time' \in Nat PROVE IdentityInv'
  <2>1. IdentityTypeOK'
    BY <1>1 DEF IdentityInv, IdentityTypeOK
  <2> QED
    BY <1>1, <2>1 DEF IdentityInv, CodesAreSpent, OnePerCode, Redeems, LetIn, Spent
<1>2. CASE TimePasses
  BY <1>1, <1>2 DEF TimePasses, IdentityInv, IdentityTypeOK
<1>3. ASSUME NEW n \in Numbers, SlideSession(n) \/ RevokeSession(n) PROVE IdentityInv'
  BY <1>1, <1>3 DEF SlideSession, RevokeSession, IdentityInv, IdentityTypeOK
<1>4. CASE UNCHANGED identityVars
  BY <1>1, <1>4 DEF identityVars, IdentityInv, IdentityTypeOK
<1>5. CASE IdentityNext
  BY <1>2, <1>3, <1>5, RequestsKeep, IssueCodeKeeps, ConsumeCodeKeeps, InsertDeviceKeeps, RotateTokenKeeps,
     RevokeDeviceKeeps DEF IdentityNext
<1> QED  BY <1>4, <1>5

\* For any number of requests at once and any clock: a pairing code lets in one device at most, and
\* with no more access than it was issued for (enroll_with_pairing_code_access and enroll).
THEOREM OneDeviceForACode == IdentitySpec => []OneDevicePerCode
<1>1. IdentitySpec => []IdentityInv
  BY IdentityInitInv, IdentityNextInv, PTL DEF IdentitySpec
<1>2. IdentityInv => OneDevicePerCode
  <2> SUFFICES ASSUME IdentityInv, NEW d \in Numbers, NEW e \in Numbers, devices[d] # Absent, devices[d].code # 0
               PROVE  /\ codes[devices[d].code] # Absent =>
                            (codes[devices[d].code].access = "administrator" \/ devices[d].access = "media-read-only")
                      /\ (devices[e] # Absent /\ devices[e].code = devices[d].code) => d = e
    BY DEF OneDevicePerCode
  <2>1. devices[d].code \in Codes
    BY DEF IdentityInv, IdentityTypeOK, DeviceRows, Codes
  <2> QED  BY <2>1 DEF IdentityInv, CodesAreSpent, OnePerCode, Spent, LetIn
<1> QED  BY <1>1, <1>2, PTL

-----------------------------------------------------------------------------
(* Backups. *)

Databases == [schema : Nat, data : Nat]
Manifests == [schema : Nat, db : Databases, roots : Nat]
Copies(S) == {NoFile, Rotten} \cup [is : {"file"}, content : S]
WrittenManifests == {NoFile} \cup [is : {"file"}, content : Manifests]
BackupFiles == [db : Copies(Databases), roots : Copies(Nat), manifest : WrittenManifests]
BackupNumbers == 1 .. MaxBackups

BackupTypeOK ==
    /\ live \in [db : Databases, roots : Nat] /\ before \in Databases
    /\ program \in {"off", "starting", "migrating", "serving"}
    /\ making \in {NotMaking} \cup [at : {"db", "roots", "manifest"}, number : BackupNumbers, schema : Nat]
    /\ files \in [BackupNumbers -> BackupFiles]
    /\ restored \in [db : Copies(Databases), roots : Copies(Nat), staged : BOOLEAN]
    /\ restoring \in {NotRestoring} \cup [at : {"killed"}]
                     \cup [at : {"stage"}, number : BackupNumbers, manifest : Manifests]
                     \cup [at : {"verify", "publish db", "publish roots", "done"}, number : BackupNumbers,
                           manifest : Manifests, db : Copies(Databases), roots : Copies(Nat)]

\* The backup being made has its copies so far, which a start waits for, and no manifest yet.
MakingInOrder ==
    making # NotMaking =>
        /\ program \in {"starting", "serving"}
        /\ files[making.number].manifest = NoFile
        /\ making.at \in {"roots", "manifest"} =>
            /\ files[making.number].db.is = "file"
            /\ program = "starting" => files[making.number].db = Holding(before)
        /\ making.at = "manifest" => files[making.number].roots.is = "file"

\* The database that the program found is in a backup.
BeforeIn(b) == b.manifest.is = "file" /\ b.manifest.content.db = before
BeforeIsKept == \E n \in BackupNumbers : BeforeIn(files[n])

\* What a start found can be had back before a migration runs.
MigratesInOrder ==
    /\ live.db.schema <= Release
    /\ program = "starting" => live.db = before
    /\ program \in {"migrating", "serving"} => before.schema = 0 \/ before.schema >= Release \/ BeforeIsKept
    /\ before.schema > 0 /\ live.db.schema > before.schema => BeforeIsKept

\* What is published was compared with the manifest, after it was copied.
PublishesInOrder ==
    /\ restored.db # Rotten /\ restored.roots # Rotten
    /\ restoring.at \in {"stage", "verify", "publish db", "publish roots", "done"} =>
        restoring.manifest.schema = restoring.manifest.db.schema
    /\ restoring.at \in {"publish db", "publish roots"} => StagedIntact
    /\ restoring.at \in {"publish roots", "done"} => restored.db = Holding(restoring.manifest.db)
    /\ restoring.at = "done" => restored.roots = Holding(restoring.manifest.roots)

BackupInv == BackupTypeOK /\ MakingInOrder /\ MigratesInOrder /\ PublishesInOrder

\* The program and the backups go on while the restore command rests, and the other way round.
LEMMA RestoreRests ==
    PublishesInOrder /\ UNCHANGED <<restoring, restored>> => PublishesInOrder'
BY DEF PublishesInOrder, StagedIntact

LEMMA ProgramRests ==
    MakingInOrder /\ MigratesInOrder /\ UNCHANGED <<live, before, program, making, files>>
        => (MakingInOrder /\ MigratesInOrder)'
BY DEF MakingInOrder, MigratesInOrder, BeforeIsKept, BeforeIn

\* One file of one backup is written.
LEMMA Written ==
    ASSUME BackupTypeOK, NEW n \in BackupNumbers
    PROVE  /\ \A c \in Databases : Write(n, "db", c) =>
                /\ files' \in [BackupNumbers -> BackupFiles]
                /\ files'[n].db = Holding(c) /\ files'[n].roots = files[n].roots
                /\ files'[n].manifest = files[n].manifest
                /\ \A m \in BackupNumbers \ {n} : files'[m] = files[m]
           /\ \A c \in Nat : Write(n, "roots", c) =>
                /\ files' \in [BackupNumbers -> BackupFiles]
                /\ files'[n].roots = Holding(c) /\ files'[n].db = files[n].db
                /\ files'[n].manifest = files[n].manifest
                /\ \A m \in BackupNumbers \ {n} : files'[m] = files[m]
           /\ \A c \in Manifests : Write(n, "manifest", c) =>
                /\ files' \in [BackupNumbers -> BackupFiles]
                /\ files'[n].manifest = Holding(c) /\ files'[n].db = files[n].db /\ files'[n].roots = files[n].roots
                /\ \A m \in BackupNumbers \ {n} : files'[m] = files[m]
<1>1. files \in [BackupNumbers -> BackupFiles] /\ files[n] \in BackupFiles
  BY DEF BackupTypeOK
<1>2. ASSUME NEW c \in Databases, Write(n, "db", c)
      PROVE  /\ files' \in [BackupNumbers -> BackupFiles]
             /\ files'[n].db = Holding(c) /\ files'[n].roots = files[n].roots
             /\ files'[n].manifest = files[n].manifest
             /\ \A m \in BackupNumbers \ {n} : files'[m] = files[m]
  <2> DEFINE b == [files[n] EXCEPT !["db"] = Holding(c)]
  <2>1. b \in BackupFiles /\ b.db = Holding(c) /\ b.roots = files[n].roots /\ b.manifest = files[n].manifest
    BY <1>1 DEF BackupFiles, Copies, Holding
  <2>2. files' = [files EXCEPT ![n] = b]
    BY <1>2 DEF Write
  <2> HIDE DEF b
  <2> QED  BY <1>1, <2>1, <2>2
<1>3. ASSUME NEW c \in Nat, Write(n, "roots", c)
      PROVE  /\ files' \in [BackupNumbers -> BackupFiles]
             /\ files'[n].roots = Holding(c) /\ files'[n].db = files[n].db
             /\ files'[n].manifest = files[n].manifest
             /\ \A m \in BackupNumbers \ {n} : files'[m] = files[m]
  <2> DEFINE b == [files[n] EXCEPT !["roots"] = Holding(c)]
  <2>1. b \in BackupFiles /\ b.roots = Holding(c) /\ b.db = files[n].db /\ b.manifest = files[n].manifest
    BY <1>1 DEF BackupFiles, Copies, Holding
  <2>2. files' = [files EXCEPT ![n] = b]
    BY <1>3 DEF Write
  <2> HIDE DEF b
  <2> QED  BY <1>1, <2>1, <2>2
<1>4. ASSUME NEW c \in Manifests, Write(n, "manifest", c)
      PROVE  /\ files' \in [BackupNumbers -> BackupFiles]
             /\ files'[n].manifest = Holding(c) /\ files'[n].db = files[n].db /\ files'[n].roots = files[n].roots
             /\ \A m \in BackupNumbers \ {n} : files'[m] = files[m]
  <2> DEFINE b == [files[n] EXCEPT !["manifest"] = Holding(c)]
  <2>1. b \in BackupFiles /\ b.manifest = Holding(c) /\ b.db = files[n].db /\ b.roots = files[n].roots
    BY <1>1 DEF BackupFiles, WrittenManifests, Holding
  <2>2. files' = [files EXCEPT ![n] = b]
    BY <1>4 DEF Write
  <2> HIDE DEF b
  <2> QED  BY <1>1, <2>1, <2>2
<1> QED  BY <1>2, <1>3, <1>4

LEMMA BackupInitInv == BackupInit => BackupInv
<1> SUFFICES ASSUME BackupInit PROVE BackupInv
  OBVIOUS
<1>1. PICK s \in 0 .. Release : live = [db |-> [schema |-> s, data |-> 0], roots |-> 0]
  BY DEF BackupInit
<1>2. live \in [db : Databases, roots : Nat] /\ live.db.schema <= Release /\ before = live.db
  BY <1>1, BackupAssumption DEF BackupInit, Databases
<1>3. files \in [BackupNumbers -> BackupFiles]
  BY DEF BackupInit, BackupNumbers, BackupFiles, NoBackup, Copies, WrittenManifests
<1>4. restored \in [db : Copies(Databases), roots : Copies(Nat), staged : BOOLEAN]
      /\ restored.db # Rotten /\ restored.roots # Rotten
  BY DEF BackupInit, EmptyTarget, Copies, NoFile, Rotten
<1>5. BackupTypeOK
  BY <1>2, <1>3, <1>4 DEF BackupInit, BackupTypeOK
<1>6. MakingInOrder /\ PublishesInOrder
  BY <1>4 DEF BackupInit, MakingInOrder, PublishesInOrder, NotRestoring
<1>7. MigratesInOrder
  BY <1>2, BackupAssumption DEF BackupInit, MigratesInOrder, Databases
<1> QED  BY <1>5, <1>6, <1>7 DEF BackupInv

LEMMA LiveTyped ==
    ASSUME BackupInv
    PROVE  /\ live.db \in Databases /\ live.db.schema \in Nat /\ live.db.data \in Nat /\ live.roots \in Nat
           /\ before.schema \in Nat /\ Release \in Nat
BY BackupAssumption DEF BackupInv, BackupTypeOK, Databases

\* The program starts, migrates, serves and stops.
LEMMA ProgramKeeps ==
    ASSUME BackupInv, StartProgram \/ ToMigrations \/ Serve \/ StopProgram
    PROVE  BackupInv'
<1>1. UNCHANGED <<live, files, restoring, restored>>
  BY DEF StartProgram, ToMigrations, Serve, StopProgram
<1>2. PublishesInOrder'
  BY <1>1, RestoreRests DEF BackupInv
<1>3. BackupTypeOK'
  BY <1>1 DEF StartProgram, ToMigrations, Serve, StopProgram, BackupInv, BackupTypeOK
<1>4. MakingInOrder'
  BY <1>1 DEF StartProgram, ToMigrations, Serve, StopProgram, BackupInv, MakingInOrder
<1>5. MigratesInOrder'
  <2>1. CASE StartProgram
    BY <1>1, <2>1, LiveTyped DEF StartProgram, BackupInv, MigratesInOrder
  <2>2. CASE ToMigrations \/ Serve \/ StopProgram
    <3>1. before' = before /\ (BeforeIsKept' <=> BeforeIsKept)
      BY <1>1, <2>2 DEF ToMigrations, Serve, StopProgram, BeforeIsKept, BeforeIn
    <3>2. CASE ToMigrations
      BY <1>1, <3>1, <3>2, LiveTyped DEF ToMigrations, BackupInv, MigratesInOrder, BacksUp, Pending, Existing
    <3>3. CASE Serve \/ StopProgram
      BY <1>1, <3>1, <3>3 DEF Serve, StopProgram, BackupInv, MigratesInOrder
    <3> QED  BY <2>2, <3>2, <3>3
  <2> QED  BY <2>1, <2>2
<1> QED  BY <1>2, <1>3, <1>4, <1>5 DEF BackupInv

\* The database and the roots change.
LEMMA LiveKeeps ==
    ASSUME BackupInv, Migrate \/ ChangeData \/ EditRoots
    PROVE  BackupInv'
<1>1. UNCHANGED <<before, program, making, files, restoring, restored>>
  BY DEF Migrate, ChangeData, EditRoots
<1>2. PublishesInOrder' /\ MakingInOrder' /\ (BeforeIsKept' <=> BeforeIsKept)
  BY <1>1, RestoreRests DEF BackupInv, MakingInOrder, BeforeIsKept, BeforeIn
<1>3. live \in [db : Databases, roots : Nat]
  BY DEF BackupInv, BackupTypeOK
<1> DEFINE schema == IF Migrate THEN live.db.schema + 1 ELSE live.db.schema
           data == IF Migrate \/ ~ChangeData THEN live.db.data ELSE live.db.data + 1
           roots == IF Migrate \/ ChangeData THEN live.roots ELSE live.roots + 1
<1>4. schema \in Nat /\ data \in Nat /\ roots \in Nat
  BY LiveTyped
<1>5. live' = [live EXCEPT !.db = [live.db EXCEPT !.schema = schema, !.data = data], !.roots = roots]
  <2>1. CASE Migrate
    BY <1>3, <2>1 DEF Migrate, Databases
  <2>2. CASE ChangeData /\ ~Migrate
    BY <1>3, <2>2 DEF ChangeData, Databases
  <2>3. CASE ~ChangeData /\ ~Migrate
    BY <1>3, <2>3 DEF EditRoots, Databases
  <2> QED  BY <2>1, <2>2, <2>3
<1>6. schema # live.db.schema => program = "migrating" /\ schema = live.db.schema + 1 /\ live.db.schema < Release
  BY DEF Migrate, Pending
<1>7. program = "starting" => ~Migrate /\ ~ChangeData
  BY DEF Migrate, ChangeData
<1>8. program = "starting" => schema = live.db.schema /\ data = live.db.data
  BY <1>7
<1> HIDE DEF schema, data, roots
<1>9. live' \in [db : Databases, roots : Nat] /\ live'.db.schema = schema /\ live'.db.data = data
      /\ live'.db \in Databases
  BY <1>3, <1>4, <1>5 DEF Databases
<1>10. BackupTypeOK'
  BY <1>1, <1>9 DEF BackupInv, BackupTypeOK
<1>11. program = "starting" => live'.db = live.db
  BY <1>3, <1>8, <1>9 DEF Databases
<1>12. MigratesInOrder'
  BY <1>1, <1>2, <1>4, <1>6, <1>9, <1>11, LiveTyped DEF BackupInv, MigratesInOrder
<1> QED  BY <1>2, <1>10, <1>12 DEF BackupInv

LEMMA BeginBackupKeeps == ASSUME BackupInv, BeginBackup PROVE BackupInv'
<1>1. UNCHANGED <<live, before, program, files, restoring, restored>> /\ program \in {"starting", "serving"}
  BY DEF BeginBackup
<1>2. PICK n \in BackupNumbers : files[n] = NoBackup /\ making' = [at |-> "db", number |-> n, schema |-> live.db.schema]
  BY DEF BeginBackup, BackupNumbers
<1>3. BackupTypeOK'
  BY <1>1, <1>2, LiveTyped DEF BackupInv, BackupTypeOK
<1>4. MakingInOrder'
  BY <1>1, <1>2 DEF MakingInOrder, NoBackup
<1>5. MigratesInOrder' /\ PublishesInOrder'
  BY <1>1, RestoreRests DEF BackupInv, MigratesInOrder, BeforeIsKept, BeforeIn
<1> QED  BY <1>3, <1>4, <1>5 DEF BackupInv

\* A file of the backup being made that is not its manifest.
LEMMA CopyKeeps ==
    ASSUME BackupInv, CopyDatabase \/ CopyRoots
    PROVE  BackupInv'
<1> DEFINE n == making.number
<1>1. UNCHANGED <<live, before, program, restoring, restored>> /\ making # NotMaking
  BY DEF CopyDatabase, CopyRoots, NotMaking
<1>2. making \in [at : {"db", "roots", "manifest"}, number : BackupNumbers, schema : Nat] /\ n \in BackupNumbers
  BY <1>1 DEF BackupInv, BackupTypeOK
<1>3. making' = [making EXCEPT !.at = IF CopyDatabase THEN "roots" ELSE "manifest"]
  BY DEF CopyDatabase, CopyRoots
<1>4. making' \in [at : {"db", "roots", "manifest"}, number : BackupNumbers, schema : Nat]
      /\ making'.at = (IF CopyDatabase THEN "roots" ELSE "manifest") /\ making'.number = n
  BY <1>2, <1>3
<1>5. /\ files' \in [BackupNumbers -> BackupFiles]
      /\ files'[n].manifest = files[n].manifest
      /\ \A m \in BackupNumbers \ {n} : files'[m] = files[m]
      /\ CopyDatabase => files'[n].db = Holding(live.db) /\ files'[n].roots = files[n].roots
      /\ ~CopyDatabase => files'[n].roots = Holding(live.roots) /\ files'[n].db = files[n].db
  <2> live.db \in Databases /\ live.roots \in Nat /\ BackupTypeOK
    BY LiveTyped DEF BackupInv
  <2>1. CASE CopyDatabase
    BY <1>2, <2>1, Written DEF CopyDatabase
  <2>2. CASE ~CopyDatabase
    BY <1>2, <2>2, Written DEF CopyRoots
  <2> QED  BY <2>1, <2>2
<1>6. ~CopyDatabase => making.at = "roots"
  BY DEF CopyRoots
<1>7. making' # NotMaking
  BY <1>4 DEF NotMaking
<1> DEFINE copied == CopyDatabase
<1> HIDE DEF n, copied
<1>8. BackupTypeOK'
  BY <1>1, <1>4, <1>5 DEF BackupInv, BackupTypeOK
<1>9. MakingInOrder'
  <2>1. program' \in {"starting", "serving"} /\ files'[n].manifest = NoFile
    BY <1>1, <1>5 DEF BackupInv, MakingInOrder, n
  <2>2. CASE CopyDatabase
    <3>1. making'.at = "roots" /\ files'[n].db = Holding(live.db)
      BY <1>4, <1>5, <2>2
    <3>2. program = "starting" => live.db = before
      BY DEF BackupInv, MigratesInOrder
    <3> QED  BY <1>1, <1>4, <2>1, <3>1, <3>2 DEF MakingInOrder, Holding
  <2>3. CASE ~CopyDatabase
    <3>1. files'[n].db = files[n].db /\ files'[n].roots.is = "file"
      BY <1>5, <2>3 DEF Holding
    <3>2. files[n].db.is = "file" /\ (program = "starting" => files[n].db = Holding(before))
      BY <1>1, <1>6, <2>3 DEF BackupInv, MakingInOrder, n
    <3> QED  BY <1>1, <1>4, <2>1, <3>1, <3>2 DEF MakingInOrder
  <2> QED  BY <2>2, <2>3
<1>10. BeforeIsKept' <=> BeforeIsKept
  BY <1>1, <1>2, <1>5 DEF BeforeIsKept, BeforeIn
<1>11. MigratesInOrder' /\ PublishesInOrder'
  BY <1>1, <1>10, RestoreRests DEF BackupInv, MigratesInOrder
<1> QED  BY <1>8, <1>9, <1>11 DEF BackupInv

\* Only with the manifest does a start go on, and then what it found is kept.
LEMMA WriteManifestKeeps == ASSUME BackupInv, WriteManifest PROVE BackupInv'
<1> DEFINE n == making.number
           m == [schema |-> making.schema, db |-> files[n].db.content, roots |-> files[n].roots.content]
<1>1. UNCHANGED <<live, before, restoring, restored>> /\ making # NotMaking /\ making.at = "manifest"
      /\ making' = NotMaking /\ Write(n, "manifest", m)
      /\ program' = IF program = "starting" THEN "migrating" ELSE program
  BY DEF WriteManifest, NotMaking
<1>2. making \in [at : {"db", "roots", "manifest"}, number : BackupNumbers, schema : Nat] /\ n \in BackupNumbers
  BY <1>1 DEF BackupInv, BackupTypeOK
<1>3. /\ program \in {"starting", "serving"} /\ files[n].manifest = NoFile
      /\ files[n].db.is = "file" /\ files[n].roots.is = "file"
      /\ program = "starting" => files[n].db = Holding(before)
  BY <1>1 DEF BackupInv, MakingInOrder
<1>4. files[n].db \in Copies(Databases) /\ files[n].roots \in Copies(Nat)
  BY <1>2 DEF BackupInv, BackupTypeOK, BackupFiles
<1>5. files[n].db.content \in Databases /\ files[n].roots.content \in Nat
  BY <1>3, <1>4 DEF Copies, NoFile, Rotten
<1>6. m \in Manifests /\ m.db = files[n].db.content
  BY <1>2, <1>5 DEF Manifests
<1> HIDE DEF m
<1>7. /\ files' \in [BackupNumbers -> BackupFiles]
      /\ files'[n].manifest = Holding(m)
      /\ \A k \in BackupNumbers \ {n} : files'[k] = files[k]
  BY <1>1, <1>2, <1>6, Written DEF BackupInv
<1> HIDE DEF n
<1>8. BackupTypeOK'
  BY <1>1, <1>3, <1>7 DEF BackupInv, BackupTypeOK
<1>9. BeforeIsKept => BeforeIsKept'
  <2>1. ~BeforeIn(files[n])
    BY <1>3 DEF BeforeIn, NoFile
  <2> QED  BY <1>1, <1>7, <2>1 DEF BeforeIsKept, BeforeIn
<1>10. program = "starting" => BeforeIsKept'
  <2>1. program = "starting" => m.db = before
    BY <1>3, <1>6 DEF Holding
  <2> QED  BY <1>1, <1>2, <1>7, <2>1 DEF BeforeIsKept, BeforeIn, Holding
<1>11. MigratesInOrder'
  BY <1>1, <1>3, <1>9, <1>10 DEF BackupInv, MigratesInOrder
<1> QED  BY <1>1, <1>8, <1>11, RestoreRests DEF BackupInv, MakingInOrder

LEMMA FailBackupKeeps == ASSUME BackupInv, FailBackup PROVE BackupInv'
<1> DEFINE n == making.number
<1>1. UNCHANGED <<live, before, restoring, restored>> /\ making # NotMaking /\ making' = NotMaking
      /\ program' = (IF program = "starting" THEN "off" ELSE program) /\ files' = [files EXCEPT ![n] = NoBackup]
  BY DEF FailBackup
<1>2. n \in BackupNumbers
  BY <1>1 DEF BackupInv, BackupTypeOK
<1>3. files[n].manifest = NoFile /\ program \in {"starting", "serving"}
  BY <1>1 DEF BackupInv, MakingInOrder
<1>4. NoBackup \in BackupFiles
  BY DEF NoBackup, BackupFiles, Copies, WrittenManifests
<1> HIDE DEF n
<1>5. files' \in [BackupNumbers -> BackupFiles] /\ \A k \in BackupNumbers \ {n} : files'[k] = files[k]
  BY <1>1, <1>2, <1>4 DEF BackupInv, BackupTypeOK
<1>6. BeforeIsKept => BeforeIsKept'
  BY <1>1, <1>3, <1>5 DEF BeforeIsKept, BeforeIn, NoFile
<1>7. BackupTypeOK'
  BY <1>1, <1>3, <1>5 DEF BackupInv, BackupTypeOK
<1>8. MigratesInOrder'
  BY <1>1, <1>3, <1>6 DEF BackupInv, MigratesInOrder
<1> QED  BY <1>1, <1>7, <1>8, RestoreRests DEF BackupInv, MakingInOrder

\* The backup being made does not rot, and no manifest does.
LEMMA RotKeeps == ASSUME BackupInv, Rot PROVE BackupInv'
<1>1. UNCHANGED <<live, before, program, making, restoring, restored>>
  BY DEF Rot
<1>2. PICK n \in BackupNumbers, file \in {"db", "roots"} :
        making.number # n /\ files' = [files EXCEPT ![n][file] = Rotten]
  BY DEF Rot, Kept, BackupNumbers
<1>3. files \in [BackupNumbers -> BackupFiles] /\ files[n] \in BackupFiles
  BY DEF BackupInv, BackupTypeOK
<1> DEFINE b == [files[n] EXCEPT ![file] = Rotten]
<1>4. b \in BackupFiles /\ b.manifest = files[n].manifest
  <2>1. CASE file = "db"
    BY <1>3, <2>1 DEF BackupFiles, Copies
  <2>2. CASE file = "roots"
    BY <1>3, <2>2 DEF BackupFiles, Copies
  <2> QED  BY <2>1, <2>2
<1>5. files' = [files EXCEPT ![n] = b]
  BY <1>2
<1> HIDE DEF b
<1>6. files' \in [BackupNumbers -> BackupFiles] /\ files'[n].manifest = files[n].manifest
      /\ \A m \in BackupNumbers \ {n} : files'[m] = files[m]
  BY <1>3, <1>4, <1>5
<1>7. BackupTypeOK'
  BY <1>1, <1>6 DEF BackupInv, BackupTypeOK
<1>8. making # NotMaking => making.number \in BackupNumbers \ {n}
  BY <1>2 DEF BackupInv, BackupTypeOK
<1>9. MakingInOrder'
  BY <1>1, <1>6, <1>8 DEF BackupInv, MakingInOrder
<1>10. MigratesInOrder'
  BY <1>1, <1>6 DEF BackupInv, MigratesInOrder, BeforeIsKept, BeforeIn
<1> QED  BY <1>1, <1>7, <1>9, <1>10, RestoreRests DEF BackupInv

\* What the restore command does leaves the program and the backups alone.
LEMMA RestoreKeeps ==
    ASSUME BackupInv, UNCHANGED <<live, before, program, making, files>>, PublishesInOrder',
           restored' \in [db : Copies(Databases), roots : Copies(Nat), staged : BOOLEAN],
           restoring' \in {NotRestoring} \cup [at : {"killed"}]
                     \cup [at : {"stage"}, number : BackupNumbers, manifest : Manifests]
                     \cup [at : {"verify", "publish db", "publish roots", "done"}, number : BackupNumbers,
                           manifest : Manifests, db : Copies(Databases), roots : Copies(Nat)]
    PROVE  BackupInv'
<1>1. BackupTypeOK'
  BY DEF BackupInv, BackupTypeOK
<1> QED  BY <1>1, ProgramRests DEF BackupInv

LEMMA ClearKeeps ==
    ASSUME BackupInv, UNCHANGED <<live, before, program, making, files>>, Clear
    PROVE  BackupInv'
<1>1. restored' \in [db : Copies(Databases), roots : Copies(Nat), staged : BOOLEAN]
      /\ restored'.db # Rotten /\ restored'.roots # Rotten
  BY DEF Clear, EmptyTarget, Copies, NoFile, Rotten
<1>2. PublishesInOrder'
  BY <1>1 DEF Clear, PublishesInOrder, NotRestoring
<1> QED  BY <1>1, <1>2, RestoreKeeps DEF Clear

LEMMA RestoringTyped ==
    ASSUME BackupInv
    PROVE  /\ restoring.at = "stage" => restoring \in [at : {"stage"}, number : BackupNumbers, manifest : Manifests]
           /\ restoring.at \in {"verify", "publish db", "publish roots", "done"} =>
                restoring \in [at : {"verify", "publish db", "publish roots", "done"}, number : BackupNumbers,
                              manifest : Manifests, db : Copies(Databases), roots : Copies(Nat)]
<1> DEFINE staging == [at : {"stage"}, number : BackupNumbers, manifest : Manifests]
           publishing == [at : {"verify", "publish db", "publish roots", "done"}, number : BackupNumbers,
                          manifest : Manifests, db : Copies(Databases), roots : Copies(Nat)]
<1>1. restoring \in {NotRestoring} \cup [at : {"killed"}] \cup staging \cup publishing
  BY DEF BackupInv, BackupTypeOK
<1>2. \A r \in staging : r.at = "stage"
  OBVIOUS
<1>3. \A r \in publishing : r.at \in {"verify", "publish db", "publish roots", "done"}
  OBVIOUS
<1>4. \A r \in {NotRestoring} \cup [at : {"killed"}] : r.at \in {"none", "killed"}
  BY DEF NotRestoring
<1> HIDE DEF staging, publishing
<1>5. (restoring.at = "stage" => restoring \in staging)
      /\ (restoring.at \in {"verify", "publish db", "publish roots", "done"} => restoring \in publishing)
  BY <1>1, <1>2, <1>3, <1>4
<1> QED  BY <1>5 DEF staging, publishing

\* A restore starts from files that agree with their manifest, and copies them.
LEMMA StageRestoreKeeps == ASSUME BackupInv, BeginRestore \/ Stage PROVE BackupInv'
<1>1. UNCHANGED <<live, before, program, making, files>>
  BY DEF BeginRestore, Stage
<1>2. files \in [BackupNumbers -> BackupFiles]
      /\ restored \in [db : Copies(Databases), roots : Copies(Nat), staged : BOOLEAN]
      /\ restored.db # Rotten /\ restored.roots # Rotten
  BY DEF BackupInv, BackupTypeOK, PublishesInOrder
<1>3. CASE BeginRestore
  <2>1. PICK n \in BackupNumbers :
            /\ files[n].manifest # NoFile
            /\ files[n].manifest.content.schema = Schema(files[n].manifest.content.db)
            /\ restoring' = [at |-> "stage", number |-> n, manifest |-> files[n].manifest.content]
    BY <1>3 DEF BeginRestore, Kept, BackupNumbers
  <2>2. files[n].manifest \in WrittenManifests
    BY <1>2 DEF BackupFiles
  <2>3. files[n].manifest.content \in Manifests
    BY <2>1, <2>2 DEF WrittenManifests
  <2>4. restoring' \in [at : {"stage"}, number : BackupNumbers, manifest : Manifests]
    BY <2>1, <2>3
  <2>5. PublishesInOrder'
    BY <1>2, <1>3, <2>1 DEF BeginRestore, PublishesInOrder, Schema
  <2> QED  BY <1>1, <1>2, <1>3, <2>4, <2>5, RestoreKeeps DEF BeginRestore
<1>4. CASE Stage
  <2>1. restoring \in [at : {"stage"}, number : BackupNumbers, manifest : Manifests]
    BY <1>4, RestoringTyped DEF Stage
  <2>2. files[restoring.number].db \in Copies(Databases) /\ files[restoring.number].roots \in Copies(Nat)
    BY <1>2, <2>1 DEF BackupFiles
  <2>3. restoring' = [at |-> "verify", number |-> restoring.number, manifest |-> restoring.manifest,
                      db |-> files[restoring.number].db, roots |-> files[restoring.number].roots]
        /\ restored' = [restored EXCEPT !.staged = TRUE] /\ restoring.at = "stage"
    BY <1>4 DEF Stage
  <2>4. restoring' \in [at : {"verify", "publish db", "publish roots", "done"}, number : BackupNumbers,
                        manifest : Manifests, db : Copies(Databases), roots : Copies(Nat)]
        /\ restoring'.at = "verify" /\ restoring'.manifest = restoring.manifest
    BY <2>1, <2>2, <2>3
  <2>5. restored' \in [db : Copies(Databases), roots : Copies(Nat), staged : BOOLEAN]
        /\ restored'.db = restored.db /\ restored'.roots = restored.roots
    BY <1>2, <2>3
  <2>6. PublishesInOrder'
    BY <1>2, <2>3, <2>4, <2>5 DEF BackupInv, PublishesInOrder
  <2> QED  BY <1>1, <2>4, <2>5, <2>6, RestoreKeeps
<1> QED  BY <1>3, <1>4

\* The copies are compared, and then put into place one after the other.
LEMMA PublishKeeps == ASSUME BackupInv, VerifyStaged \/ PublishDatabase \/ PublishRoots PROVE BackupInv'
<1>1. UNCHANGED <<live, before, program, making, files>>
  BY DEF VerifyStaged, PublishDatabase, PublishRoots
<1>2. restoring \in [at : {"verify", "publish db", "publish roots", "done"}, number : BackupNumbers,
                     manifest : Manifests, db : Copies(Databases), roots : Copies(Nat)]
  BY RestoringTyped DEF VerifyStaged, PublishDatabase, PublishRoots
<1>3. restored \in [db : Copies(Databases), roots : Copies(Nat), staged : BOOLEAN]
      /\ restored.db # Rotten /\ restored.roots # Rotten /\ PublishesInOrder
  BY DEF BackupInv, BackupTypeOK, PublishesInOrder
<1>4. ASSUME NEW at \in {"publish db", "publish roots", "done"}, Restore(at)
      PROVE  /\ restoring' \in [at : {"verify", "publish db", "publish roots", "done"}, number : BackupNumbers,
                                manifest : Manifests, db : Copies(Databases), roots : Copies(Nat)]
             /\ restoring'.at = at /\ restoring'.manifest = restoring.manifest
             /\ restoring'.db = restoring.db /\ restoring'.roots = restoring.roots
  BY <1>2, <1>4 DEF Restore
<1>5. \A c : Holding(c) # Rotten
  BY DEF Holding, Rotten
<1>6. CASE VerifyStaged
  <2>1. CASE StagedIntact
    <3>1. Restore("publish db") /\ UNCHANGED restored /\ restoring.at = "verify"
      BY <1>6, <2>1 DEF VerifyStaged
    <3>2. PublishesInOrder'
      BY <1>3, <1>4, <2>1, <3>1 DEF PublishesInOrder, StagedIntact
    <3> QED  BY <1>1, <1>3, <1>4, <3>1, <3>2, RestoreKeeps
  <2>2. CASE ~StagedIntact
    BY <1>1, <1>6, <2>2, ClearKeeps DEF VerifyStaged
  <2> QED  BY <2>1, <2>2
<1>7. CASE PublishDatabase
  <2>1. restored' = [restored EXCEPT !.db = restoring.db] /\ Restore("publish roots") /\ restoring.at = "publish db"
    BY <1>7 DEF PublishDatabase
  <2>2. restored' \in [db : Copies(Databases), roots : Copies(Nat), staged : BOOLEAN]
        /\ restored'.db = restoring.db /\ restored'.roots = restored.roots
    BY <1>2, <1>3, <2>1
  <2>3. PublishesInOrder'
    BY <1>3, <1>4, <1>5, <2>1, <2>2 DEF PublishesInOrder, StagedIntact
  <2> QED  BY <1>1, <1>4, <2>1, <2>2, <2>3, RestoreKeeps
<1>8. CASE PublishRoots
  <2>1. restored' = [restored EXCEPT !.roots = restoring.roots, !.staged = FALSE] /\ Restore("done")
        /\ restoring.at = "publish roots"
    BY <1>8 DEF PublishRoots
  <2>2. restored' \in [db : Copies(Databases), roots : Copies(Nat), staged : BOOLEAN]
        /\ restored'.db = restored.db /\ restored'.roots = restoring.roots
    BY <1>2, <1>3, <2>1
  <2>3. PublishesInOrder'
    BY <1>3, <1>4, <1>5, <2>1, <2>2 DEF PublishesInOrder, StagedIntact
  <2> QED  BY <1>1, <1>4, <2>1, <2>2, <2>3, RestoreKeeps
<1> QED  BY <1>6, <1>7, <1>8

LEMMA KillRestoreKeeps == ASSUME BackupInv, KillRestore PROVE BackupInv'
<1>1. UNCHANGED <<live, before, program, making, files, restored>> /\ restoring' = [at |-> "killed"]
  BY DEF KillRestore
<1>2. PublishesInOrder'
  BY <1>1 DEF BackupInv, PublishesInOrder
<1>3. restored' \in [db : Copies(Databases), roots : Copies(Nat), staged : BOOLEAN]
  BY <1>1 DEF BackupInv, BackupTypeOK
<1> QED  BY <1>1, <1>2, <1>3, RestoreKeeps

LEMMA BackupNextInv == BackupInv /\ [BackupNext]_backupVars => BackupInv'
<1> SUFFICES ASSUME BackupInv, [BackupNext]_backupVars PROVE BackupInv'
  OBVIOUS
<1>1. CASE StartProgram \/ ToMigrations \/ Serve \/ StopProgram
  BY <1>1, ProgramKeeps
<1>2. CASE Migrate \/ ChangeData \/ EditRoots
  BY <1>2, LiveKeeps
<1>3. CASE BeginBackup \/ CopyDatabase \/ CopyRoots \/ WriteManifest \/ FailBackup \/ Rot
  BY <1>3, BeginBackupKeeps, CopyKeeps, WriteManifestKeeps, FailBackupKeeps, RotKeeps
<1>4. CASE BeginRestore \/ Stage \/ VerifyStaged \/ PublishDatabase \/ PublishRoots \/ KillRestore
  BY <1>4, StageRestoreKeeps, PublishKeeps, KillRestoreKeeps
<1>5. CASE FailRestore \/ NewTarget
  BY <1>5, ClearKeeps DEF FailRestore, NewTarget
<1>6. CASE UNCHANGED backupVars
  <2>1. UNCHANGED <<live, before, program, making, files, restored, restoring>>
    BY <1>6 DEF backupVars
  <2>2. BackupTypeOK'
    BY <2>1 DEF BackupInv, BackupTypeOK
  <2> QED  BY <2>1, <2>2, ProgramRests, RestoreRests DEF BackupInv
<1> QED  BY <1>1, <1>2, <1>3, <1>4, <1>5, <1>6 DEF BackupNext

\* For any schema version, any number of backups and whatever is cut short or rots: no migration runs
\* before what the start found is in a backup, and a restore puts into place what one backup holds,
\* never a damaged file (migrate_with_backup, write_manifest_atomically
\* and restore_backup).
THEOREM BackupsCanBeHadBack == BackupSpec => []BackupsHold
<1>1. BackupSpec => []BackupInv
  BY BackupInitInv, BackupNextInv, PTL DEF BackupSpec
<1>2. BackupInv => BackupsHold
  <2> SUFFICES ASSUME BackupInv PROVE BackupsHold
    OBVIOUS
  <2>1. RestoresWhatWasBackedUp
    <3>1. restoring.at = "done" =>
            /\ restored.db = Holding(restoring.manifest.db)
            /\ restored.roots = Holding(restoring.manifest.roots)
            /\ restoring.manifest.schema = restoring.manifest.db.schema
      BY DEF BackupInv, PublishesInOrder
    <3>2. restoring.at = "done" => restored.db.content = restoring.manifest.db
      BY <3>1 DEF Holding
    <3> QED  BY <3>1, <3>2 DEF BackupInv, PublishesInOrder, RestoresWhatWasBackedUp
  <2>2. MigratesWhatIsKept
    <3> SUFFICES ASSUME before.schema > 0, live.db.schema > before.schema
                 PROVE  \E n \in Kept : files[n].manifest # NoFile /\ files[n].manifest.content.db = before
      BY DEF MigratesWhatIsKept
    <3>1. PICK n \in BackupNumbers : BeforeIn(files[n])
      BY DEF BackupInv, MigratesInOrder, BeforeIsKept
    <3>2. files[n].manifest # NoFile /\ files[n].manifest.content.db = before
      BY <3>1 DEF BeforeIn, NoFile
    <3>3. files[n] # NoBackup
      BY <3>2 DEF NoBackup
    <3> QED  BY <3>2, <3>3 DEF Kept, BackupNumbers
  <2> QED  BY <2>1, <2>2 DEF BackupsHold
<1> QED  BY <1>1, <1>2, PTL

-----------------------------------------------------------------------------
(* Lists and pages. *)

Stati == {"open", "closed"}
HistoryEntries == [item : Items, at : Times, status : Stati]
RowKeys == Nat \X Nat

\* What decides where a row stands in a list, and whether it is listed.
TimeOf(list, i, revision) ==
    IF list \in Frozen \cup Ordered THEN Latest(i, revision).at
    ELSE IF list = "scan-files" THEN 0
    ELSE IF list \in {"scan-errors", "inboxes"} THEN history[FirstSeen(i)].at
    ELSE RowAsIs(i).at

StatusOf(list, i, revision) ==
    IF list \in Frozen THEN Latest(i, revision).status ELSE RowAsIs(i).status

RowOf(list, i, revision) == RowShown(i, TimeOf(list, i, revision), StatusOf(list, i, revision))

Belongs(list, filter, i, revision) ==
    IF list \in Live
    THEN i \in Present(Len(history)) /\ (list = "inboxes" \/ Fits(filter, RowAsIs(i).status))
    ELSE /\ i \in Present(revision)
         /\ (filter = "all" /\ list # "reviews") \/ Latest(i, revision).status = "open"

PageTypeOK ==
    /\ history \in Seq(HistoryEntries)
    /\ \A m, n \in 1 .. Len(history) : m <= n => history[m].at <= history[n].at
    /\ walk.list \in Lists /\ walk.filter \in Filters(walk.list)
    /\ walk = [at |-> walk.at, list |-> walk.list, filter |-> walk.filter, cursor |-> walk.cursor,
               revision |-> walk.revision, counted |-> walk.counted, ids |-> walk.ids,
               last |-> walk.last, shown |-> walk.shown, pages |-> walk.pages]
    /\ walk.at \in {"idle", "counting", "reading", "getting", "getting-last", "done"}
    /\ walk.revision \in 0 .. Len(history)
    /\ walk.cursor \in {<<>>} \cup RowKeys
    /\ walk.ids \subseteq Present(Len(history))

LEMMA EntriesHaveEnds ==
    ASSUME history \in Seq(HistoryEntries), NEW revision \in 0 .. Len(history), NEW i \in Present(revision)
    PROVE  /\ \E n \in Entries(i, revision) : \A m \in Entries(i, revision) : m <= n
           /\ \E n \in Entries(i, revision) : \A m \in Entries(i, revision) : n <= m
<1> DEFINE S == Entries(i, revision)
           T == {revision - n : n \in S}
<1>1. S # {} /\ S \subseteq 1 .. revision /\ revision \in Nat
  BY DEF Present, Entries
<1>2. \E n \in S : \A m \in S : n <= m
  <2> HIDE DEF S
  <2>1. S \subseteq Nat
    BY <1>1
  <2> QED  BY <1>1, <2>1, LeastExists
<1> HIDE DEF S
<1>3. \E n \in S : \A m \in S : m <= n
  <2> HIDE DEF S
  <2>1. T \subseteq Nat /\ T # {}
    <3>1. \A n \in S : n \in Nat /\ n <= revision /\ revision - n \in Nat
      BY <1>1
    <3> QED  BY <1>1, <3>1
  <2>2. PICK t \in T : \A u \in T : t <= u
    <3> HIDE DEF T
    <3> QED  BY <2>1, LeastExists
  <2>3. PICK n \in S : t = revision - n
    BY <2>2
  <2>4. \A m \in S : revision - n <= revision - m
    BY <2>2, <2>3
  <2>5. \A m \in S : m \in Nat /\ n \in Nat
    BY <1>1
  <2> QED  BY <1>1, <2>4, <2>5
<1> QED  BY <1>2, <1>3 DEF S

\* The newest and the oldest entry of a row.
LEMMA EntriesAre ==
    ASSUME history \in Seq(HistoryEntries), NEW revision \in 0 .. Len(history), NEW i \in Present(revision)
    PROVE  /\ \E n \in Entries(i, revision) : /\ \A m \in Entries(i, revision) : m <= n
                                              /\ Latest(i, revision) = history[n]
           /\ Latest(i, revision) \in HistoryEntries
           /\ i \in Present(Len(history))
           /\ FirstSeen(i) \in Entries(i, Len(history))
           /\ \A m \in Entries(i, Len(history)) : FirstSeen(i) <= m
           /\ history[FirstSeen(i)] \in HistoryEntries
<1>1. Len(history) \in 0 .. Len(history) /\ i \in Present(Len(history))
  BY DEF Present, Entries
<1>2. \E n \in Entries(i, revision) : /\ \A m \in Entries(i, revision) : m <= n
                                      /\ Latest(i, revision) = history[n]
  <2> DEFINE n == CHOOSE n \in Entries(i, revision) : \A m \in Entries(i, revision) : m <= n
  <2>1. n \in Entries(i, revision) /\ \A m \in Entries(i, revision) : m <= n
    BY EntriesHaveEnds
  <2> QED  BY <2>1 DEF Latest
<1>3. FirstSeen(i) \in Entries(i, Len(history)) /\ \A m \in Entries(i, Len(history)) : FirstSeen(i) <= m
  BY <1>1, EntriesHaveEnds DEF FirstSeen
<1>4. \A n \in 1 .. Len(history) : history[n] \in HistoryEntries
  OBVIOUS
<1> QED  BY <1>1, <1>2, <1>3, <1>4 DEF Entries

ListNames == {"task-center", "catalog", "scan-tasks", "processing-tasks", "reviews", "scan-files",
              "scan-errors", "targets", "connections", "sources", "downloads", "events", "inboxes"}

LEMMA ListsAre == Lists = ListNames
BY DEF Lists, Frozen, Ordered, Growing, Live, ListNames

LEMMA PresentAre ==
    ASSUME history \in Seq(HistoryEntries), NEW revision \in 0 .. Len(history)
    PROVE  /\ Present(revision) \subseteq Items
           /\ Present(Len(history)) \subseteq Items
           /\ Present(revision) = {j \in Present(Len(history)) : FirstSeen(j) <= revision}
<1>1. \A j \in Present(revision) : j \in Present(Len(history)) /\ FirstSeen(j) <= revision
  <2> TAKE j \in Present(revision)
  <2>1. PICK n \in Entries(j, revision) : TRUE
    BY DEF Present
  <2>2. n \in Entries(j, Len(history)) /\ n <= revision /\ n \in Nat
    BY <2>1 DEF Entries
  <2>3. /\ j \in Present(Len(history)) /\ FirstSeen(j) \in Entries(j, Len(history))
        /\ \A m \in Entries(j, Len(history)) : FirstSeen(j) <= m
    BY EntriesAre
  <2>4. FirstSeen(j) \in Nat /\ FirstSeen(j) <= n
    BY <2>2, <2>3 DEF Entries
  <2> QED  BY <2>2, <2>3, <2>4
<1>2. \A j \in Present(Len(history)) : FirstSeen(j) <= revision => j \in Present(revision)
  <2> TAKE j \in Present(Len(history))
  <2> HAVE FirstSeen(j) <= revision
  <2>1. Len(history) \in 0 .. Len(history)
    OBVIOUS
  <2>2. FirstSeen(j) \in Entries(j, Len(history))
    BY <2>1, EntriesAre
  <2>3. FirstSeen(j) \in Entries(j, revision)
    BY <2>2 DEF Entries
  <2> QED  BY <2>3 DEF Present
<1> QED  BY <1>1, <1>2 DEF Present

\* A list has one row for each of the items that belong to it.
LEMMA ListedIs ==
    ASSUME history \in Seq(HistoryEntries), NEW revision \in 0 .. Len(history),
           NEW list \in Lists, NEW filter \in Filters(list)
    PROVE  Listed(list, filter, revision) =
             {RowOf(list, i, revision) : i \in {j \in Items : Belongs(list, filter, j, revision)}}
<1>1. list \in ListNames
  BY ListsAre
<1>2. filter = "all" \/ list \in {"reviews", "task-center", "catalog", "downloads", "events"}
  BY DEF Filters
<1>3. filter \in {"all", "open"}
  BY DEF Filters
<1>4. /\ Present(revision) \subseteq Items
      /\ Present(Len(history)) \subseteq Items
      /\ Present(revision) = {j \in Present(Len(history)) : FirstSeen(j) <= revision}
  BY PresentAre
<1>5. ASSUME list \in {"task-center", "catalog"} PROVE
        Listed(list, filter, revision) =
             {RowOf(list, i, revision) : i \in {j \in Items : Belongs(list, filter, j, revision)}}
  <2>1. Listed(list, filter, revision) = SnapshotRows(filter, revision)
    BY <1>5 DEF Listed, TaskCenterRows, CatalogRows
  <2>2. \A i : RowOf(list, i, revision) = RowShown(i, Latest(i, revision).at, Latest(i, revision).status)
    BY <1>5 DEF RowOf, TimeOf, StatusOf, Frozen
  <2>3. \A i \in Items : Belongs(list, filter, i, revision)
                <=> i \in Present(revision) /\ Fits(filter, Latest(i, revision).status)
    BY <1>3, <1>5 DEF Belongs, Fits, Live
  <2> QED  BY <1>4, <2>1, <2>2, <2>3 DEF SnapshotRows
<1>6. ASSUME list \in {"scan-tasks", "processing-tasks", "reviews"} PROVE
        Listed(list, filter, revision) =
             {RowOf(list, i, revision) : i \in {j \in Items : Belongs(list, filter, j, revision)}}
  <2>1. \A i : RowOf(list, i, revision) = RowShown(i, Latest(i, revision).at, RowAsIs(i).status)
    BY <1>6 DEF RowOf, TimeOf, StatusOf, Frozen, Ordered
  <2>2. \A i \in Items : Belongs(list, filter, i, revision)
                <=> /\ i \in Present(revision)
                    /\ list = "reviews" => Latest(i, revision).status = "open"
    BY <1>2, <1>3, <1>6 DEF Belongs, Live
  <2>3. CASE list = "reviews"
    <3>1. Listed(list, filter, revision) = {r \in OrderedRows(revision) : Latest(r.item, revision).status = "open"}
      BY <2>3 DEF Listed, ReviewRows
    <3>2. \A i : RowOf(list, i, revision).item = i
      BY DEF RowOf, RowShown
    <3> QED  BY <1>4, <2>1, <2>2, <2>3, <3>1, <3>2 DEF OrderedRows
  <2>4. CASE list # "reviews"
    <3>1. Listed(list, filter, revision) = OrderedRows(revision)
      BY <1>6, <2>4 DEF Listed, ScanTaskRows, ProcessingTaskRows
    <3> QED  BY <1>4, <2>1, <2>2, <2>4, <3>1 DEF OrderedRows
  <2> QED  BY <2>3, <2>4
<1>7. ASSUME list \in {"scan-files", "scan-errors"} PROVE
        Listed(list, filter, revision) =
             {RowOf(list, i, revision) : i \in {j \in Items : Belongs(list, filter, j, revision)}}
  <2>1. \A i : RowOf(list, i, revision) =
                  RowShown(i, IF list = "scan-files" THEN 0 ELSE history[FirstSeen(i)].at, RowAsIs(i).status)
    BY <1>7 DEF RowOf, TimeOf, StatusOf, Frozen, Ordered
  <2>2. \A i \in Items : Belongs(list, filter, i, revision) <=> i \in Present(revision)
    BY <1>2, <1>7 DEF Belongs, Live
  <2>3. CASE list = "scan-files"
    <3>1. Listed(list, filter, revision) = ScanFileRows(revision)
      BY <2>3 DEF Listed
    <3> QED  BY <1>4, <2>1, <2>2, <2>3, <3>1 DEF ScanFileRows
  <2>4. CASE list = "scan-errors"
    <3>1. Listed(list, filter, revision) = ScanErrorRows(revision)
      BY <2>4 DEF Listed
    <3> QED  BY <1>4, <2>1, <2>2, <2>4, <3>1 DEF ScanErrorRows
  <2> QED  BY <1>7, <2>3, <2>4
<1>8. ASSUME list \in {"targets", "connections", "sources", "downloads", "events"} PROVE
        Listed(list, filter, revision) =
             {RowOf(list, i, revision) : i \in {j \in Items : Belongs(list, filter, j, revision)}}
  <2>1. \A i : RowOf(list, i, revision) = RowShown(i, RowAsIs(i).at, RowAsIs(i).status)
    BY <1>8 DEF RowOf, TimeOf, StatusOf, Frozen, Ordered
  <2>2. \A i \in Items : Belongs(list, filter, i, revision)
                <=> i \in Present(Len(history)) /\ Fits(filter, RowAsIs(i).status)
    BY <1>8 DEF Belongs, Live
  <2>3. Listed(list, filter, revision) = LiveRows(filter)
    BY <1>2, <1>8 DEF Listed, ConnectionRows, SourceRows, DownloadRows, EventRows, TargetRows
  <2> QED  BY <1>4, <2>1, <2>2, <2>3 DEF LiveRows
<1>9. ASSUME list = "inboxes" PROVE
        Listed(list, filter, revision) =
             {RowOf(list, i, revision) : i \in {j \in Items : Belongs(list, filter, j, revision)}}
  <2>1. \A i : RowOf(list, i, revision) = RowShown(i, history[FirstSeen(i)].at, RowAsIs(i).status)
    BY <1>9 DEF RowOf, TimeOf, StatusOf, Frozen, Ordered
  <2>2. \A i \in Items : Belongs(list, filter, i, revision) <=> i \in Present(Len(history))
    BY <1>9 DEF Belongs, Live
  <2>3. Listed(list, filter, revision) = InboxRows
    BY <1>9 DEF Listed
  <2> QED  BY <1>4, <2>1, <2>2, <2>3 DEF InboxRows
<1> QED  BY <1>1, <1>5, <1>6, <1>7, <1>8, <1>9 DEF ListNames

\* The order of a list is total and strict.
LEMMA ComesIsOrder ==
    ASSUME NEW list, NEW k \in RowKeys, NEW l \in RowKeys, NEW m \in RowKeys
    PROVE  /\ ~Comes(list, k, k)
           /\ Comes(list, k, l) => ~Comes(list, l, k)
           /\ k[2] # l[2] => Comes(list, k, l) \/ Comes(list, l, k)
           /\ Comes(list, k, l) /\ Comes(list, l, m) => Comes(list, k, m)
BY DEF Comes, RowKeys

\* A set of rows of which no two are of one item.
OneEach(rows) ==
    /\ IsFiniteSet(rows)
    /\ \A r \in rows : r.item \in Nat /\ r.key \in RowKeys /\ r.key[2] = r.item
    /\ \A r, s \in rows : r.item = s.item => r = s

LEMMA BeforeAre ==
    ASSUME NEW list, NEW rows, OneEach(rows), NEW r \in rows
    PROVE  /\ Before(list, r, rows) \subseteq rows /\ r \notin Before(list, r, rows)
           /\ Cardinality(Before(list, r, rows)) \in Nat
           /\ \A s \in rows : Comes(list, s.key, r.key) =>
                 /\ Before(list, s, rows) \subseteq Before(list, r, rows)
                 /\ Cardinality(Before(list, s, rows)) < Cardinality(Before(list, r, rows))
<1>1. \A s \in rows : Before(list, s, rows) \subseteq rows /\ s \notin Before(list, s, rows)
                      /\ IsFiniteSet(Before(list, s, rows)) /\ Cardinality(Before(list, s, rows)) \in Nat
  <2> TAKE s \in rows
  <2>1. Before(list, s, rows) \subseteq rows /\ s \notin Before(list, s, rows)
    BY ComesIsOrder DEF Before, OneEach
  <2> QED  BY <2>1, FS_Subset, FS_CardinalityType DEF OneEach
<1>2. ASSUME NEW s \in rows, Comes(list, s.key, r.key)
      PROVE  /\ Before(list, s, rows) \subseteq Before(list, r, rows)
             /\ Cardinality(Before(list, s, rows)) < Cardinality(Before(list, r, rows))
  <2>1. Before(list, s, rows) \subseteq Before(list, r, rows)
    BY <1>2, ComesIsOrder DEF Before, OneEach
  <2>2. s \in Before(list, r, rows) /\ s \notin Before(list, s, rows)
    BY <1>1, <1>2 DEF Before
  <2>3. Before(list, s, rows) # Before(list, r, rows)
    BY <2>2
  <2> QED  BY <1>1, <2>1, <2>3, FS_Subset
<1> QED  BY <1>1, <1>2

\* Rows have a last one.
LEMMA LastIs ==
    ASSUME NEW list, NEW rows, OneEach(rows), rows # {}
    PROVE  /\ LastOf(list, rows) \in rows
           /\ \A s \in rows : s = LastOf(list, rows) \/ Comes(list, s.key, LastOf(list, rows).key)
<1> DEFINE Rank(r) == Cardinality(Before(list, r, rows))
           N == Cardinality(rows)
           S == {N - Rank(r) : r \in rows}
<1>1. N \in Nat /\ \A r \in rows : Rank(r) \in Nat /\ Rank(r) <= N
  <2>1. N \in Nat
    BY FS_CardinalityType DEF OneEach
  <2>2. \A r \in rows : Rank(r) \in Nat /\ Rank(r) <= N
    BY BeforeAre, FS_Subset DEF OneEach
  <2> QED  BY <2>1, <2>2
<1>2. \A r, s \in rows : Comes(list, s.key, r.key) => Rank(s) < Rank(r)
  BY BeforeAre
<1> HIDE DEF Rank, N
<1>3. PICK r \in rows : \A s \in rows : N - Rank(r) <= N - Rank(s)
  <2>1. S \subseteq Nat /\ S # {}
    BY <1>1
  <2>2. PICK t \in S : \A u \in S : t <= u
    <3> HIDE DEF S
    <3> QED  BY <2>1, LeastExists
  <2> QED  BY <2>2
<1>4. \A s \in rows : Rank(s) <= Rank(r)
  BY <1>1, <1>3
<1>5. \A s \in rows : s = r \/ Comes(list, s.key, r.key)
  <2> TAKE s \in rows
  <2>1. ~Comes(list, r.key, s.key)
    BY <1>1, <1>2, <1>4
  <2>2. s # r => s.key[2] # r.key[2] /\ s.key \in RowKeys /\ r.key \in RowKeys
    BY DEF OneEach
  <2> QED  BY <2>1, <2>2, ComesIsOrder
<1> QED  BY <1>5 DEF LastOf

\* What is left for later pages comes behind what the page shows.
LEMMA PageIsFirst ==
    ASSUME NEW w, OneEach(Following(w)), NEW r \in PageRows(w),
           NEW s \in Following(w), s \notin PageRows(w)
    PROVE  Comes(w.list, r.key, s.key)
<1>1. r \in Following(w) /\ r # s /\ PageLimit \in Nat
  BY PagingAssumption DEF PageRows
<1>2. Cardinality(Before(w.list, r, Following(w))) < PageLimit
  BY DEF PageRows
<1>3. ~(Cardinality(Before(w.list, s, Following(w))) < PageLimit)
  BY DEF PageRows
<1>4. ~Comes(w.list, s.key, r.key)
  <2> SUFFICES ASSUME Comes(w.list, s.key, r.key) PROVE FALSE
    OBVIOUS
  <2>1. Cardinality(Before(w.list, s, Following(w))) < Cardinality(Before(w.list, r, Following(w)))
    BY <1>1, BeforeAre
  <2>2. /\ Cardinality(Before(w.list, s, Following(w))) \in Nat
        /\ Cardinality(Before(w.list, r, Following(w))) \in Nat
    BY <1>1, BeforeAre
  <2> QED  BY <1>1, <1>2, <1>3, <2>1, <2>2
<1>5. r.key[2] # s.key[2] /\ r.key \in RowKeys /\ s.key \in RowKeys
  BY <1>1 DEF OneEach
<1> QED  BY <1>4, <1>5, ComesIsOrder

LEMMA PageNotEmpty ==
    ASSUME NEW w, OneEach(Following(w)), Following(w) # {}
    PROVE  PageRows(w) # {}
<1> DEFINE F == Following(w)
           Rank(r) == Cardinality(Before(w.list, r, F))
           S == {Rank(r) : r \in F}
<1>1. \A r \in F : Rank(r) \in Nat
  BY BeforeAre
<1>2. \A r, s \in F : Comes(w.list, s.key, r.key) => Rank(s) < Rank(r)
  BY BeforeAre
<1>3. PICK r \in F : \A s \in F : Rank(r) <= Rank(s)
  <2> HIDE DEF Rank
  <2>1. S \subseteq Nat /\ S # {}
    BY <1>1
  <2>2. PICK t \in S : \A u \in S : t <= u
    <3> HIDE DEF S
    <3> QED  BY <2>1, LeastExists
  <2> QED  BY <2>2
<1>4. Before(w.list, r, F) = {}
  <2> SUFFICES ASSUME NEW s \in F, Comes(w.list, s.key, r.key) PROVE FALSE
    BY DEF Before
  <2> HIDE DEF Rank, F
  <2> QED  BY <1>1, <1>2, <1>3
<1>5. Rank(r) = 0
  BY <1>4, FS_EmptySet
<1>6. r \in PageRows(w)
  BY <1>5, PagingAssumption DEF PageRows
<1> QED  BY <1>6

\* The rows of a list, while its walk goes on.
ListedRow(i) == RowOf(walk.list, i, walk.revision)
BelongsNow(i) == Belongs(walk.list, walk.filter, i, walk.revision)

LEMMA ListedRowIs ==
    ASSUME PageTypeOK, NEW i \in Items, BelongsNow(i)
    PROVE  /\ ListedRow(i).item = i /\ ListedRow(i).key \in RowKeys /\ ListedRow(i).key[2] = i
           /\ ListedRow(i).status \in Stati
           /\ i \in Present(Len(history))
<1>1. Len(history) \in 0 .. Len(history) /\ walk.revision \in 0 .. Len(history) /\ i \in Nat
  BY PagingAssumption DEF PageTypeOK
<1>2. i \in Present(Len(history))
  BY <1>1, EntriesAre DEF BelongsNow, Belongs, PageTypeOK
<1>3. RowAsIs(i) \in HistoryEntries /\ history[FirstSeen(i)] \in HistoryEntries
  BY <1>1, <1>2, EntriesAre DEF RowAsIs, PageTypeOK
<1>4. walk.list \notin Live => Latest(i, walk.revision) \in HistoryEntries
  BY <1>1, EntriesAre DEF BelongsNow, Belongs, PageTypeOK
<1>5. walk.list \in Frozen \cup Ordered => walk.list \notin Live
  BY DEF Frozen, Ordered, Live
<1>6. TimeOf(walk.list, i, walk.revision) \in Nat
  BY <1>3, <1>4, <1>5, PagingAssumption DEF TimeOf, HistoryEntries
<1>7. StatusOf(walk.list, i, walk.revision) \in Stati
  BY <1>3, <1>4, <1>5 DEF StatusOf, HistoryEntries
<1> QED  BY <1>1, <1>2, <1>6, <1>7 DEF ListedRow, RowOf, RowShown, RowKeys

LEMMA FollowingIs ==
    ASSUME PageTypeOK
    PROVE  /\ Following(walk) = {ListedRow(i) : i \in {j \in Items : BelongsNow(j) /\ StillToCome(walk, ListedRow(j).key)}}
           /\ OneEach(Following(walk))
<1>1. Listed(walk.list, walk.filter, walk.revision) = {ListedRow(i) : i \in {j \in Items : BelongsNow(j)}}
  BY ListedIs DEF PageTypeOK, ListedRow, BelongsNow
<1>2. Following(walk) = {ListedRow(i) : i \in {j \in Items : BelongsNow(j) /\ StillToCome(walk, ListedRow(j).key)}}
  BY <1>1 DEF Following
<1>3. IsFiniteSet(Following(walk))
  <2> DEFINE T == {j \in Items : BelongsNow(j) /\ StillToCome(walk, ListedRow(j).key)}
             f == [i \in T |-> ListedRow(i)]
  <2>1. IsFiniteSet(T)
    BY PagingAssumption, FS_Subset
  <2>2. Following(walk) = {f[i] : i \in T}
    BY <1>2
  <2>3. f \in Surjection(T, Following(walk))
    <3> HIDE DEF T
    <3> QED  BY <2>2 DEF Surjection
  <2> HIDE DEF T, f
  <2> QED  BY <2>1, <2>3, FS_Surjection
<1>4. OneEach(Following(walk))
  <2>1. \A r \in Following(walk) : \E i \in Items : BelongsNow(i) /\ r = ListedRow(i)
    BY <1>2
  <2>2. \A r \in Following(walk) : r = ListedRow(r.item) /\ r.item \in Nat /\ r.key \in RowKeys /\ r.key[2] = r.item
    BY <2>1, ListedRowIs, PagingAssumption
  <2> QED  BY <1>3, <2>2 DEF OneEach
<1> QED  BY <1>2, <1>4

-----------------------------------------------------------------------------
(* A change of a row. *)

LEMMA WriteDoes ==
    ASSUME PageTypeOK, NEW i \in Items, WriteRow(i)
    PROVE  /\ history' \in Seq(HistoryEntries) /\ Len(history') = Len(history) + 1
           /\ \A m, n \in 1 .. Len(history') : m <= n => history'[m].at <= history'[n].at
           /\ \A n \in 1 .. Len(history) : history'[n] = history[n]
           /\ history'[Len(history) + 1].item = i
           /\ walk' = walk
<1>1. PICK t \in Times, s \in Stati :
         /\ \A n \in DOMAIN history : history[n].at <= t
         /\ history' = Append(history, [item |-> i, at |-> t, status |-> s])
  BY DEF WriteRow, Stati
<1> DEFINE e == [item |-> i, at |-> t, status |-> s]
<1>2. e \in HistoryEntries /\ e.at = t /\ e.item = i /\ t \in Nat
  BY PagingAssumption DEF HistoryEntries
<1> HIDE DEF e
<1>3. history \in Seq(HistoryEntries) /\ history' = Append(history, e)
  BY <1>1 DEF PageTypeOK, e
<1>4. /\ history' \in Seq(HistoryEntries) /\ Len(history') = Len(history) + 1
      /\ \A n \in 1 .. Len(history) : history'[n] = history[n]
      /\ history'[Len(history) + 1] = e
  BY <1>2, <1>3
<1>5. \A m, n \in 1 .. Len(history') : m <= n => history'[m].at <= history'[n].at
  <2> SUFFICES ASSUME NEW m \in 1 .. Len(history'), NEW n \in 1 .. Len(history'), m <= n
               PROVE  history'[m].at <= history'[n].at
    OBVIOUS
  <2>1. Len(history) \in Nat /\ DOMAIN history = 1 .. Len(history)
    BY <1>3
  <2>2. CASE n \in 1 .. Len(history)
    <3>1. m \in 1 .. Len(history)
      BY <2>1, <2>2
    <3> QED  BY <1>4, <2>2, <3>1 DEF PageTypeOK
  <2>3. CASE n = Len(history) + 1 /\ m \in 1 .. Len(history)
    BY <1>1, <1>2, <1>4, <2>1, <2>3
  <2>4. CASE n = Len(history) + 1 /\ m = Len(history) + 1
    BY <1>2, <1>4, <2>4
  <2> QED  BY <1>4, <2>1, <2>2, <2>3, <2>4
<1> QED  BY <1>2, <1>4, <1>5 DEF WriteRow

\* The history as it stood is what it was.
LEMMA HistoryStands ==
    ASSUME PageTypeOK, NEW i \in Items, WriteRow(i), NEW revision \in 0 .. Len(history), NEW j
    PROVE  /\ Entries(j, revision)' = Entries(j, revision)
           /\ Present(revision)' = Present(revision)
           /\ j \in Present(revision) => Latest(j, revision)' = Latest(j, revision)
           /\ j \in Present(Len(history)) =>
                /\ j \in Present(Len(history))'
                /\ FirstSeen(j)' = FirstSeen(j) /\ history'[FirstSeen(j)] = history[FirstSeen(j)]
                /\ j # i => RowAsIs(j)' = RowAsIs(j)
                /\ RowAsIs(j)'.at \in Nat /\ RowAsIs(j)'.at >= RowAsIs(j).at
           /\ j # i => Entries(j, Len(history))' = Entries(j, Len(history))
           /\ Len(history) + 1 \in Entries(i, Len(history))'
<1>1. /\ Len(history') = Len(history) + 1 /\ Len(history) \in Nat
      /\ \A n \in 1 .. Len(history) : history'[n] = history[n]
      /\ history'[Len(history) + 1].item = i
      /\ history' \in Seq(HistoryEntries) /\ history \in Seq(HistoryEntries)
  BY WriteDoes DEF PageTypeOK
<1>2. \A k, r : r \in 0 .. Len(history) =>
         /\ Entries(k, r)' = Entries(k, r)
         /\ Latest(k, r)' = (IF k \in Present(r) THEN Latest(k, r) ELSE Latest(k, r)')
  <2> SUFFICES ASSUME NEW k, NEW r \in 0 .. Len(history)
               PROVE  /\ Entries(k, r)' = Entries(k, r)
                      /\ k \in Present(r) => Latest(k, r)' = Latest(k, r)
    OBVIOUS
  <2>1. Entries(k, r)' = Entries(k, r)
    BY <1>1 DEF Entries
  <2>2. ASSUME k \in Present(r) PROVE Latest(k, r)' = Latest(k, r)
    <3> DEFINE n == CHOOSE n \in Entries(k, r) : \A m \in Entries(k, r) : m <= n
    <3>1. n \in Entries(k, r)
      BY <1>1, <2>2, EntriesHaveEnds
    <3>2. history'[n] = history[n]
      BY <1>1, <3>1 DEF Entries
    <3> QED  BY <2>1, <3>2 DEF Latest
  <2> QED  BY <2>1, <2>2
<1>3. \A r \in 0 .. Len(history) : Present(r)' = Present(r)
  BY <1>2 DEF Present
<1>4. \A k : Entries(k, Len(history))' = IF k = i THEN Entries(k, Len(history)) \cup {Len(history) + 1}
                                        ELSE Entries(k, Len(history))
  <2> TAKE k
  <2>1. Entries(k, Len(history))' = {n \in 1 .. Len(history) + 1 : history'[n].item = k}
    BY <1>1 DEF Entries
  <2> QED  BY <1>1, <2>1 DEF Entries
<1>5. ASSUME j \in Present(Len(history))
      PROVE  /\ j \in Present(Len(history))'
             /\ FirstSeen(j)' = FirstSeen(j) /\ history'[FirstSeen(j)] = history[FirstSeen(j)]
             /\ j # i => RowAsIs(j)' = RowAsIs(j)
             /\ RowAsIs(j)'.at \in Nat /\ RowAsIs(j)'.at >= RowAsIs(j).at
  <2> DEFINE L == Len(history)
             E == Entries(j, L)
             F == Entries(j, L)'
  <2>1. L \in 0 .. L /\ E # {} /\ E \subseteq 1 .. L /\ L \in Nat
    BY <1>1, <1>5 DEF Entries, Present
  <2>2. F = IF j = i THEN E \cup {L + 1} ELSE E
    BY <1>4
  <2>3. j \in Present(L)'
    BY <1>5, <2>1, <2>2 DEF Present
  <2>4. FirstSeen(j) \in E /\ \A m \in E : FirstSeen(j) <= m
    BY <1>1, <1>5, <2>1, EntriesAre
  <2>5. FirstSeen(j)' = CHOOSE n \in F : \A m \in F : n <= m
    BY DEF FirstSeen
  <2>6. FirstSeen(j) \in F /\ (\A m \in F : FirstSeen(j) <= m)
    BY <2>1, <2>2, <2>4
  <2>7. \A n \in F : n \in Nat
    BY <2>1, <2>2
  <2> HIDE DEF F, E
  <2>8. FirstSeen(j)' = FirstSeen(j)
    <3> DEFINE x == FirstSeen(j)
               y == CHOOSE n \in F : \A m \in F : n <= m
    <3>1. x \in F /\ (\A m \in F : x <= m)
      BY <2>6
    <3>2. y \in F /\ (\A m \in F : y <= m)
      BY <3>1
    <3> HIDE DEF x, y
    <3>3. x = y
      BY <2>7, <3>1, <3>2
    <3> QED  BY <2>5, <3>3 DEF x, y
  <2>9. history'[FirstSeen(j)] = history[FirstSeen(j)]
    BY <1>1, <2>1, <2>4
  <2>10. ASSUME j # i PROVE RowAsIs(j)' = RowAsIs(j)
    <3> DEFINE n == CHOOSE n \in E : \A m \in E : m <= n
    <3>1. n \in E
      BY <1>1, <1>5, <2>1, EntriesHaveEnds DEF E
    <3>2. history'[n] = history[n]
      BY <1>1, <2>1, <3>1
    <3>3. RowAsIs(j) = history[n]
      BY DEF RowAsIs, Latest, E
    <3>4. RowAsIs(j)' = history'[n]
      BY <2>2, <2>10 DEF RowAsIs, Latest, E, F
    <3> QED  BY <3>2, <3>3, <3>4
  <2>11. ASSUME j = i PROVE RowAsIs(j)' = history'[L + 1]
    <3>1. RowAsIs(j)' = history'[CHOOSE n \in F : \A m \in F : m <= n]
      BY DEF RowAsIs, Latest, F
    <3> DEFINE y == CHOOSE n \in F : \A m \in F : m <= n
    <3>2. L + 1 \in F /\ (\A m \in F : m <= L + 1)
      BY <2>1, <2>2, <2>11
    <3>3. y \in F /\ (\A m \in F : m <= y)
      BY <3>2
    <3> HIDE DEF y
    <3>4. y = L + 1
      BY <2>1, <2>7, <3>2, <3>3
    <3> QED  BY <3>1, <3>4 DEF y
  <2>12. RowAsIs(j)'.at \in Nat /\ RowAsIs(j)'.at >= RowAsIs(j).at
    <3>1. PICK n \in E : RowAsIs(j) = history[n]
      BY <1>1, <1>5, <2>1, EntriesAre DEF RowAsIs, E
    <3>2. n \in 1 .. L /\ n <= L + 1 /\ n \in 1 .. Len(history') /\ L + 1 \in 1 .. Len(history')
      BY <1>1, <2>1, <3>1
    <3>3. RowAsIs(j) \in HistoryEntries /\ RowAsIs(j).at \in Nat
      <4>1. history[n] \in HistoryEntries
        BY <1>1, <3>2
      <4> QED  BY <3>1, <4>1, PagingAssumption DEF HistoryEntries
    <3>4. history'[n].at <= history'[L + 1].at
      BY <3>2, WriteDoes
    <3>5. history'[n] = RowAsIs(j)
      BY <1>1, <3>1, <3>2
    <3>6. history'[L + 1] \in HistoryEntries /\ history'[L + 1].at \in Nat
      <4>1. history'[L + 1] \in HistoryEntries
        BY <1>1, <3>2
      <4> QED  BY <4>1, PagingAssumption DEF HistoryEntries
    <3>7. CASE j = i
      BY <2>11, <3>3, <3>4, <3>5, <3>6, <3>7
    <3>8. CASE j # i
      BY <2>10, <3>3, <3>8
    <3> QED  BY <3>7, <3>8
  <2> QED  BY <2>3, <2>8, <2>9, <2>10, <2>12
<1> QED  BY <1>2, <1>3, <1>4, <1>5

-----------------------------------------------------------------------------
(* The walk. *)

\* The rows a walk promises to show.
Fixed(i) == i \in (IF walk.list \in Live THEN UntouchedRows ELSE Snapshot)
Shows(i) == \E s \in walk.shown : s.item = i
KeyNow(i) == ListedRow(i).key

\* What lies before the cursor has been shown and, unless a page may overlap with another,
\* nothing else.
ShownToCursor ==
    walk.at \in {"counting", "reading"} =>
        \A i \in Items : Fixed(i) =>
            /\ Shows(i) \/ StillToCome(walk, KeyNow(i))
            /\ walk.list # "targets" /\ StillToCome(walk, KeyNow(i)) => ~Shows(i)

\* What is not in the page of targets comes behind all of it.
ShownToIds ==
    walk.at \in {"getting", "getting-last"} =>
        /\ walk.list = "targets"
        /\ walk.ids # {} => walk.last \in walk.ids
        /\ walk.at = "getting" => walk.ids # {}
        /\ \A i \in Items : Fixed(i) =>
            \/ Shows(i) \/ i \in walk.ids
            \/ walk.at = "getting" /\ \A j \in walk.ids : Comes("targets", KeyNow(j), KeyNow(i))

ShownOfSnapshot ==
    /\ walk.at = "idle" => walk.cursor = <<>> /\ walk.shown = {} /\ walk.ids = {}
    /\ walk.at = "done" => \A i \in Items : Fixed(i) => Shows(i)
    /\ walk.list # "targets" =>
          \A i \in Items : Fixed(i) => \A s, t \in walk.shown : s.item = i /\ t.item = i => s = t
    /\ walk.list \notin Live => \A s \in walk.shown :
          /\ s.item \in Snapshot
          /\ walk.list \in Frozen => s.status = Latest(s.item, walk.revision).status
    /\ walk.list = "task-center" /\ walk.at \in {"reading", "done"} =>
          walk.counted = Cardinality(Present(walk.revision))

PageInv == PageTypeOK /\ ShownToCursor /\ ShownToIds /\ ShownOfSnapshot

LEMMA FixedAre ==
    ASSUME PageTypeOK
    PROVE  /\ \A i : Fixed(i) => i \in Items /\ i \in Snapshot /\ BelongsNow(i)
           /\ walk.list \notin Live => \A i : BelongsNow(i) <=> i \in Snapshot
<1>1. walk.revision \in 0 .. Len(history) /\ history \in Seq(HistoryEntries)
      /\ walk.list \in Lists /\ walk.filter \in {"all", "open"}
  BY DEF PageTypeOK, Filters
<1>2. Present(walk.revision) \subseteq Items
  BY <1>1, PresentAre
<1>3. walk.list \notin Live => \A i : BelongsNow(i) <=> i \in Snapshot
  BY DEF BelongsNow, Belongs, Snapshot
<1>4. \A i : Fixed(i) => i \in Snapshot /\ i \in Present(walk.revision)
  BY DEF Fixed, UntouchedRows, Snapshot
<1>5. ASSUME NEW i, Fixed(i), walk.list \in Live PROVE BelongsNow(i)
  <2>1. i \in Snapshot /\ i \in Present(walk.revision) /\ Latest(i, walk.revision) = RowAsIs(i)
    BY <1>4, <1>5 DEF Fixed, UntouchedRows
  <2>2. i \in Present(Len(history))
    BY <1>1, <2>1, EntriesAre
  <2>3. Fits(walk.filter, RowAsIs(i).status)
    BY <2>1 DEF Snapshot, Fits
  <2> QED  BY <1>5, <2>2, <2>3 DEF BelongsNow, Belongs
<1> QED  BY <1>2, <1>3, <1>4, <1>5 DEF Fixed

LEMMA WriteRowKeeps == ASSUME PageInv, NEW i \in Items, WriteRow(i) PROVE PageInv'
<1>1. PageTypeOK /\ walk' = walk
  BY WriteDoes DEF PageInv
<1>2. walk.revision \in 0 .. Len(history) /\ history \in Seq(HistoryEntries) /\ Len(history) \in Nat
      /\ Len(history') = Len(history) + 1 /\ Len(history) \in 0 .. Len(history)
  BY <1>1, WriteDoes DEF PageTypeOK
<1>3. PageTypeOK'
  <2>1. walk.ids \subseteq Present(Len(history))'
    BY <1>1, <1>2, HistoryStands DEF PageTypeOK
  <2>2. walk.revision \in 0 .. Len(history')
    BY <1>2
  <2> QED  BY <1>1, <2>1, <2>2, WriteDoes DEF PageTypeOK
<1>4. /\ Present(walk.revision)' = Present(walk.revision)
      /\ \A j \in Present(walk.revision) : Latest(j, walk.revision)' = Latest(j, walk.revision)
  BY <1>1, <1>2, HistoryStands
<1>5. Snapshot' = Snapshot
  BY <1>1, <1>4 DEF Snapshot
<1>6. \A j : Fixed(j)' => Fixed(j) /\ (walk.list \in Live => RowAsIs(j)' = RowAsIs(j))
  <2> SUFFICES ASSUME NEW j, Fixed(j)' PROVE Fixed(j) /\ (walk.list \in Live => RowAsIs(j)' = RowAsIs(j))
    OBVIOUS
  <2>1. CASE walk.list \notin Live
    BY <1>1, <1>5, <2>1 DEF Fixed
  <2>2. CASE walk.list \in Live
    <3>1. /\ j \in Snapshot' /\ Latest(j, walk.revision)' = RowAsIs(j)'
          /\ Entries(j, walk.revision)' = Entries(j, Len(history))'
      BY <1>1, <2>2 DEF Fixed, UntouchedRows
    <3>2. j \in Snapshot /\ j \in Present(walk.revision)
      BY <1>5, <3>1 DEF Snapshot
    <3>3. Entries(j, walk.revision)' = Entries(j, walk.revision)
      BY <1>1, <1>2, HistoryStands
    <3>4. Entries(j, walk.revision) \subseteq 1 .. walk.revision
      BY DEF Entries
    <3>5. j # i
      <4> SUFFICES ASSUME j = i PROVE FALSE
        OBVIOUS
      <4>1. Len(history) + 1 \in Entries(i, Len(history))'
        BY <1>1, <1>2, HistoryStands
      <4> QED  BY <1>2, <3>1, <3>3, <3>4, <4>1
    <3>6. j \in Present(Len(history))
      BY <1>2, <3>2, EntriesAre
    <3>7. RowAsIs(j)' = RowAsIs(j) /\ Entries(j, Len(history))' = Entries(j, Len(history))
      BY <1>1, <1>2, <3>5, <3>6, HistoryStands
    <3>8. Latest(j, walk.revision) = RowAsIs(j) /\ Entries(j, walk.revision) = Entries(j, Len(history))
      BY <1>4, <3>1, <3>2, <3>3, <3>7
    <3> QED  BY <2>2, <3>2, <3>7, <3>8 DEF Fixed, UntouchedRows
  <2> QED  BY <2>1, <2>2
<1>7. \A j : Fixed(j)' => KeyNow(j)' = KeyNow(j)
  <2> SUFFICES ASSUME NEW j, Fixed(j)' PROVE KeyNow(j)' = KeyNow(j)
    OBVIOUS
  <2>1. Fixed(j) /\ (walk.list \in Live => RowAsIs(j)' = RowAsIs(j))
    BY <1>6
  <2>2. j \in Present(walk.revision)
    BY <1>1, <2>1, FixedAre DEF Snapshot
  <2>3. j \in Present(Len(history))
    BY <1>2, <2>2, EntriesAre
  <2>4. Latest(j, walk.revision)' = Latest(j, walk.revision)
    BY <1>4, <2>2
  <2>5. FirstSeen(j)' = FirstSeen(j) /\ history'[FirstSeen(j)] = history[FirstSeen(j)]
    BY <1>1, <1>2, <2>3, HistoryStands
  <2>6. walk.list \in Frozen \cup Ordered \cup {"scan-files", "scan-errors", "inboxes"} \cup Live
    BY <1>1 DEF PageTypeOK, Lists, Growing
  <2>7. TimeOf(walk.list, j, walk.revision)' = TimeOf(walk.list, j, walk.revision)
    BY <1>1, <2>1, <2>4, <2>5, <2>6 DEF TimeOf
  <2> QED  BY <1>1, <2>7 DEF KeyNow, ListedRow, RowOf, RowShown
<1>8. ShownToCursor'
  BY <1>1, <1>6, <1>7 DEF PageInv, ShownToCursor, Shows, StillToCome
<1>9. ShownToIds'
  <2> SUFFICES ASSUME walk.at \in {"getting", "getting-last"}, walk.list = "targets"
               PROVE  \A k \in Items : Fixed(k)' =>
                        \/ Shows(k) \/ k \in walk.ids
                        \/ walk.at = "getting" /\ \A j \in walk.ids : Comes("targets", KeyNow(j), KeyNow(k))'
    BY <1>1 DEF PageInv, ShownToIds, Shows
  <2>1. ASSUME NEW k \in Items, Fixed(k)', NEW j \in walk.ids, Comes("targets", KeyNow(j), KeyNow(k))
        PROVE  Comes("targets", KeyNow(j), KeyNow(k))'
    <3>1. j \in Present(Len(history)) /\ j \in Items
      BY <1>1, <1>2, PresentAre DEF PageTypeOK
    <3>2. RowAsIs(j)'.at >= RowAsIs(j).at
      BY <1>1, <1>2, <3>1, HistoryStands
    <3>3. KeyNow(k)' = KeyNow(k) /\ Fixed(k)
      BY <1>6, <1>7, <2>1
    <3>4. KeyNow(k) \in RowKeys
      BY <1>1, <3>3, FixedAre, ListedRowIs DEF KeyNow
    <3>5. KeyNow(j) = <<RowAsIs(j).at, j>> /\ KeyNow(j)' = <<RowAsIs(j)'.at, j>>
      BY <1>1 DEF KeyNow, ListedRow, RowOf, RowShown, TimeOf, Frozen, Ordered
    <3>6. RowAsIs(j).at \in Nat /\ j \in Nat
      BY <1>2, <3>1, EntriesAre, PagingAssumption DEF RowAsIs, HistoryEntries
    <3>7. RowAsIs(j)'.at \in Nat
      BY <1>1, <1>2, <3>1, HistoryStands
    <3> DEFINE a == RowAsIs(j).at
               b == RowAsIs(j)'.at
               key == KeyNow(k)
    <3>8. a \in Nat /\ b \in Nat /\ b >= a /\ key \in RowKeys /\ j \in Nat
          /\ Comes("targets", <<a, j>>, key)
      BY <2>1, <3>2, <3>4, <3>5, <3>6, <3>7
    <3>9. Comes("targets", KeyNow(j), KeyNow(k))' = Comes("targets", <<b, j>>, key)
      BY <3>3, <3>5 DEF Comes
    <3> HIDE DEF a, b, key
    <3>10. Comes("targets", <<b, j>>, key)
      BY <3>8 DEF Comes, Upwards, Growing, RowKeys
    <3> QED  BY <3>9, <3>10
  <2> QED  BY <1>6, <2>1 DEF PageInv, ShownToIds
<1>10. ShownOfSnapshot'
  <2>1. \A s \in walk.shown : walk.list \notin Live => s.item \in Present(walk.revision)
    BY DEF PageInv, ShownOfSnapshot, Snapshot
  <2>2. \A j \in Items : Fixed(j)' => Fixed(j)
    BY <1>6
  <2> QED  BY <1>1, <1>4, <1>5, <2>1, <2>2 DEF PageInv, ShownOfSnapshot, Shows
<1> QED  BY <1>3, <1>8, <1>9, <1>10 DEF PageInv

LEMMA BeginWalkKeeps == ASSUME PageInv, BeginWalk PROVE PageInv'
<1>1. /\ PageTypeOK /\ walk.at = "idle" /\ history' = history
      /\ walk.cursor = <<>> /\ walk.shown = {} /\ walk.ids = {}
  BY DEF PageInv, BeginWalk, ShownOfSnapshot
<1>2. /\ walk'.at \in {"counting", "reading"} /\ walk'.revision = Len(history)
      /\ walk'.list = walk.list /\ walk'.filter = walk.filter /\ walk'.cursor = <<>>
      /\ walk'.shown = {} /\ walk'.ids = {}
      /\ walk.list = "task-center" => walk'.at = "counting"
      /\ walk' = [at |-> walk'.at, list |-> walk'.list, filter |-> walk'.filter, cursor |-> walk'.cursor,
                  revision |-> walk'.revision, counted |-> walk'.counted, ids |-> walk'.ids,
                  last |-> walk'.last, shown |-> walk'.shown, pages |-> walk'.pages]
  BY <1>1 DEF BeginWalk, PageTypeOK
<1>3. Len(history) \in 0 .. Len(history)
  BY <1>1 DEF PageTypeOK
<1>4. PageTypeOK'
  BY <1>1, <1>2, <1>3 DEF PageTypeOK
<1>5. ShownToCursor'
  BY <1>2 DEF ShownToCursor, StillToCome, Shows
<1>6. ShownToIds' /\ ShownOfSnapshot'
  BY <1>2 DEF ShownToIds, ShownOfSnapshot
<1> QED  BY <1>4, <1>5, <1>6 DEF PageInv

\* Nothing of the list has changed, and the walk is still of it.
LEMMA SameList ==
    ASSUME history' = history, walk'.list = walk.list, walk'.filter = walk.filter,
           walk'.revision = walk.revision
    PROVE  /\ Snapshot' = Snapshot
           /\ \A i : /\ Fixed(i)' <=> Fixed(i)
                     /\ KeyNow(i)' = KeyNow(i)
                     /\ Latest(i, walk.revision)' = Latest(i, walk.revision)
           /\ Present(walk.revision)' = Present(walk.revision)
           /\ Present(Len(history))' = Present(Len(history))
<1>1. \A i, r : Entries(i, r)' = Entries(i, r)
  BY DEF Entries
<1>2. \A i, r : Latest(i, r)' = Latest(i, r) /\ FirstSeen(i)' = FirstSeen(i) /\ RowAsIs(i)' = RowAsIs(i)
                /\ Present(r)' = Present(r)
  BY <1>1 DEF Latest, FirstSeen, RowAsIs, Present
<1>3. Snapshot' = Snapshot
  BY <1>2 DEF Snapshot
<1>4. UntouchedRows' = UntouchedRows
  BY <1>1, <1>2, <1>3 DEF UntouchedRows
<1>5. \A i : Fixed(i)' <=> Fixed(i)
  BY <1>3, <1>4 DEF Fixed
<1>6. \A i : TimeOf(walk.list, i, walk.revision)' = TimeOf(walk.list, i, walk.revision)
  BY <1>2 DEF TimeOf
<1>7. \A i : KeyNow(i)' = KeyNow(i)
  BY <1>6 DEF KeyNow, ListedRow, RowOf, RowShown
<1> QED  BY <1>2, <1>3, <1>5, <1>7

LEMMA CountTasksKeeps == ASSUME PageInv, CountTasks PROVE PageInv'
<1>1. PageTypeOK /\ walk.at = "counting" /\ history' = history
  BY DEF PageInv, CountTasks
<1>2. /\ walk'.at = "reading" /\ walk'.revision = walk.revision
      /\ walk'.list = walk.list /\ walk'.filter = walk.filter /\ walk'.cursor = walk.cursor
      /\ walk'.shown = walk.shown /\ walk'.ids = walk.ids
      /\ walk'.counted = Cardinality(TaskCenterRows("all", walk.revision))
      /\ walk' = [at |-> walk'.at, list |-> walk'.list, filter |-> walk'.filter, cursor |-> walk'.cursor,
                  revision |-> walk'.revision, counted |-> walk'.counted, ids |-> walk'.ids,
                  last |-> walk'.last, shown |-> walk'.shown, pages |-> walk'.pages]
  BY <1>1 DEF CountTasks, PageTypeOK
<1>3. PageTypeOK'
  BY <1>1, <1>2, SameList DEF PageTypeOK
<1>4. ShownToCursor' /\ ShownToIds'
  BY <1>1, <1>2, SameList DEF PageInv, ShownToCursor, ShownToIds, StillToCome, Shows
<1>5. Cardinality(TaskCenterRows("all", walk.revision)) = Cardinality(Present(walk.revision))
  <2> DEFINE P == Present(walk.revision)
             row(i) == RowShown(i, Latest(i, walk.revision).at, Latest(i, walk.revision).status)
             T == TaskCenterRows("all", walk.revision)
             f == [i \in P |-> row(i)]
  <2>1. T = {row(i) : i \in P}
    BY DEF TaskCenterRows, SnapshotRows, Fits
  <2>2. \A i : row(i).item = i
    BY DEF RowShown
  <2>3. IsFiniteSet(P)
    <3>1. P \subseteq Items
      BY <1>1, PresentAre DEF PageTypeOK
    <3> QED  BY <3>1, PagingAssumption, FS_Subset
  <2> HIDE DEF P, T, row
  <2>4. f \in Bijection(P, T)
    <3>1. f \in [P -> T] /\ (\A t \in T : \E i \in P : f[i] = t)
      BY <2>1
    <3>2. \A i, j \in P : f[i] = f[j] => i = j
      BY <2>2
    <3> QED  BY <3>1, <3>2 DEF Bijection, Injection, Surjection, IsInjective
  <2>5. T = P \/ Cardinality(P) = Cardinality(T)
    BY <2>3, <2>4, FS_Bijection DEF ExistsBijection
  <2> QED  BY <2>5 DEF P, T
<1>6. ShownOfSnapshot'
  BY <1>1, <1>2, <1>5, SameList DEF PageInv, ShownOfSnapshot, Shows
<1> QED  BY <1>3, <1>4, <1>6 DEF PageInv

\* What a page adds to the walk.
LEMMA TurnedIs ==
    ASSUME PageTypeOK, NEW rows, NEW cursor, NEW more \in BOOLEAN,
           walk' = PageTurned(walk, rows, cursor, more)
    PROVE  /\ walk'.at = IF ~more THEN "done" ELSE IF walk.list = "task-center" THEN "counting" ELSE "reading"
           /\ walk'.revision = walk.revision /\ walk'.list = walk.list /\ walk'.filter = walk.filter
           /\ walk'.cursor = (IF rows = {} THEN walk.cursor ELSE cursor)
           /\ walk'.ids = {} /\ walk'.counted = walk.counted
           /\ walk'.shown = walk.shown \cup {[item |-> r.item, status |-> r.status, page |-> walk.pages] : r \in rows}
           /\ walk' = [at |-> walk'.at, list |-> walk'.list, filter |-> walk'.filter, cursor |-> walk'.cursor,
                       revision |-> walk'.revision, counted |-> walk'.counted, ids |-> walk'.ids,
                       last |-> walk'.last, shown |-> walk'.shown, pages |-> walk'.pages]
BY DEF PageTurned, PageTypeOK

LEMMA PagesAre ==
    ASSUME PageTypeOK
    PROVE  /\ OneEach(Following(walk)) /\ OneEach(PageRows(walk)) /\ PageRows(walk) \subseteq Following(walk)
           /\ \A r \in Following(walk) :
                 /\ r.item \in Items /\ BelongsNow(r.item) /\ r = ListedRow(r.item) /\ r.key = KeyNow(r.item)
                 /\ StillToCome(walk, r.key)
           /\ \A i \in Items : Fixed(i) /\ StillToCome(walk, KeyNow(i)) => ListedRow(i) \in Following(walk)
           /\ MoreRows(walk) => PageRows(walk) # {}
           /\ ~MoreRows(walk) => PageRows(walk) = Following(walk)
           /\ \A i \in Items : BelongsNow(i) => ListedRow(i).item = i /\ KeyNow(i) \in RowKeys
<1>1. PageRows(walk) \subseteq Following(walk) /\ OneEach(Following(walk))
  BY FollowingIs DEF PageRows
<1>2. OneEach(PageRows(walk))
  BY <1>1, FS_Subset DEF OneEach
<1>3. MoreRows(walk) => PageRows(walk) # {}
  BY <1>1, PageNotEmpty DEF MoreRows
<1>4. \A r \in Following(walk) :
         /\ r.item \in Items /\ BelongsNow(r.item) /\ r = ListedRow(r.item) /\ r.key = KeyNow(r.item)
         /\ StillToCome(walk, r.key)
  BY FollowingIs, ListedRowIs DEF KeyNow
<1>5. \A i \in Items : Fixed(i) /\ StillToCome(walk, KeyNow(i)) => ListedRow(i) \in Following(walk)
  BY FollowingIs, FixedAre DEF KeyNow
<1> QED  BY <1>1, <1>2, <1>3, <1>4, <1>5, ListedRowIs DEF MoreRows, KeyNow

LEMMA ShowsMore ==
    ASSUME NEW rows, walk'.shown =
             walk.shown \cup {[item |-> r.item, status |-> r.status, page |-> walk.pages] : r \in rows}
    PROVE  \A i : Shows(i)' <=> Shows(i) \/ \E r \in rows : r.item = i
<1> DEFINE new(r) == [item |-> r.item, status |-> r.status, page |-> walk.pages]
<1>1. walk'.shown = walk.shown \cup {new(r) : r \in rows}
  OBVIOUS
<1>2. \A r : new(r).item = r.item
  OBVIOUS
<1> HIDE DEF new
<1> QED  BY <1>1, <1>2 DEF Shows

LEMMA ReadPageKeeps == ASSUME PageInv, ReadPage PROVE PageInv'
<1> DEFINE F == Following(walk)
           rows == PageRows(walk)
           last == LastOf(walk.list, rows)
           more == MoreRows(walk)
<1>1. PageTypeOK /\ walk.at = "reading" /\ walk.list # "targets" /\ history' = history
      /\ walk' = PageTurned(walk, rows, last.key, more)
  BY DEF PageInv, ReadPage
<1>2. more \in BOOLEAN
  BY DEF MoreRows
<1>3. /\ OneEach(F) /\ OneEach(rows) /\ rows \subseteq F
      /\ \A r \in F : /\ r.item \in Items /\ BelongsNow(r.item) /\ r = ListedRow(r.item)
                      /\ r.key = KeyNow(r.item) /\ StillToCome(walk, r.key)
      /\ \A i \in Items : Fixed(i) /\ StillToCome(walk, KeyNow(i)) => ListedRow(i) \in F
      /\ more => rows # {}
      /\ ~more => rows = F
      /\ \A i \in Items : BelongsNow(i) => ListedRow(i).item = i /\ KeyNow(i) \in RowKeys
  BY <1>1, PagesAre
<1>4. rows # {} => last \in rows /\ \A s \in rows : s = last \/ Comes(walk.list, s.key, last.key)
  BY <1>3, LastIs
<1>5. \A r \in rows, s \in F : s \notin rows => Comes(walk.list, r.key, s.key)
  BY <1>3, PageIsFirst
<1>6. \A r \in F : walk.list \in Frozen => r.status = Latest(r.item, walk.revision).status
  BY <1>3 DEF ListedRow, RowOf, RowShown, StatusOf
<1>7. \A r \in F : walk.list \notin Live => r.item \in Snapshot
  BY <1>1, <1>3, FixedAre
<1>8. rows # {} => last.key \in RowKeys
  BY <1>3, <1>4 DEF OneEach
<1> HIDE DEF more, last, rows, F
<1>9. /\ walk'.at = IF ~more THEN "done" ELSE IF walk.list = "task-center" THEN "counting" ELSE "reading"
      /\ walk'.revision = walk.revision /\ walk'.list = walk.list /\ walk'.filter = walk.filter
      /\ walk'.cursor = (IF rows = {} THEN walk.cursor ELSE last.key)
      /\ walk'.ids = {} /\ walk'.counted = walk.counted
      /\ walk'.shown = walk.shown \cup {[item |-> r.item, status |-> r.status, page |-> walk.pages] : r \in rows}
      /\ walk' = [at |-> walk'.at, list |-> walk'.list, filter |-> walk'.filter, cursor |-> walk'.cursor,
                  revision |-> walk'.revision, counted |-> walk'.counted, ids |-> walk'.ids,
                  last |-> walk'.last, shown |-> walk'.shown, pages |-> walk'.pages]
  BY <1>1, <1>2, TurnedIs
<1>10. PageTypeOK'
  BY <1>1, <1>8, <1>9 DEF PageTypeOK
<1>11. \A i : Shows(i)' <=> Shows(i) \/ \E r \in rows : r.item = i
  BY <1>9, ShowsMore
<1>12. \A i \in Items : Fixed(i) => BelongsNow(i)
  BY <1>1, FixedAre
<1>13. ShownToCursor'
  <2> SUFFICES ASSUME more, NEW i \in Items, Fixed(i)
               PROVE  /\ Shows(i)' \/ StillToCome(walk, KeyNow(i))'
                      /\ StillToCome(walk, KeyNow(i))' => ~Shows(i)'
    BY <1>1, <1>9, SameList DEF ShownToCursor
  <2>1. StillToCome(walk, KeyNow(i))' <=> walk'.cursor = <<>> \/ Comes(walk.list, last.key, KeyNow(i))
    BY <1>1, <1>3, <1>9, SameList DEF StillToCome, Comes
  <2>2. walk'.cursor # <<>>
    BY <1>3, <1>8, <1>9 DEF RowKeys
  <2>3. /\ Shows(i) \/ StillToCome(walk, KeyNow(i))
        /\ StillToCome(walk, KeyNow(i)) => ~Shows(i)
    BY <1>1 DEF PageInv, ShownToCursor
  <2>4. ListedRow(i).item = i /\ KeyNow(i) = ListedRow(i).key /\ KeyNow(i) \in RowKeys
    BY <1>3, <1>12 DEF KeyNow
  <2>5. last \in rows /\ last \in F /\ last.key \in RowKeys /\ StillToCome(walk, last.key)
    BY <1>3, <1>4, <1>8
  <2>6. Shows(i)' \/ Comes(walk.list, last.key, KeyNow(i))
    <3>1. CASE Shows(i)
      BY <1>11, <3>1
    <3>2. CASE StillToCome(walk, KeyNow(i)) /\ ListedRow(i) \in rows
      BY <1>11, <2>4, <3>2
    <3>3. CASE StillToCome(walk, KeyNow(i)) /\ ListedRow(i) \notin rows
      BY <1>3, <1>5, <2>4, <2>5, <3>3
    <3> QED  BY <2>3, <3>1, <3>2, <3>3
  <2>7. ASSUME Comes(walk.list, last.key, KeyNow(i)) PROVE ~Shows(i)'
    <3>1. StillToCome(walk, KeyNow(i))
      <4>1. walk.cursor \in {<<>>} \cup RowKeys
        BY <1>1 DEF PageTypeOK
      <4>2. CASE walk.cursor = <<>>
        BY <4>2 DEF StillToCome
      <4>3. CASE walk.cursor \in RowKeys /\ Comes(walk.list, walk.cursor, last.key)
        BY <2>4, <2>5, <2>7, <4>3, ComesIsOrder DEF StillToCome
      <4> QED  BY <2>5, <4>1, <4>2, <4>3 DEF StillToCome
    <3>2. \A r \in rows : r.item # i
      <4> SUFFICES ASSUME NEW r \in rows, r.item = i PROVE FALSE
        OBVIOUS
      <4>1. r.key = KeyNow(i) /\ r.key \in RowKeys
        BY <1>3, <2>4
      <4>2. r = last \/ Comes(walk.list, r.key, last.key)
        BY <1>4, <2>5
      <4>3. ~Comes(walk.list, last.key, last.key)
            /\ (Comes(walk.list, last.key, r.key) => ~Comes(walk.list, r.key, last.key))
        BY <2>5, <4>1, ComesIsOrder
      <4> QED  BY <2>7, <4>1, <4>2, <4>3
    <3> QED  BY <1>11, <2>3, <3>1, <3>2
  <2> QED  BY <2>1, <2>2, <2>6, <2>7
<1>14. ShownToIds'
  BY <1>9 DEF ShownToIds
<1>15. ShownOfSnapshot'
  <2>1. walk'.at = "done" => \A i \in Items : Fixed(i)' => Shows(i)'
    <3> SUFFICES ASSUME ~more, NEW i \in Items, Fixed(i) PROVE Shows(i)'
      BY <1>1, <1>9, SameList
    <3>1. Shows(i) \/ StillToCome(walk, KeyNow(i))
      BY <1>1 DEF PageInv, ShownToCursor
    <3>2. ListedRow(i).item = i
      BY <1>3, <1>12
    <3> QED  BY <1>3, <1>11, <3>1, <3>2
  <2>2. \A i \in Items : Fixed(i)' => \A s, t \in walk'.shown : s.item = i /\ t.item = i => s = t
    <3> SUFFICES ASSUME NEW i \in Items, Fixed(i), NEW s \in walk'.shown, NEW t \in walk'.shown,
                        s.item = i, t.item = i
                 PROVE  s = t
      BY <1>1, <1>9, SameList
    <3> DEFINE new(r) == [item |-> r.item, status |-> r.status, page |-> walk.pages]
    <3>1. \A u \in walk'.shown : u \in walk.shown \/ \E r \in rows : u = new(r)
      BY <1>9
    <3>2. \A r : new(r).item = r.item
      OBVIOUS
    <3> HIDE DEF new
    <3>3. \A r \in rows : r.item = i => ~Shows(i)
      <4> SUFFICES ASSUME NEW r \in rows, r.item = i PROVE ~Shows(i)
        OBVIOUS
      <4>1. StillToCome(walk, KeyNow(i))
        BY <1>3
      <4> QED  BY <1>1, <4>1 DEF PageInv, ShownToCursor
    <3>4. \A q, r \in rows : q.item = r.item => q = r
      BY <1>3 DEF OneEach
    <3>5. CASE s \in walk.shown /\ t \in walk.shown
      BY <1>1, <3>5 DEF PageInv, ShownOfSnapshot
    <3>6. CASE s \in walk.shown /\ t \notin walk.shown
      BY <3>1, <3>2, <3>3, <3>6 DEF Shows
    <3>7. CASE s \notin walk.shown /\ t \in walk.shown
      BY <3>1, <3>2, <3>3, <3>7 DEF Shows
    <3>8. CASE s \notin walk.shown /\ t \notin walk.shown
      BY <3>1, <3>2, <3>4, <3>8
    <3> QED  BY <3>5, <3>6, <3>7, <3>8
  <2>3. ASSUME walk.list \notin Live, NEW s \in walk'.shown
        PROVE  /\ s.item \in Snapshot'
               /\ walk.list \in Frozen => s.status = Latest(s.item, walk.revision)'.status
    <3>1. CASE s \in walk.shown
      BY <1>1, <1>9, <2>3, <3>1, SameList DEF PageInv, ShownOfSnapshot
    <3>2. CASE \E r \in rows : s = [item |-> r.item, status |-> r.status, page |-> walk.pages]
      <4>1. PICK r \in rows : s = [item |-> r.item, status |-> r.status, page |-> walk.pages]
        BY <3>2
      <4>2. s.item = r.item /\ s.status = r.status /\ r \in F
        BY <1>3, <4>1
      <4> QED  BY <1>1, <1>6, <1>7, <1>9, <2>3, <4>2, SameList
    <3> QED  BY <1>9, <3>1, <3>2
  <2>4. walk'.list = "task-center" /\ walk'.at \in {"reading", "done"} =>
           walk'.counted = Cardinality(Present(walk.revision))'
    BY <1>1, <1>9, SameList DEF PageInv, ShownOfSnapshot
  <2>5. walk'.at # "idle"
    BY <1>9
  <2> QED  BY <1>9, <2>1, <2>2, <2>3, <2>4, <2>5 DEF ShownOfSnapshot
<1> QED  BY <1>10, <1>13, <1>14, <1>15 DEF PageInv

LEMMA ReadTargetIdsKeeps == ASSUME PageInv, ReadTargetIds PROVE PageInv'
<1> DEFINE F == Following(walk)
           rows == PageRows(walk)
           last == LastOf(walk.list, rows)
           more == MoreRows(walk)
<1>1. /\ PageTypeOK /\ walk.at = "reading" /\ walk.list = "targets" /\ history' = history
      /\ walk' = [walk EXCEPT !.at = IF more THEN "getting" ELSE "getting-last",
                              !.ids = {r.item : r \in rows},
                              !.last = IF rows = {} THEN 0 ELSE last.item]
  BY DEF PageInv, ReadTargetIds
<1>2. /\ OneEach(F) /\ OneEach(rows) /\ rows \subseteq F
      /\ \A r \in F : /\ r.item \in Items /\ BelongsNow(r.item) /\ r = ListedRow(r.item)
                      /\ r.key = KeyNow(r.item) /\ StillToCome(walk, r.key)
      /\ \A i \in Items : Fixed(i) /\ StillToCome(walk, KeyNow(i)) => ListedRow(i) \in F
      /\ more => rows # {}
      /\ ~more => rows = F
      /\ \A i \in Items : BelongsNow(i) => ListedRow(i).item = i /\ KeyNow(i) \in RowKeys
  BY <1>1, PagesAre
<1>3. rows # {} => last \in rows
  BY <1>2, LastIs
<1>4. \A r \in rows, s \in F : s \notin rows => Comes(walk.list, r.key, s.key)
  BY <1>2, PageIsFirst
<1>5. \A i \in Items : Fixed(i) => BelongsNow(i)
  BY <1>1, FixedAre
<1>6. \A r \in rows : r.item \in Present(Len(history))
  BY <1>1, <1>2, ListedRowIs
<1> HIDE DEF more, last, rows, F
<1>7. /\ walk'.at = IF more THEN "getting" ELSE "getting-last"
      /\ walk'.revision = walk.revision /\ walk'.list = walk.list /\ walk'.filter = walk.filter
      /\ walk'.cursor = walk.cursor /\ walk'.shown = walk.shown
      /\ walk'.ids = {r.item : r \in rows}
      /\ rows # {} => walk'.last = last.item
      /\ walk' = [at |-> walk'.at, list |-> walk'.list, filter |-> walk'.filter, cursor |-> walk'.cursor,
                  revision |-> walk'.revision, counted |-> walk'.counted, ids |-> walk'.ids,
                  last |-> walk'.last, shown |-> walk'.shown, pages |-> walk'.pages]
  BY <1>1 DEF PageTypeOK
<1>8. PageTypeOK'
  BY <1>1, <1>6, <1>7, SameList DEF PageTypeOK
<1>9. ShownToCursor'
  BY <1>7 DEF ShownToCursor
<1>10. ShownToIds'
  <2>1. walk'.ids # {} => walk'.last \in walk'.ids
    BY <1>3, <1>7
  <2>2. walk'.at = "getting" => walk'.ids # {}
    BY <1>2, <1>7
  <2>3. ASSUME NEW i \in Items, Fixed(i)
        PROVE  \/ Shows(i) \/ i \in walk'.ids
               \/ more /\ \A j \in walk'.ids : Comes("targets", KeyNow(j), KeyNow(i))
    <3>1. Shows(i) \/ StillToCome(walk, KeyNow(i))
      BY <1>1, <2>3 DEF PageInv, ShownToCursor
    <3>2. ListedRow(i).item = i /\ KeyNow(i) = ListedRow(i).key
      BY <1>2, <1>5, <2>3 DEF KeyNow
    <3>3. CASE StillToCome(walk, KeyNow(i)) /\ ListedRow(i) \in rows
      BY <1>7, <3>2, <3>3
    <3>4. CASE StillToCome(walk, KeyNow(i)) /\ ListedRow(i) \notin rows
      <4>1. ListedRow(i) \in F /\ more
        BY <1>2, <2>3, <3>4
      <4>2. \A r \in rows : Comes("targets", KeyNow(r.item), KeyNow(i))
        BY <1>1, <1>2, <1>4, <3>2, <3>4, <4>1
      <4> QED  BY <1>7, <4>1, <4>2
    <3> QED  BY <3>1, <3>3, <3>4
  <2>4. ASSUME NEW i \in Items, Fixed(i)'
        PROVE  \/ Shows(i)' \/ i \in walk'.ids
               \/ walk'.at = "getting" /\ \A j \in walk'.ids : Comes("targets", KeyNow(j), KeyNow(i))'
    <3>1. Fixed(i) /\ (Shows(i)' <=> Shows(i)) /\ \A j : KeyNow(j)' = KeyNow(j)
      BY <1>1, <1>7, <2>4, SameList DEF Shows
    <3>2. \A j : Comes("targets", KeyNow(j), KeyNow(i))' <=> Comes("targets", KeyNow(j), KeyNow(i))
      BY <3>1 DEF Comes
    <3> QED  BY <1>7, <2>3, <3>1, <3>2
  <2> QED  BY <1>1, <1>7, <2>1, <2>2, <2>4 DEF ShownToIds
<1>11. ShownOfSnapshot'
  BY <1>1, <1>7 DEF ShownOfSnapshot, Live
<1> QED  BY <1>8, <1>9, <1>10, <1>11 DEF PageInv

LEMMA GetTargetsKeeps == ASSUME PageInv, GetTargets PROVE PageInv'
<1> DEFINE rows == {TargetRow(i) : i \in walk.ids}
           cursor == TargetRow(walk.last).key
           more == walk.at = "getting"
<1>1. /\ PageTypeOK /\ walk.at \in {"getting", "getting-last"} /\ walk.list = "targets" /\ history' = history
      /\ walk' = PageTurned(walk, rows, cursor, more)
      /\ walk.ids # {} => walk.last \in walk.ids
      /\ walk.at = "getting" => walk.ids # {}
  BY DEF PageInv, GetTargets, ShownToIds
<1>2. more \in BOOLEAN
  OBVIOUS
<1>3. \A i \in walk.ids : /\ i \in Items /\ TargetRow(i).item = i /\ TargetRow(i).key = KeyNow(i)
                           /\ KeyNow(i) \in RowKeys
  <2> TAKE i \in walk.ids
  <2>1. i \in Present(Len(history)) /\ i \in Items
    BY <1>1, PresentAre DEF PageTypeOK
  <2>2. RowAsIs(i) \in HistoryEntries
    <3>1. Len(history) \in 0 .. Len(history)
      BY <1>1 DEF PageTypeOK
    <3> QED  BY <1>1, <2>1, <3>1, EntriesAre DEF RowAsIs, PageTypeOK
  <2>3. TargetRow(i).item = i /\ TargetRow(i).key = <<RowAsIs(i).at, i>>
    BY DEF TargetRow, RowShown
  <2>4. KeyNow(i) = <<RowAsIs(i).at, i>>
    BY <1>1 DEF KeyNow, ListedRow, RowOf, RowShown, TimeOf, Frozen, Ordered
  <2>5. RowAsIs(i).at \in Nat /\ i \in Nat
    BY <2>1, <2>2, PagingAssumption DEF HistoryEntries
  <2> QED  BY <2>1, <2>3, <2>4, <2>5 DEF RowKeys
<1>4. rows = {} <=> walk.ids = {}
  OBVIOUS
<1>5. \A i : (\E r \in rows : r.item = i) <=> i \in walk.ids
  BY <1>3
<1>6. walk.ids # {} => cursor = KeyNow(walk.last) /\ cursor \in RowKeys
  BY <1>1, <1>3
<1> HIDE DEF more, rows, cursor
<1>7. /\ walk'.at = IF ~more THEN "done" ELSE "reading"
      /\ walk'.revision = walk.revision /\ walk'.list = walk.list /\ walk'.filter = walk.filter
      /\ walk'.cursor = (IF rows = {} THEN walk.cursor ELSE cursor)
      /\ walk'.ids = {} /\ walk'.counted = walk.counted
      /\ walk'.shown = walk.shown \cup {[item |-> r.item, status |-> r.status, page |-> walk.pages] : r \in rows}
      /\ walk' = [at |-> walk'.at, list |-> walk'.list, filter |-> walk'.filter, cursor |-> walk'.cursor,
                  revision |-> walk'.revision, counted |-> walk'.counted, ids |-> walk'.ids,
                  last |-> walk'.last, shown |-> walk'.shown, pages |-> walk'.pages]
  BY <1>1, <1>2, TurnedIs
<1>8. PageTypeOK'
  BY <1>1, <1>4, <1>6, <1>7 DEF PageTypeOK
<1>9. \A i : Shows(i)' <=> Shows(i) \/ i \in walk.ids
  BY <1>5, <1>7, ShowsMore
<1>10. \A i \in Items : Fixed(i)' => Fixed(i) /\ KeyNow(i)' = KeyNow(i)
  BY <1>1, <1>7, SameList
<1>11. \A i \in Items : Fixed(i) =>
            \/ Shows(i) \/ i \in walk.ids
            \/ walk.at = "getting" /\ \A j \in walk.ids : Comes("targets", KeyNow(j), KeyNow(i))
  BY <1>1 DEF PageInv, ShownToIds
<1>12. ShownToCursor'
  <2> SUFFICES ASSUME more, NEW i \in Items, Fixed(i)'
               PROVE  Shows(i)' \/ StillToCome(walk, KeyNow(i))'
    BY <1>1, <1>7 DEF ShownToCursor
  <2>1. walk.ids # {} /\ walk'.cursor = KeyNow(walk.last) /\ walk.last \in walk.ids
    BY <1>1, <1>4, <1>6, <1>7 DEF more
  <2>2. StillToCome(walk, KeyNow(i))' <=> walk'.cursor = <<>> \/ Comes("targets", KeyNow(walk.last), KeyNow(i))
    BY <1>1, <1>7, <1>10, <2>1 DEF StillToCome, Comes
  <2> QED  BY <1>9, <1>10, <1>11, <2>1, <2>2
<1>13. ShownToIds'
  BY <1>7 DEF ShownToIds
<1>14. ShownOfSnapshot'
  <2>1. walk'.at = "done" => \A i \in Items : Fixed(i)' => Shows(i)'
    BY <1>1, <1>7, <1>9, <1>10, <1>11 DEF more
  <2> QED  BY <1>1, <1>7, <2>1 DEF ShownOfSnapshot, Live
<1> QED  BY <1>8, <1>12, <1>13, <1>14 DEF PageInv

LEMMA PageInitInv == ASSUME PageInit PROVE PageInv
<1> DEFINE n == Cardinality(Early)
           t == CHOOSE t \in Times : TRUE
<1>1. n \in Nat /\ t \in Nat /\ t \in Times
  <2>1. n \in Nat
    BY PagingAssumption, FS_Subset, FS_CardinalityType
  <2>2. t \in Times
    BY PagingAssumption
  <2> QED  BY <2>1, <2>2, PagingAssumption
<1>2. history \in [1 .. n -> [item : Early, at : {t}, status : {"open"}]]
  BY Zenon DEF PageInit
<1>3. \E l \in Lists : \E f \in Filters(l) : walk = [NoWalk EXCEPT !.list = l, !.filter = f]
  BY Zenon DEF PageInit
<1> HIDE DEF n, t
<1>4. history \in [1 .. n -> HistoryEntries] /\ \A k \in 1 .. n : history[k].at = t
  BY <1>1, <1>2, PagingAssumption DEF HistoryEntries, Stati
<1>5. history \in Seq(HistoryEntries) /\ Len(history) = n
  BY <1>1, <1>4
<1>6. PICK l \in Lists : \E f \in Filters(l) : walk = [NoWalk EXCEPT !.list = l, !.filter = f]
  BY <1>3
<1>7. /\ walk.list = l /\ walk.filter \in Filters(l) /\ walk.at = "idle" /\ walk.cursor = <<>> /\ walk.revision = 0
      /\ walk.ids = {} /\ walk.shown = {}
      /\ walk = [at |-> walk.at, list |-> walk.list, filter |-> walk.filter, cursor |-> walk.cursor,
                 revision |-> walk.revision, counted |-> walk.counted, ids |-> walk.ids,
                 last |-> walk.last, shown |-> walk.shown, pages |-> walk.pages]
  BY <1>6 DEF NoWalk
<1>8. PageTypeOK
  BY <1>1, <1>3, <1>4, <1>5, <1>7 DEF PageTypeOK
<1>9. ShownToCursor /\ ShownToIds /\ ShownOfSnapshot
  BY <1>7 DEF ShownToCursor, ShownToIds, ShownOfSnapshot
<1> QED  BY <1>8, <1>9 DEF PageInv

LEMMA PageNextKeeps == PageInv /\ [PageNext]_pageVars => PageInv'
<1> SUFFICES ASSUME PageInv, [PageNext]_pageVars PROVE PageInv'
  OBVIOUS
<1>1. CASE \E i \in Items : WriteRow(i)
  BY <1>1, WriteRowKeeps
<1>2. CASE BeginWalk \/ CountTasks \/ ReadPage \/ ReadTargetIds \/ GetTargets
  BY <1>2, BeginWalkKeeps, CountTasksKeeps, ReadPageKeeps, ReadTargetIdsKeeps, GetTargetsKeeps
<1>3. CASE UNCHANGED pageVars
  <2>1. history' = history /\ walk' = walk
    BY <1>3 DEF pageVars
  <2>2. \A i : /\ Fixed(i)' <=> Fixed(i)
               /\ KeyNow(i)' = KeyNow(i)
               /\ Latest(i, walk.revision)' = Latest(i, walk.revision)
               /\ Shows(i)' <=> Shows(i)
    BY <2>1, SameList DEF Shows
  <2>3. Snapshot' = Snapshot /\ Present(walk.revision)' = Present(walk.revision)
        /\ Present(Len(history))' = Present(Len(history))
    BY <2>1, SameList
  <2>4. PageTypeOK'
    BY <2>1, <2>3 DEF PageInv, PageTypeOK
  <2>5. ShownToCursor' /\ ShownToIds'
    BY <2>1, <2>2 DEF PageInv, ShownToCursor, ShownToIds, StillToCome, Comes
  <2>6. ShownOfSnapshot'
    BY <2>1, <2>2, <2>3 DEF PageInv, ShownOfSnapshot
  <2> QED  BY <2>4, <2>5, <2>6 DEF PageInv
<1> QED  BY <1>1, <1>2, <1>3 DEF PageNext

\* A walk over any of the lists, of any length and with pages of any size, whatever is written
\* meanwhile: over a list with a snapshot it shows exactly what belonged to the list when it
\* began, each row once, and over the others every row that nobody touched.
THEOREM WalksAreWhole == PageSpec => []WalkIsWhole
<1>1. PageInit => PageInv
  BY PageInitInv
<1>2. PageInv => WalkIsWhole
  <2> SUFFICES ASSUME PageInv, walk.at = "done"
               PROVE  IF walk.list \in Live
                      THEN \A i \in UntouchedRows : IF walk.list = "targets" THEN Showings(i) # {} ELSE ShownOnce(i)
                      ELSE /\ {s.item : s \in walk.shown} = Snapshot
                           /\ \A i \in Snapshot : ShownOnce(i)
                           /\ walk.list \in Frozen =>
                                  \A s \in walk.shown : s.status = Latest(s.item, walk.revision).status
                           /\ walk.list = "task-center" => walk.counted = Cardinality(Present(walk.revision))
    BY DEF WalkIsWhole
  <2>1. \A i : Fixed(i) => i \in Items /\ Shows(i) /\ Showings(i) # {}
    BY FixedAre DEF PageInv, ShownOfSnapshot, Shows, Showings
  <2>2. \A i : Fixed(i) /\ walk.list # "targets" => ShownOnce(i)
    <3> SUFFICES ASSUME NEW i, Fixed(i), walk.list # "targets" PROVE ShownOnce(i)
      OBVIOUS
    <3>1. PICK s \in walk.shown : s.item = i
      BY <2>1 DEF Shows
    <3>2. \A t \in Showings(i) : t = s
      BY <2>1, <3>1 DEF PageInv, ShownOfSnapshot, Showings
    <3>3. Showings(i) = {s}
      BY <3>1, <3>2 DEF Showings
    <3> QED  BY <3>1, <3>3 DEF ShownOnce
  <2>3. CASE walk.list \in Live
    BY <2>1, <2>2, <2>3 DEF Fixed
  <2>4. CASE walk.list \notin Live
    <3>1. walk.list # "targets"
      BY <2>4 DEF Live
    <3>2. \A i : Fixed(i) <=> i \in Snapshot
      BY <2>4 DEF Fixed
    <3>3. {s.item : s \in walk.shown} = Snapshot
      BY <2>1, <2>4, <3>2 DEF PageInv, ShownOfSnapshot, Shows
    <3> QED  BY <2>2, <2>4, <3>1, <3>2, <3>3 DEF PageInv, ShownOfSnapshot
  <2> QED  BY <2>3, <2>4
<1>3. PageInv /\ [PageNext]_pageVars => PageInv'
  BY PageNextKeeps
<1> QED  BY <1>1, <1>2, <1>3, PTL DEF PageSpec
=============================================================================
