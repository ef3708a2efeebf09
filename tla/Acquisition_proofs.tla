-------------------------- MODULE Acquisition_proofs --------------------------
(* Downloads, their connections and the events that ask for them, for any numbers   *)
(* of each and whatever faults, administrators, users and feeds do.                 *)
EXTENDS Automation, FiniteSetTheorems, WellFoundedInduction, TLAPS

-----------------------------------------------------------------------------
(* Numbers: the oldest of a set, and ranks.                                    *)

LEMMA LessIsWellFounded == IsWellFoundedOn({pair \in Nat \X Nat : pair[1] < pair[2]}, Nat)
BY NatLessThanWellFounded DEF OpToRel

\* Rows are numbered, so some row is the oldest of those that qualify.
LEMMA LeastExists ==
    ASSUME NEW S, S \subseteq Nat, S # {}
    PROVE  \E x \in S : \A y \in S : x <= y
<1> DEFINE R == {pair \in Nat \X Nat : pair[1] < pair[2]}
<1>1. IsWellFoundedOn(R, Nat)
  BY LessIsWellFounded
<1>2. PICK x \in S : \A y \in S : ~(<<y, x>> \in R)
  <2> HIDE DEF R
  <2> QED  BY <1>1, WFMin
<1>3. \A y \in S : ~(y < x)
  BY <1>2
<1> QED  BY <1>3

LEMMA OldestIn ==
    ASSUME NEW S, S \subseteq Nat, S # {}
    PROVE  Oldest(S) \in S
BY LeastExists DEF Oldest

\* The members below one of them are counted without it, and in order.
LEMMA RanksDiffer ==
    ASSUME NEW S, S \subseteq Nat, IsFiniteSet(S), NEW x \in S, NEW y \in S, x < y
    PROVE  RankIn(S, x) < RankIn(S, y)
<1> DEFINE below(z) == {s \in S : s < z}
<1>1. IsFiniteSet(below(x)) /\ IsFiniteSet(below(y))
  BY FS_Subset
<1>2. below(x) \subseteq below(y) /\ x \in below(y) /\ x \notin below(x)
  <2>1. x \in Nat /\ y \in Nat /\ \A s \in S : s \in Nat
    OBVIOUS
  <2>2. \A s \in S : s < x => s < y
    BY <2>1
  <2>3. x < y /\ ~(x < x)
    BY <2>1
  <2> QED  BY <2>2, <2>3
<1>3. Cardinality(below(x)) <= Cardinality(below(y)) /\ Cardinality(below(x)) # Cardinality(below(y))
  <2> HIDE DEF below
  <2> QED  BY <1>1, <1>2, FS_Subset
<1>4. Cardinality(below(x)) \in Nat /\ Cardinality(below(y)) \in Nat
  BY <1>1, FS_CardinalityType
<1> QED  BY <1>3, <1>4 DEF RankIn

\* Every number below the size of a set is the rank of one of its members: the least number that
\* is not would follow the rank of a member, but so does the rank of the next one.
LEMMA RankExists ==
    ASSUME NEW S, S \subseteq Nat, IsFiniteSet(S), NEW k \in Nat, k < Cardinality(S)
    PROVE  \E x \in S : RankIn(S, x) = k
<1> DEFINE lacking == {j \in Nat : j < Cardinality(S) /\ ~(\E x \in S : RankIn(S, x) = j)}
<1> SUFFICES ASSUME lacking # {} PROVE FALSE
  OBVIOUS
<1>0. Cardinality(S) \in Nat
  BY FS_CardinalityType
<1>1. PICK j \in lacking : \A i \in lacking : j <= i
  <2> HIDE DEF lacking
  <2> SUFFICES lacking \subseteq Nat
    BY LeastExists
  <2> QED  BY DEF lacking
<1> DEFINE below(z) == {s \in S : s < z}
<1>2. PICK head \in SUBSET S : /\ Cardinality(head) = j
                               /\ \A x \in head : \A y \in S : y < x => y \in head
  <2>1. CASE j = 0
    BY <2>1, FS_EmptySet
  <2>2. CASE j # 0
    <3>1. j \in Nat /\ j - 1 \in Nat /\ j - 1 < Cardinality(S) /\ j - 1 \notin lacking
      BY <1>0, <1>1, <2>2
    <3>2. PICK x \in S : RankIn(S, x) = j - 1
      BY <3>1
    <3>3. IsFiniteSet(below(x)) /\ x \notin below(x) /\ Cardinality(below(x)) = j - 1
      BY <3>2, FS_Subset DEF RankIn
    <3>4. Cardinality(below(x) \cup {x}) = j
      <4> HIDE DEF below, lacking
      <4>1. Cardinality(below(x) \cup {x}) = Cardinality(below(x)) + 1
        BY <3>3, FS_AddElement
      <4> QED  BY <4>1, <3>1, <3>3
    <3>5. \A z \in below(x) \cup {x} : \A y \in S : y < z => y \in below(x) \cup {x}
      OBVIOUS
    <3> QED  BY <3>4, <3>5
  <2> QED  BY <2>1, <2>2
<1>3. S \ head # {}
  <2>1. head # S
    BY <1>0, <1>1, <1>2
  <2> QED  BY <2>1, <1>2
<1>4. PICK x \in S \ head : \A y \in S \ head : x <= y
  BY <1>3, LeastExists
<1>5. below(x) = head
  <2>1. \A s \in S : s \in Nat
    OBVIOUS
  <2>2. \A s \in S : s < x => s \in head
    BY <1>4, <2>1
  <2>3. \A s \in head : s < x
    BY <1>2, <1>4, <2>1
  <2> QED  BY <1>2, <2>2, <2>3
<1>6. RankIn(S, x) = j
  BY <1>2, <1>5 DEF RankIn
<1>7. ~(\E z \in S : RankIn(S, z) = j)
  BY <1>1
<1> QED  BY <1>4, <1>6, <1>7

-----------------------------------------------------------------------------
(* The invariant of the download side.                                         *)

DownloadRow ==
    [status : Running \cup Ended, conn : Connections, linked : BOOLEAN,
     remote : {"unknown"} \cup RemoteStates, failure : {"none", "not-configured"} \cup Errors,
     blocked : Nat, refused : Nat, lease : {"none", "held", "orphan"}]

SavedRow ==
    [state : {"saved"}, version : Nat, enabled : BOOLEAN, health : {"degraded"} \cup Verdicts,
     judged : [url : Nat, secret : Nat]]

RemoteRow ==
    [state : {"absent", "pending"} \cup RemoteStates, adds : Nat, hidden : BOOLEAN,
     removed : BOOLEAN]

Places == {"config", "refuse", "secret", "link", "found", "add", "decide", "conclude", "sync"}

WorkerBatch ==
    [at : Places, conn : Connections, version : Nat, secret : Nat, todo : SUBSET Downloads,
     linked : SUBSET Downloads, answer : {"none"} \cup Errors, for : Nat, sync : BOOLEAN,
     seen : [Downloads -> {"unlisted"} \cup RemoteStates]]

ProbeRow ==
    [at : {"read", "answered"}, conn : Connections, url : Nat, secret : Nat,
     verdict : {"none"} \cup Verdicts]

Gone == [state |-> "deleted"]

DownloadsTyped ==
    /\ download \in [Downloads -> {NoDownload} \cup DownloadRow]
    /\ conn \in [Connections -> {NoConnection, Gone} \cup SavedRow]
    /\ server \in [Downloads -> RemoteRow]
    /\ batch \in {Idle} \cup WorkerBatch
    /\ probing \in {NoProbe} \cup ProbeRow

\* The rows the worker still has to do with are leased to it and open: only it ends them.
Held(d) == download[d].lease = "held" /\ download[d].status \in {"submitting", "monitoring"}

Choosing == {"config", "refuse", "secret"}      \* before the batch is split
About == {"add", "found", "decide", "conclude"} \* while it is about one row

\* Those linked and those still to link are apart; what the worker is about is one of them.
BatchHeld ==
    batch # Idle =>
        /\ batch.at \in {"config", "secret"} => batch.linked \subseteq batch.todo
        /\ \A d \in batch.todo : Held(d)
        /\ batch.at \notin Choosing =>
              batch.linked \cap batch.todo = {} /\ \A d \in batch.linked : Held(d)
        /\ batch.at \in About => batch.for \in (IF batch.sync THEN batch.linked ELSE batch.todo)

\* An answer is in hand only from the request to the conclusion, for every row of a query.
Answering ==
    batch # Idle =>
        /\ batch.at \notin {"sync", "decide", "conclude"} => batch.answer = "none" /\ ~batch.sync
        /\ batch.at = "sync" => batch.answer # "missing" /\ batch.sync
        /\ batch.sync => batch.answer # "missing"

\* The credentials were read after the address, and neither is ahead of what is saved.
ReadInOrder(c, url, secret) ==
    /\ conn[c].state # "absent"
    /\ Exists(c) => url <= secret /\ secret <= conn[c].version

ReadBefore(c, url) == ReadInOrder(c, url, conn[c].version)

VerdictsInOrder ==
    /\ batch # Idle =>
        /\ batch.at = "secret" => ReadBefore(batch.conn, batch.version)
        /\ batch.at \notin Choosing => ReadInOrder(batch.conn, batch.version, batch.secret)
        /\ batch.at = "conclude" /\ batch.answer \in Judging => batch.version = batch.secret
    /\ probing.at = "read" => ReadBefore(probing.conn, probing.url)
    /\ probing.at = "answered" =>
          ReadInOrder(probing.conn, probing.url, probing.secret) /\ probing.verdict \in Verdicts

\* Why a torrent may not be found under its tag.
Explained(d) == server[d].hidden \/ server[d].removed \/ server[d].adds = 0

RowsExplained ==
    \A d \in Downloads :
        /\ server[d].state = "absent" => server[d].adds = 0
        /\ server[d].state = "pending" => server[d].hidden
        /\ server[d].adds > 1 => server[d].hidden
        /\ Reached(d) /\ download[d].failure = "missing" =>
              download[d].status = "failed" /\ Explained(d)

\* What the worker is about to conclude has the same reasons, and an add is its first one.
BatchExplained ==
    batch # Idle =>
        /\ batch.at = "add" => server[batch.for].hidden \/ server[batch.for].adds = 0
        /\ batch.at \in {"decide", "conclude"} /\ batch.answer = "missing" => Explained(batch.for)
        /\ batch.at = "sync" /\ batch.answer = "none" =>
              \A d \in batch.linked : batch.seen[d] = "unlisted" => Explained(d)

DInv ==
    /\ DownloadsTyped /\ BatchHeld /\ Answering /\ VerdictsInOrder
    /\ RowsExplained /\ BatchExplained /\ VerdictFitsConfig

LEMMA RowTyped ==
    ASSUME DownloadsTyped, NEW d \in Downloads, Reached(d) PROVE download[d] \in DownloadRow
BY DEF DownloadsTyped, Reached, NoDownload

LEMMA SavedTyped ==
    ASSUME DownloadsTyped, NEW c \in Connections, Exists(c) PROVE conn[c] \in SavedRow
BY DEF DownloadsTyped, Exists, NoConnection, Gone

LEMMA BatchTyped ==
    ASSUME DownloadsTyped, batch # Idle PROVE batch \in WorkerBatch
BY DEF DownloadsTyped

LEMMA ProbeTyped ==
    ASSUME DownloadsTyped, probing # NoProbe PROVE probing \in ProbeRow
BY DEF DownloadsTyped

LEMMA OldestDownload ==
    ASSUME NEW S, S \subseteq Downloads, S # {} PROVE Oldest(S) \in S
BY DownloadsAssumption, OldestIn

LEMMA DownloadsInitInv == DownloadInit => DInv
<1> SUFFICES ASSUME DownloadInit PROVE DInv
  OBVIOUS
<1>1. PICK saved \in SUBSET Connections :
        conn = [c \in Connections |-> IF c \in saved THEN Saved(1, TRUE) ELSE NoConnection]
  BY DEF DownloadInit
<1>2. Saved(1, TRUE) \in SavedRow
  BY DEF Saved, SavedRow, Verdicts
<1>3. conn \in [Connections -> {NoConnection, Gone} \cup SavedRow]
  BY <1>1, <1>2
<1>4. download = [d \in Downloads |-> NoDownload] /\ batch = Idle /\ probing = NoProbe
  BY DEF DownloadInit
<1>5. server \in [Downloads -> RemoteRow]
      /\ \A d \in Downloads : server[d].adds = 0 /\ server[d].state = "absent"
  BY DEF DownloadInit, RemoteRow
<1>6. DownloadsTyped
  BY <1>3, <1>4, <1>5 DEF DownloadsTyped
<1>7. BatchHeld /\ Answering
  BY <1>4 DEF BatchHeld, Answering
<1>8. VerdictsInOrder
  BY <1>4 DEF VerdictsInOrder, NoProbe
<1>9. RowsExplained /\ BatchExplained
  BY <1>4, <1>5 DEF RowsExplained, BatchExplained, Reached, NoDownload
<1>10. VerdictFitsConfig
  BY <1>1, <1>4 DEF VerdictFitsConfig, Reached, NoDownload, Exists, Saved, NoConnection
<1> QED  BY <1>6, <1>7, <1>8, <1>9, <1>10 DEF DInv

-----------------------------------------------------------------------------
(* The worker's turn.                                                          *)

LEMMA ClaimBatchKeeps == ASSUME DInv, ClaimBatch PROVE DInv'
<1>1. PICK ripe \in SUBSET {d \in Downloads : Reached(d)} :
        /\ \E d \in Downloads : Eligible(d, ripe)
        /\ Claimed(Batch(ripe))
        /\ batch' = [at |-> "config", conn |-> download[Oldest(Batch(ripe))].conn, version |-> 0,
                     secret |-> 0, todo |-> Batch(ripe),
                     linked |-> {d \in Batch(ripe) : download[d].linked},
                     answer |-> "none", for |-> 0, sync |-> FALSE,
                     seen |-> [d \in Downloads |-> "unlisted"]]
  BY DEF ClaimBatch
<1> DEFINE S == Batch(ripe)
           due == {d \in Downloads : Eligible(d, ripe)}
<1>2. S \subseteq due /\ S # {}
  <2>1. Oldest(due) \in due
    BY <1>1, OldestDownload
  <2> QED  BY <2>1 DEF Batch
<1>3. \A d \in S : /\ d \in Downloads /\ download[d] \in DownloadRow
                   /\ download[d].status \in Running
  BY <1>2, RowTyped DEF Eligible, Running, Reached, DInv
<1>4. download[Oldest(S)].conn \in Connections
  <2>1. Oldest(S) \in S
    BY <1>2, OldestDownload
  <2> QED  BY <2>1, <1>3 DEF DownloadRow
<1>5. \A d \in Downloads : d \notin S => download'[d] = download[d]
  BY <1>1 DEF Claimed
<1>6. \A d \in S : /\ download'[d] \in DownloadRow
                   /\ download'[d].lease = "held"
                   /\ download'[d].status \in {"submitting", "monitoring"}
                   /\ download'[d].failure = download[d].failure
                   /\ download'[d].blocked = download[d].blocked
                   /\ download'[d].refused = download[d].refused
  BY <1>1, <1>3 DEF Claimed, DownloadRow, Running
<1>7. download' \in [Downloads -> {NoDownload} \cup DownloadRow]
  BY <1>1, <1>5, <1>6 DEF Claimed, DInv, DownloadsTyped
<1> HIDE DEF S
<1>8. /\ batch' \in WorkerBatch /\ batch'.at = "config" /\ batch'.todo = S /\ batch'.linked \subseteq S
      /\ batch'.answer = "none" /\ ~batch'.sync
  BY <1>1, <1>3, <1>4 DEF WorkerBatch, Places, S
<1>9. UNCHANGED <<conn, server, probing>>
  BY DEF ClaimBatch
<1>10. DownloadsTyped'
  BY <1>7, <1>8, <1>9 DEF DInv, DownloadsTyped
<1>11. BatchHeld' /\ Answering'
  BY <1>6, <1>8 DEF BatchHeld, Held, Choosing, About, Answering
<1>12. VerdictsInOrder'
  BY <1>8, <1>9 DEF DInv, VerdictsInOrder, ReadBefore, ReadInOrder, Exists, Choosing
<1>13. RowsExplained' /\ BatchExplained'
  BY <1>3, <1>5, <1>6, <1>8, <1>9 DEF DInv, RowsExplained, BatchExplained, Explained, Reached, Running
<1>14. VerdictFitsConfig'
  BY <1>3, <1>5, <1>6, <1>9 DEF DInv, VerdictFitsConfig, Exists, Reached, Running
<1> QED  BY <1>10, <1>11, <1>12, <1>13, <1>14 DEF DInv

\* What the worker has in hand after a step that changes no connection.
HandSound(hand) ==
    /\ hand.at = "secret" => ReadBefore(hand.conn, hand.version)
    /\ hand.at \notin Choosing => ReadInOrder(hand.conn, hand.version, hand.secret)
    /\ hand.at = "conclude" /\ hand.answer \in Judging => hand.version = hand.secret

\* A step that only changes what the worker has in hand.
LEMMA InHandOnly ==
    ASSUME DInv, UNCHANGED <<download, conn, server, probing>>,
           batch' \in {Idle} \cup WorkerBatch, BatchHeld', Answering', BatchExplained',
           batch' # Idle => HandSound(batch')
    PROVE  DInv'
<1>1. DownloadsTyped'
  BY DEF DInv, DownloadsTyped
<1>2. VerdictsInOrder'
  BY DEF DInv, VerdictsInOrder, HandSound, ReadBefore, ReadInOrder, Exists
<1>3. RowsExplained' /\ VerdictFitsConfig'
  BY DEF DInv, RowsExplained, VerdictFitsConfig, Explained, Reached, Exists
<1> QED  BY <1>1, <1>2, <1>3 DEF DInv

LEMMA TurnEnds ==
    ASSUME DInv, UNCHANGED <<download, conn, server, probing>>, Turn
    PROVE  DInv'
<1>1. BatchHeld' /\ Answering' /\ BatchExplained'
  BY DEF Turn, BatchHeld, Answering, BatchExplained
<1> QED  BY <1>1, InHandOnly DEF Turn

\* A step that also ends, fails or links one of the rows it is about.
LEMMA RowAndHand ==
    ASSUME DInv, UNCHANGED <<conn, server, probing>>,
           NEW d \in Downloads, NEW row \in DownloadRow,
           download' = [download EXCEPT ![d] = row],
           row.blocked > 0 => row.refused = row.blocked,
           row.failure = "missing" => row.status = "failed" /\ Explained(d),
           batch' \in {Idle} \cup WorkerBatch, BatchHeld', Answering', BatchExplained',
           batch' # Idle => HandSound(batch')
    PROVE  DInv'
<1>1. /\ download' \in [Downloads -> {NoDownload} \cup DownloadRow]
      /\ download'[d] = row
      /\ \A e \in Downloads \ {d} : download'[e] = download[e]
  BY DEF DInv, DownloadsTyped
<1>2. DownloadsTyped'
  BY <1>1 DEF DInv, DownloadsTyped
<1>3. VerdictsInOrder'
  BY DEF DInv, VerdictsInOrder, HandSound, ReadBefore, ReadInOrder, Exists
<1>4. RowsExplained'
  BY <1>1 DEF DInv, RowsExplained, Explained, Reached
<1>5. VerdictFitsConfig'
  BY <1>1 DEF DInv, VerdictFitsConfig, Reached, Exists
<1> QED  BY <1>2, <1>3, <1>4, <1>5 DEF DInv

LEMMA ReadConfigKeeps == ASSUME DInv, ReadConfig PROVE DInv'
<1>1. batch \in WorkerBatch /\ batch # Idle
  BY BatchTyped DEF ReadConfig, DInv, Idle
<1>2. UNCHANGED <<download, conn, server, probing>>
  BY DEF ReadConfig
<1>3. CASE Exists(batch.conn) /\ conn[batch.conn].enabled
  <2>1. batch' = [batch EXCEPT !.at = "secret", !.version = conn[batch.conn].version]
    BY <1>3 DEF ReadConfig
  <2>2. conn[batch.conn] \in SavedRow
    BY <1>1, <1>3, SavedTyped DEF DInv, WorkerBatch
  <2>3. conn[batch.conn].version \in Nat
    BY <2>2 DEF SavedRow
  <2>4. batch' \in WorkerBatch /\ batch'.at = "secret"
    BY <1>1, <2>1, <2>3 DEF WorkerBatch, Places
  <2>5. BatchHeld' /\ Answering'
    BY <1>1, <1>2, <2>1
    DEF DInv, BatchHeld, Answering, Held, ReadConfig, WorkerBatch, Choosing, About
  <2>6. BatchExplained'
    BY <2>4 DEF BatchExplained
  <2>7. HandSound(batch')
    BY <1>1, <1>3, <2>1, <2>3 DEF HandSound, ReadBefore, ReadInOrder, WorkerBatch, Choosing, Exists
  <2> QED  BY <1>2, <2>4, <2>5, <2>6, <2>7, InHandOnly
<1>4. CASE ~(Exists(batch.conn) /\ conn[batch.conn].enabled)
  <2>1. batch' = [batch EXCEPT !.at = "refuse"]
    BY <1>4 DEF ReadConfig
  <2>2. batch' \in WorkerBatch /\ batch'.at = "refuse"
    BY <1>1, <2>1 DEF WorkerBatch, Places
  <2>3. BatchHeld' /\ Answering'
    BY <1>1, <1>2, <2>1
    DEF DInv, BatchHeld, Answering, Held, ReadConfig, WorkerBatch, Choosing, About
  <2>4. BatchExplained' /\ HandSound(batch')
    BY <2>2 DEF BatchExplained, HandSound, Choosing
  <2> QED  BY <1>2, <2>2, <2>3, <2>4, InHandOnly
<1> QED  BY <1>3, <1>4

LEMMA ReadSecretKeeps == ASSUME DInv, ReadSecret PROVE DInv'
<1>1. batch \in WorkerBatch /\ batch # Idle /\ batch.at = "secret"
  BY BatchTyped DEF ReadSecret, DInv, Idle
<1>2. UNCHANGED <<download, conn, server, probing>>
  BY DEF ReadSecret
<1>3. CASE Exists(batch.conn)
  <2>1. batch' = [batch EXCEPT !.at = "link", !.secret = conn[batch.conn].version,
                               !.todo = @ \ batch.linked]
    BY <1>3 DEF ReadSecret
  <2>2. conn[batch.conn] \in SavedRow
    BY <1>1, <1>3, SavedTyped DEF DInv, WorkerBatch
  <2>3. conn[batch.conn].version \in Nat
    BY <2>2 DEF SavedRow
  <2>4. /\ batch' \in WorkerBatch /\ batch'.at = "link"
        /\ batch'.linked = batch.linked /\ batch'.todo = batch.todo \ batch.linked
        /\ batch'.answer = batch.answer /\ batch'.sync = batch.sync
    BY <1>1, <2>1, <2>3 DEF WorkerBatch, Places
  <2>5. batch.linked \subseteq batch.todo /\ \A d \in batch.todo : Held(d)
    BY <1>1 DEF DInv, BatchHeld
  <2>6. BatchHeld'
    BY <1>2, <2>4, <2>5 DEF BatchHeld, Held, About
  <2>7. BatchExplained' /\ Answering'
    BY <1>1, <2>4 DEF BatchExplained, DInv, Answering
  <2>8. batch'.version = batch.version /\ batch'.secret = conn[batch.conn].version
        /\ batch'.conn = batch.conn
    BY <1>1, <2>1 DEF WorkerBatch
  <2>9. ReadBefore(batch.conn, batch.version)
    BY <1>1 DEF DInv, VerdictsInOrder
  <2>10. HandSound(batch')
    BY <1>3, <2>3, <2>4, <2>8, <2>9 DEF HandSound, ReadBefore, ReadInOrder
  <2> QED  BY <1>2, <2>4, <2>6, <2>7, <2>10, InHandOnly
<1>4. CASE ~Exists(batch.conn)
  BY <1>2, <1>4, TurnEnds DEF ReadSecret
<1> QED  BY <1>3, <1>4

\* What a request of the worker may be answered; the batch goes on with it.
LEMMA AskedKeeps ==
    ASSUME DInv, NEW d \in batch.todo, NEW at \in {"found", "add", "decide"},
           NEW answer \in {"none"} \cup (Errors \ {"missing"}),
           batch.at = "link", UNCHANGED <<download, conn, server, probing>>,
           batch' = [batch EXCEPT !.for = d, !.at = at, !.answer = answer],
           at # "decide" => answer = "none",
           at = "add" => ~Listed(d)
    PROVE  DInv'
<1>1. batch \in WorkerBatch /\ batch # Idle
  BY BatchTyped DEF DInv, Idle
<1>2. d \in Downloads /\ d \in Nat
  BY <1>1, DownloadsAssumption DEF WorkerBatch
<1>3. /\ batch' \in WorkerBatch /\ batch'.at = at /\ batch'.for = d /\ batch'.answer = answer
      /\ batch'.todo = batch.todo /\ batch'.linked = batch.linked /\ batch'.conn = batch.conn
      /\ batch'.version = batch.version /\ batch'.secret = batch.secret
      /\ batch'.sync = batch.sync
  BY <1>1, <1>2 DEF WorkerBatch, Places
<1>4. BatchHeld' /\ Answering'
  BY <1>1, <1>3 DEF DInv, BatchHeld, Answering, Held, Choosing, About
<1>5. at = "add" => server[d].hidden \/ server[d].adds = 0
  <2>1. server[d] \in RemoteRow
    BY <1>2 DEF DInv, DownloadsTyped
  <2> QED  BY <1>2, <2>1 DEF DInv, RowsExplained, Listed, RemoteRow
<1>6. BatchExplained'
  BY <1>3, <1>5 DEF BatchExplained
<1>7. HandSound(batch')
  BY <1>1, <1>3 DEF DInv, VerdictsInOrder, Choosing, HandSound
<1> QED  BY <1>3, <1>4, <1>6, <1>7, InHandOnly

LEMMA LookupKeeps == ASSUME DInv, Lookup PROVE DInv'
<1>1. batch.at = "link" /\ batch.todo # {} /\ UNCHANGED <<download, conn, server, probing>>
  BY DEF Lookup
<1>2. batch \in WorkerBatch /\ batch # Idle
  BY <1>1, BatchTyped DEF DInv, Idle
<1> DEFINE d == Oldest(batch.todo)
<1>3. d \in batch.todo
  BY <1>1, <1>2, OldestDownload DEF WorkerBatch
<1>4. batch.answer = "none"
  BY <1>1, <1>2 DEF DInv, Answering
<1>5. PICK at \in {"found", "add", "decide"}, answer \in {"none"} \cup (Errors \ {"missing"}) :
        /\ batch' = [batch EXCEPT !.for = d, !.at = at, !.answer = answer]
        /\ at # "decide" => answer = "none"
        /\ at = "add" => ~Listed(d)
  <2>1. \/ batch' = [batch EXCEPT !.for = d, !.at = "decide", !.answer = "invalid"]
        \/ Listed(d) /\ batch' = [batch EXCEPT !.for = d, !.at = "found"]
        \/ ~Listed(d) /\ batch' = [batch EXCEPT !.for = d, !.at = "add"]
        \/ batch' = [batch EXCEPT !.for = d, !.at = "decide", !.answer = "unauthorized"]
        \/ \E error \in Errors \ {"missing"} :
              batch' = [batch EXCEPT !.for = d, !.at = "decide", !.answer = error]
    BY DEF Lookup, Known
  <2>2. "invalid" \in Errors \ {"missing"} /\ "unauthorized" \in Errors \ {"missing"}
    BY DEF Errors, Terminal, Retryable, UntilConfig
  <2>3. /\ [batch EXCEPT !.for = d, !.at = "found"]
              = [batch EXCEPT !.for = d, !.at = "found", !.answer = "none"]
        /\ [batch EXCEPT !.for = d, !.at = "add"]
              = [batch EXCEPT !.for = d, !.at = "add", !.answer = "none"]
    BY <1>2, <1>4 DEF WorkerBatch
  <2> HIDE DEF d
  <2> QED  BY <2>1, <2>2, <2>3
<1> HIDE DEF d
<1> QED  BY <1>1, <1>3, <1>5, AskedKeeps

LEMMA TakenTyped ==
    ASSUME NEW row \in RemoteRow, NEW known \in BOOLEAN,
           NEW state \in {"absent", "pending"} \cup RemoteStates
    PROVE  [row EXCEPT !.adds = @ + 1, !.hidden = known, !.state = state] \in RemoteRow
<1> DEFINE adds == row.adds + 1
<1>1. adds \in Nat
  BY DEF RemoteRow
<1> HIDE DEF adds
<1>2. [row EXCEPT !.adds = adds, !.hidden = known, !.state = state] \in RemoteRow
  BY <1>1 DEF RemoteRow
<1> QED  BY <1>2 DEF adds

\* What AddRemote makes of the torrent and of the answer.
LEMMA AddRemoteKeeps == ASSUME DInv, AddRemote PROVE DInv'
<1>1. batch.at = "add" /\ UNCHANGED <<download, conn, probing>>
  BY DEF AddRemote
<1>2. batch \in WorkerBatch /\ batch # Idle
  BY <1>1, BatchTyped DEF DInv, Idle
<1> DEFINE d == batch.for
<1>3. batch.answer = "none" /\ ~batch.sync /\ d \in batch.todo /\ Held(d)
  BY <1>1, <1>2 DEF DInv, Answering, BatchHeld, About
<1>4. d \in Downloads /\ d \in Nat
  BY <1>2, <1>3, DownloadsAssumption DEF WorkerBatch
<1>5. server[d] \in RemoteRow /\ (server[d].hidden \/ server[d].adds = 0)
  BY <1>1, <1>2, <1>4 DEF DInv, DownloadsTyped, BatchExplained
<1>6. PICK at \in {"found", "decide"}, answer \in {"none"} \cup Errors, taken \in BOOLEAN, hidden \in BOOLEAN :
        /\ batch' = [batch EXCEPT !.at = at, !.answer = answer]
        /\ IF taken THEN Takes(d, hidden) ELSE UNCHANGED server
        /\ at # "decide" => answer = "none"
        /\ answer = "missing" => ~taken \/ hidden
  <2>1. \/ Takes(d, FALSE) /\ batch' = [batch EXCEPT !.at = "found"]
        \/ Takes(d, TRUE) /\ batch' = [batch EXCEPT !.at = "decide", !.answer = "missing"]
        \/ Takes(d, FALSE) /\ \E error \in Errors \ {"missing"} :
              batch' = [batch EXCEPT !.at = "decide", !.answer = error]
        \/ UNCHANGED server /\ \E error \in Errors :
              batch' = [batch EXCEPT !.at = "decide", !.answer = error]
    BY DEF AddRemote, Answered
  <2>2. [batch EXCEPT !.at = "found"] = [batch EXCEPT !.at = "found", !.answer = "none"]
    BY <1>2, <1>3 DEF WorkerBatch
  <2>3. "missing" \in Errors
    BY DEF Errors, Terminal
  <2> HIDE DEF d
  <2> QED  BY <2>1, <2>2, <2>3
<1>7. /\ batch' \in WorkerBatch /\ batch'.at = at /\ batch'.for = d /\ batch'.answer = answer
      /\ batch'.todo = batch.todo /\ batch'.linked = batch.linked /\ batch'.conn = batch.conn
      /\ batch'.version = batch.version /\ batch'.secret = batch.secret
      /\ batch'.sync = batch.sync
  BY <1>2, <1>6 DEF WorkerBatch, Places
<1>8. CASE taken
  <2>1. server' = [server EXCEPT ![d] =
            [server[d] EXCEPT !.adds = @ + 1, !.hidden = @ \/ hidden,
                              !.state = IF @ # "absent" THEN @
                                        ELSE IF hidden THEN "pending" ELSE "downloading"]]
    BY <1>6, <1>8 DEF Takes
  <2>2. /\ server' \in [Downloads -> RemoteRow]
        /\ \A e \in Downloads \ {d} : server'[e] = server[e]
        /\ server'[d].state # "absent"
        /\ server'[d].state = "pending" => server'[d].hidden
        /\ server'[d].adds > 1 => server'[d].hidden
        /\ hidden => server'[d].hidden
    <3>1. server[d].state = "pending" => server[d].hidden
      BY <1>4 DEF DInv, RowsExplained
    <3>2. server'[d] = [server[d] EXCEPT !.adds = @ + 1, !.hidden = @ \/ hidden,
                              !.state = IF @ # "absent" THEN @
                                        ELSE IF hidden THEN "pending" ELSE "downloading"]
      BY <1>4, <2>1 DEF DInv, DownloadsTyped
    <3>3. server'[d] \in RemoteRow
      <4> DEFINE known == server[d].hidden \/ hidden
                 state == IF server[d].state # "absent" THEN server[d].state
                          ELSE IF hidden THEN "pending" ELSE "downloading"
      <4>1. known \in BOOLEAN
        BY <1>5 DEF RemoteRow
      <4>2. state \in {"absent", "pending"} \cup RemoteStates
        BY <1>5 DEF RemoteRow, RemoteStates
      <4>3. server'[d] = [server[d] EXCEPT !.adds = @ + 1, !.hidden = known, !.state = state]
        BY <3>2
      <4> HIDE DEF known, state
      <4>4. server[d] \in RemoteRow
        BY <1>5
      <4>5. [server[d] EXCEPT !.adds = @ + 1, !.hidden = known, !.state = state] \in RemoteRow
        BY <4>1, <4>2, <4>4, TakenTyped
      <4> QED  BY <4>3, <4>5
    <3> QED  BY <1>4, <1>5, <2>1, <3>1, <3>2, <3>3 DEF RemoteRow, DInv, DownloadsTyped
  <2>3. DownloadsTyped'
    BY <1>1, <1>7, <2>2 DEF DInv, DownloadsTyped
  <2>4. BatchHeld' /\ Answering'
    BY <1>1, <1>2, <1>3, <1>6, <1>7 DEF DInv, BatchHeld, Answering, Held, Choosing, About
  <2>5. BatchExplained'
    BY <1>6, <1>7, <1>8, <2>2 DEF BatchExplained, Explained
  <2>6. RowsExplained'
    BY <1>1, <1>3, <2>2 DEF DInv, RowsExplained, Explained, Reached, Held
  <2>7. VerdictsInOrder'
    BY <1>1, <1>2, <1>7
    DEF DInv, VerdictsInOrder, ReadBefore, ReadInOrder, Exists, Choosing
  <2>8. VerdictFitsConfig'
    BY <1>1 DEF DInv, VerdictFitsConfig, Exists, Reached
  <2> QED  BY <2>3, <2>4, <2>5, <2>6, <2>7, <2>8 DEF DInv
<1>9. CASE ~taken
  <2>1. UNCHANGED <<download, conn, server, probing>>
    BY <1>1, <1>6, <1>9
  <2>2. BatchHeld' /\ Answering'
    BY <1>1, <1>2, <1>3, <1>6, <1>7 DEF DInv, BatchHeld, Answering, Held, Choosing, About
  <2>3. BatchExplained'
    BY <1>5, <1>6, <1>7, <2>1 DEF BatchExplained, Explained
  <2>4. HandSound(batch')
    BY <1>1, <1>2, <1>6, <1>7 DEF DInv, VerdictsInOrder, HandSound, Choosing
  <2> QED  BY <1>7, <2>1, <2>2, <2>3, <2>4, InHandOnly
<1> QED  BY <1>8, <1>9

LEMMA HeldTyped ==
    ASSUME DInv, NEW d \in Downloads, Held(d) PROVE download[d] \in DownloadRow
BY RowTyped DEF DInv, Held, Reached

LEMMA CommitRemoteRefKeeps == ASSUME DInv, CommitRemoteRef PROVE DInv'
<1>1. batch.at = "found" /\ UNCHANGED <<conn, server, probing>>
  BY DEF CommitRemoteRef
<1>2. batch \in WorkerBatch /\ batch # Idle
  BY <1>1, BatchTyped DEF DInv, Idle
<1> DEFINE d == batch.for
           row == [download[d] EXCEPT !.linked = TRUE, !.remote = "unknown",
                        !.status = "monitoring", !.failure = "none", !.blocked = 0]
<1>3. d \in batch.todo /\ Held(d) /\ d \notin batch.linked
  BY <1>1, <1>2 DEF DInv, Answering, BatchHeld, About, Choosing
<1>4. d \in Downloads /\ download[d] \in DownloadRow
  BY <1>2, <1>3, HeldTyped DEF WorkerBatch
<1>5. download' = [download EXCEPT ![d] = row]
  BY DEF CommitRemoteRef, Linked
<1>6. /\ row \in DownloadRow /\ row.blocked = 0 /\ row.failure = "none"
      /\ row.lease = "held" /\ row.status = "monitoring"
  BY <1>3, <1>4 DEF DownloadRow, Running, RemoteStates, Held
<1>7. batch' = [batch EXCEPT !.at = "link", !.todo = @ \ {batch.for},
                              !.linked = @ \cup {batch.for}]
  BY DEF CommitRemoteRef
<1>8. /\ batch' \in WorkerBatch /\ batch'.at = "link" /\ batch'.todo = batch.todo \ {d}
      /\ batch'.linked = batch.linked \cup {d} /\ batch'.conn = batch.conn
      /\ batch'.version = batch.version /\ batch'.secret = batch.secret
      /\ batch'.sync = batch.sync /\ batch'.answer = batch.answer
  BY <1>2, <1>4, <1>7 DEF WorkerBatch, Places
<1>9. download'[d] = row /\ \A e \in Downloads \ {d} : download'[e] = download[e]
  BY <1>4, <1>5 DEF DInv, DownloadsTyped
<1> HIDE DEF d, row
<1>10. batch.todo \subseteq Downloads /\ batch.linked \subseteq Downloads
  BY <1>2 DEF WorkerBatch
<1>11. \A e \in batch.todo \cup batch.linked : Held(e)'
  BY <1>1, <1>2, <1>6, <1>9, <1>10 DEF DInv, BatchHeld, Held, Choosing
<1>12. BatchHeld'
  BY <1>1, <1>2, <1>3, <1>8, <1>11 DEF DInv, BatchHeld, About, Choosing
<1>13. Answering' /\ BatchExplained'
  BY <1>1, <1>2, <1>8 DEF DInv, Answering, BatchExplained
<1>14. HandSound(batch')
  BY <1>1, <1>2, <1>8 DEF DInv, VerdictsInOrder, HandSound, Choosing
<1>15. (row.blocked > 0 => row.refused = row.blocked)
       /\ (row.failure = "missing" => row.status = "failed" /\ Explained(d))
  BY <1>6
<1> QED  BY <1>1, <1>4, <1>5, <1>6, <1>8, <1>12, <1>13, <1>14, <1>15, RowAndHand

\* A verdict that is stored was given by the address and the credentials that are saved.
LEMMA JudgedFits ==
    ASSUME DownloadsTyped, VerdictFitsConfig, NEW c \in Connections, NEW url \in Nat, NEW secret \in Nat,
           NEW verdict \in Verdicts, Current(c, url), ReadInOrder(c, url, secret)
    PROVE  LET new == Judged(c, url, secret, verdict) IN
           /\ url = secret
           /\ new \in [Connections -> {NoConnection, Gone} \cup SavedRow]
           /\ \A a \in Connections : new[a].state = conn[a].state
           /\ \A a \in Connections : Exists(a) =>
                 /\ new[a].version = conn[a].version
                 /\ new[a].judged = [url |-> conn[a].version, secret |-> conn[a].version]
<1>1. conn[c] \in SavedRow /\ conn[c].version = url
  BY SavedTyped DEF Current
<1>2. url = secret
  BY <1>1 DEF ReadInOrder, Current
<1> DEFINE new == Judged(c, url, secret, verdict)
           row == [conn[c] EXCEPT !.health = verdict, !.judged = [url |-> url, secret |-> secret]]
<1>3. new = [conn EXCEPT ![c] = row]
  BY DEF Judged
<1>4. row \in SavedRow /\ row.version = url /\ row.judged = [url |-> url, secret |-> url]
  BY <1>1, <1>2 DEF SavedRow
<1>5. new[c] = row /\ row.state = conn[c].state /\ \A a \in Connections \ {c} : new[a] = conn[a]
  BY <1>1, <1>3, <1>4 DEF DownloadsTyped, SavedRow
<1>6. new \in [Connections -> {NoConnection, Gone} \cup SavedRow]
  BY <1>3, <1>4 DEF DownloadsTyped
<1> HIDE DEF new, row
<1>7. \A a \in Connections : Exists(a) =>
                 /\ new[a].version = conn[a].version
                 /\ new[a].judged = [url |-> conn[a].version, secret |-> conn[a].version]
  BY <1>1, <1>4, <1>5 DEF VerdictFitsConfig, Exists
<1> QED  BY <1>2, <1>5, <1>6, <1>7 DEF new

\* Configurations only move on, and a new probe is of the newest.
ProbeFollows ==
    probing' \in {probing, NoProbe} \/
        /\ probing' \in ProbeRow /\ probing'.at = "read"
        /\ conn'[probing'.conn].state = "saved" /\ probing'.url = conn'[probing'.conn].version

LEMMA ConfigsAdvance ==
    ASSUME DInv, UNCHANGED <<download, server>>,
           conn' \in [Connections -> {NoConnection, Gone} \cup SavedRow],
           \A a \in Connections : conn[a].state # "absent" =>
               /\ conn'[a].state # "absent"
               /\ Exists(a)' => Exists(a) /\ conn[a].version <= conn'[a].version,
           \A a \in Connections : Exists(a)' =>
               conn'[a].judged = [url |-> conn'[a].version, secret |-> conn'[a].version],
           batch' \in {Idle} \cup WorkerBatch, BatchHeld', Answering', BatchExplained',
           batch' # Idle => HandSound(batch'),
           ProbeFollows
    PROVE  DInv'
<1>1. probing' \in {NoProbe} \cup ProbeRow
  BY DEF ProbeFollows, DInv, DownloadsTyped
<1>2. DownloadsTyped'
  BY <1>1 DEF DInv, DownloadsTyped
<1>3. \A a \in Connections : /\ Exists(a) => conn[a].version \in Nat
                             /\ Exists(a)' => conn'[a].version \in Nat
  <2> SUFFICES ASSUME NEW a \in Connections
      PROVE /\ Exists(a) => conn[a].version \in Nat
            /\ Exists(a)' => conn'[a].version \in Nat
    OBVIOUS
  <2>1. Exists(a) => conn[a] \in SavedRow
    BY SavedTyped DEF DInv
  <2>2. Exists(a)' => conn'[a] \in SavedRow
    BY DEF Exists, NoConnection, Gone
  <2> QED  BY <2>1, <2>2 DEF SavedRow
<1>4. \A a \in Connections : \A url, secret \in Nat :
          /\ ReadInOrder(a, url, secret) => ReadInOrder(a, url, secret)'
          /\ ReadBefore(a, url) => ReadBefore(a, url)'
  <2> SUFFICES ASSUME NEW a \in Connections, NEW url \in Nat, NEW secret \in Nat
      PROVE  /\ ReadInOrder(a, url, secret) => ReadInOrder(a, url, secret)'
             /\ ReadBefore(a, url) => ReadBefore(a, url)'
    OBVIOUS
  <2>1. CASE conn[a].state = "absent"
    BY <2>1 DEF ReadInOrder, ReadBefore
  <2>2. CASE conn[a].state # "absent"
    <3>1. CASE Exists(a)'
      <4>1. Exists(a) /\ conn[a].version <= conn'[a].version
            /\ conn[a].version \in Nat /\ conn'[a].version \in Nat
        BY <1>3, <2>2, <3>1
      <4> QED  BY <2>2, <3>1, <4>1 DEF ReadInOrder, ReadBefore
    <3>2. CASE ~Exists(a)'
      BY <2>2, <3>2 DEF ReadInOrder, ReadBefore
    <3> QED  BY <3>1, <3>2
  <2> QED  BY <2>1, <2>2
<1>5. \A hand \in WorkerBatch : HandSound(hand) => HandSound(hand)'
  <2> SUFFICES ASSUME NEW hand \in WorkerBatch, HandSound(hand) PROVE HandSound(hand)'
    OBVIOUS
  <2>1. hand.conn \in Connections /\ hand.version \in Nat /\ hand.secret \in Nat
    BY DEF WorkerBatch
  <2> QED  BY <1>4, <2>1 DEF HandSound
<1>6. batch' # Idle => /\ batch'.at = "secret" => ReadBefore(batch.conn, batch.version)'
                       /\ batch'.at \notin Choosing => ReadInOrder(batch.conn, batch.version, batch.secret)'
                       /\ batch'.at = "conclude" /\ batch'.answer \in Judging => batch'.version = batch'.secret
  BY <1>5 DEF HandSound, ReadBefore, ReadInOrder, Exists
<1>7. /\ probing'.at = "read" => ReadBefore(probing.conn, probing.url)'
      /\ probing'.at = "answered" =>
            ReadInOrder(probing.conn, probing.url, probing.secret)' /\ probing'.verdict \in Verdicts
  <2>1. CASE probing' = NoProbe
    BY <2>1 DEF NoProbe
  <2>2. CASE probing' = probing /\ probing \in ProbeRow
    <3>1. probing.conn \in Connections /\ probing.url \in Nat /\ probing.secret \in Nat
      BY <2>2 DEF ProbeRow
    <3>2. /\ probing.at = "read" => ReadBefore(probing.conn, probing.url)
          /\ probing.at = "answered" =>
                ReadInOrder(probing.conn, probing.url, probing.secret) /\ probing.verdict \in Verdicts
      BY DEF DInv, VerdictsInOrder
    <3> QED  BY <1>4, <2>2, <3>1, <3>2 DEF ReadBefore, ReadInOrder, Exists
  <2>3. CASE /\ probing' \in ProbeRow /\ probing'.at = "read"
             /\ conn'[probing'.conn].state = "saved" /\ probing'.url = conn'[probing'.conn].version
    <3>1. probing'.conn \in Connections
      BY <2>3 DEF ProbeRow
    <3>2. conn'[probing'.conn].version \in Nat
      BY <1>3, <2>3, <3>1 DEF Exists
    <3> QED  BY <2>3, <3>2 DEF ReadBefore, ReadInOrder, Exists
  <2> QED  BY <2>1, <2>2, <2>3 DEF ProbeFollows, DInv, DownloadsTyped
<1>10. VerdictsInOrder'
  BY <1>6, <1>7 DEF VerdictsInOrder
<1>8. RowsExplained'
  BY DEF DInv, RowsExplained, Explained, Reached
<1>9. VerdictFitsConfig'
  BY DEF DInv, VerdictFitsConfig, Exists, Reached
<1> QED  BY <1>2, <1>8, <1>9, <1>10 DEF DInv

LEMMA HandIsSound == ASSUME DInv, batch # Idle PROVE HandSound(batch)
BY DEF DInv, VerdictsInOrder, HandSound

LEMMA JudgeConnectionKeeps == ASSUME DInv, JudgeConnection PROVE DInv'
<1>1. batch.at = "decide" /\ UNCHANGED <<download, server, probing>>
  BY DEF JudgeConnection
<1>2. batch \in WorkerBatch /\ batch # Idle
  BY <1>1, BatchTyped DEF DInv, Idle
<1>3. ReadInOrder(batch.conn, batch.version, batch.secret)
  BY <1>1, <1>2, HandIsSound DEF HandSound, Choosing
<1>4. ASSUME batch' = [batch EXCEPT !.at = "conclude"]
      PROVE  /\ batch' \in WorkerBatch /\ batch'.at = "conclude"
             /\ batch'.version = batch.version /\ batch'.secret = batch.secret
             /\ batch'.conn = batch.conn /\ batch'.answer = batch.answer
             /\ BatchHeld' /\ Answering' /\ BatchExplained'
  <2>1. /\ batch' \in WorkerBatch /\ batch'.at = "conclude"
        /\ batch'.version = batch.version /\ batch'.secret = batch.secret
        /\ batch'.conn = batch.conn /\ batch'.answer = batch.answer
        /\ batch'.todo = batch.todo /\ batch'.linked = batch.linked
        /\ batch'.for = batch.for /\ batch'.sync = batch.sync
    BY <1>2, <1>4 DEF WorkerBatch, Places
  <2>2. BatchHeld' /\ Answering'
    BY <1>1, <1>2, <2>1 DEF DInv, BatchHeld, Answering, Held, Choosing, About
  <2>3. BatchExplained'
    BY <1>1, <1>2, <2>1 DEF DInv, BatchExplained, Explained
  <2> QED  BY <2>1, <2>2, <2>3
<1>5. CASE batch.answer \notin Judging
  <2>1. batch' = [batch EXCEPT !.at = "conclude"] /\ UNCHANGED conn
    BY <1>5 DEF JudgeConnection
  <2>2. HandSound(batch')
    BY <1>3, <1>4, <1>5, <2>1 DEF HandSound
  <2> QED  BY <1>1, <1>4, <2>1, <2>2, InHandOnly
<1>6. CASE batch.answer \in Judging /\ Current(batch.conn, batch.version)
  <2>1. /\ batch' = [batch EXCEPT !.at = "conclude"]
        /\ conn' = Judged(batch.conn, batch.version, batch.secret, batch.answer)
    BY <1>6 DEF JudgeConnection
  <2>2. /\ batch.conn \in Connections /\ batch.version \in Nat /\ batch.secret \in Nat
        /\ batch.answer \in Verdicts
    BY <1>2, <1>6 DEF WorkerBatch, Judging, Verdicts
  <2>3. /\ batch.version = batch.secret
        /\ conn' \in [Connections -> {NoConnection, Gone} \cup SavedRow]
        /\ \A a \in Connections : conn'[a].state = conn[a].state
        /\ \A a \in Connections : Exists(a) =>
              /\ conn'[a].version = conn[a].version
              /\ conn'[a].judged = [url |-> conn[a].version, secret |-> conn[a].version]
    <3> HIDE DEF DInv
    <3>1. DownloadsTyped /\ VerdictFitsConfig
      BY DEF DInv
    <3> QED  BY <1>3, <1>6, <2>1, <2>2, <3>1, JudgedFits
  <2>4. HandSound(batch')
    BY <1>3, <1>4, <2>1, <2>3 DEF HandSound
  <2>5. \A a \in Connections : Exists(a) => conn[a].version \in Nat
    BY SavedTyped DEF DInv, SavedRow
  <2>6. \A a \in Connections :
          /\ conn[a].state # "absent" =>
               /\ conn'[a].state # "absent"
               /\ Exists(a)' => Exists(a) /\ conn[a].version <= conn'[a].version
          /\ Exists(a)' => conn'[a].judged = [url |-> conn'[a].version, secret |-> conn'[a].version]
    <3>1. \A a \in Connections : Exists(a)' => Exists(a)
      BY <2>3 DEF Exists
    <3>2. ASSUME NEW a \in Connections, Exists(a)' PROVE conn[a].version <= conn'[a].version
      <4>1. conn'[a].version = conn[a].version /\ conn[a].version \in Nat
        BY <2>3, <2>5, <3>1, <3>2
      <4> QED  BY <4>1
    <3> QED  BY <2>3, <3>1, <3>2
  <2>7. ProbeFollows
    BY <1>1 DEF ProbeFollows
  <2> QED  BY <1>1, <1>4, <2>1, <2>3, <2>4, <2>6, <2>7, ConfigsAdvance
<1>7. CASE batch.answer \in Judging /\ ~Current(batch.conn, batch.version)
  BY <1>1, <1>7, TurnEnds DEF JudgeConnection
<1> QED  BY <1>5, <1>6, <1>7

LEMMA ConcludeKeeps == ASSUME DInv, Conclude PROVE DInv'
<1>1. batch.at = "conclude" /\ UNCHANGED <<conn, server, probing>>
  BY DEF Conclude
<1>2. batch \in WorkerBatch /\ batch # Idle
  BY <1>1, BatchTyped DEF DInv, Idle
<1> DEFINE d == batch.for
<1>3. /\ d \in (IF batch.sync THEN batch.linked ELSE batch.todo) /\ Held(d)
      /\ batch.linked \cap batch.todo = {}
      /\ \A e \in batch.todo \cup batch.linked : Held(e)
  BY <1>1, <1>2 DEF DInv, BatchHeld, About, Choosing
<1>4. /\ d \in Downloads /\ download[d] \in DownloadRow
      /\ batch.todo \subseteq Downloads /\ batch.linked \subseteq Downloads
      /\ batch.version \in Nat /\ batch.secret \in Nat
  BY <1>2, <1>3, HeldTyped DEF WorkerBatch
<1>5. PICK row \in DownloadRow :
        /\ download' = [download EXCEPT ![d] = row]
        /\ row.blocked > 0 => row.refused = row.blocked
        /\ row.failure = "missing" => row.status = "failed" /\ Explained(d)
  <2>1. CASE batch.answer \in UntilConfig /\ Blocked(d, batch.version, batch.secret)
    <3> DEFINE row == [download[d] EXCEPT !.status = "failed", !.failure = "unauthorized",
                        !.blocked = batch.version, !.refused = batch.secret, !.lease = "none"]
    <3>1. download' = [download EXCEPT ![d] = row]
      BY <2>1 DEF Blocked
    <3>2. row \in DownloadRow /\ row.failure = "unauthorized"
          /\ row.blocked = batch.version /\ row.refused = batch.secret
      BY <1>4 DEF DownloadRow, Errors, UntilConfig, Ended
    <3>3. batch.version = batch.secret
      BY <1>1, <1>2, <2>1, HandIsSound DEF HandSound, UntilConfig, Judging
    <3> HIDE DEF row
    <3> QED  BY <3>1, <3>2, <3>3
  <2>2. CASE batch.answer \in Retryable /\ Postponed(d, batch.answer)
    <3> DEFINE row == [download[d] EXCEPT !.status = "retry-wait", !.failure = batch.answer,
                        !.blocked = 0, !.lease = "none"]
    <3>1. download' = [download EXCEPT ![d] = row]
      BY <2>2 DEF Postponed
    <3>2. row \in DownloadRow /\ row.failure # "missing" /\ row.blocked = 0
      BY <1>4, <2>2 DEF DownloadRow, Errors, Retryable, Running
    <3> HIDE DEF row
    <3>3. row.blocked > 0 => row.refused = row.blocked
      BY <3>2
    <3> QED  BY <3>1, <3>2, <3>3
  <2>3. CASE batch.answer \in Terminal /\ Failed(d, batch.answer)
    <3> DEFINE row == [download[d] EXCEPT !.status = "failed", !.failure = batch.answer,
                        !.blocked = 0, !.lease = "none"]
    <3>1. download' = [download EXCEPT ![d] = row]
      BY <2>3 DEF Failed
    <3>2. row \in DownloadRow /\ row.failure = batch.answer /\ row.status = "failed" /\ row.blocked = 0
      BY <1>4, <2>3 DEF DownloadRow, Errors, Terminal, Ended
    <3>3. row.failure = "missing" => Explained(d)
      BY <1>1, <1>2, <3>2 DEF DInv, BatchExplained
    <3> HIDE DEF row
    <3>4. row.blocked > 0 => row.refused = row.blocked
      BY <3>2
    <3> QED  BY <3>1, <3>2, <3>3, <3>4
  <2> QED  BY <2>1, <2>2, <2>3 DEF Conclude
<1>6. /\ batch' \in WorkerBatch /\ batch'.sync = batch.sync /\ batch'.conn = batch.conn
      /\ batch'.version = batch.version /\ batch'.secret = batch.secret
      /\ batch'.seen = batch.seen
      /\ batch.sync => /\ batch'.at = "sync" /\ batch'.answer = batch.answer
                       /\ batch'.linked = batch.linked \ {d} /\ batch'.todo = batch.todo
      /\ ~batch.sync => /\ batch'.at = "link" /\ batch'.answer = "none"
                        /\ batch'.todo = batch.todo \ {d} /\ batch'.linked = batch.linked
  <2>1. CASE batch.sync
    <3>1. batch' = [batch EXCEPT !.at = "sync", !.linked = @ \ {d}]
      BY <2>1 DEF Conclude
    <3> QED  BY <1>2, <2>1, <3>1 DEF WorkerBatch, Places
  <2>2. CASE ~batch.sync
    <3>1. batch' = [batch EXCEPT !.at = "link", !.todo = @ \ {d}, !.answer = "none"]
      BY <2>2 DEF Conclude
    <3> QED  BY <1>2, <2>2, <3>1 DEF WorkerBatch, Places
  <2> QED  BY <2>1, <2>2
<1> HIDE DEF d
<1>7. \A e \in Downloads \ {d} : download'[e] = download[e]
  BY <1>5
<1>8. batch'.todo \cup batch'.linked \subseteq (batch.todo \cup batch.linked) \ {d}
      /\ batch'.linked \cap batch'.todo = {}
  BY <1>3, <1>6
<1>9. \A e \in batch'.todo \cup batch'.linked : Held(e)'
  BY <1>3, <1>4, <1>7, <1>8 DEF Held
<1>10. BatchHeld'
  BY <1>6, <1>8, <1>9 DEF BatchHeld, About, Choosing
<1>11. Answering'
  BY <1>1, <1>2, <1>6 DEF DInv, Answering
<1>12. BatchExplained'
  <2>1. batch.answer # "none"
    BY DEF Conclude, UntilConfig, Retryable, Terminal
  <2> QED  BY <1>6, <2>1 DEF BatchExplained
<1>13. HandSound(batch')
  BY <1>1, <1>2, <1>6, HandIsSound DEF HandSound, Choosing
<1> QED  BY <1>1, <1>4, <1>5, <1>6, <1>10, <1>11, <1>12, <1>13, RowAndHand

LEMMA FetchLinkedKeeps == ASSUME DInv, FetchLinked PROVE DInv'
<1>1. batch.at = "link" /\ batch.todo = {} /\ UNCHANGED <<download, conn, server, probing>>
  BY DEF FetchLinked
<1>2. batch \in WorkerBatch /\ batch # Idle
  BY <1>1, BatchTyped DEF DInv, Idle
<1>3. CASE batch.linked = {}
  BY <1>1, <1>3, TurnEnds DEF FetchLinked
<1>4. CASE batch.linked # {}
  <2> DEFINE list == [d \in Downloads |-> IF Listed(d) THEN server[d].state ELSE "unlisted"]
  <2>1. batch.answer = "none"
    BY <1>1, <1>2 DEF DInv, Answering
  <2>2. PICK answer \in {"none"} \cup (Errors \ {"missing"}),
            seen \in [Downloads -> {"unlisted"} \cup RemoteStates] :
          /\ batch' = [batch EXCEPT !.at = "sync", !.sync = TRUE, !.answer = answer, !.seen = seen]
          /\ answer = "none" => seen = list
    <3>1. list \in [Downloads -> {"unlisted"} \cup RemoteStates]
      BY DEF Listed
    <3>2. batch.seen \in [Downloads -> {"unlisted"} \cup RemoteStates]
      BY <1>2 DEF WorkerBatch
    <3>3. "unauthorized" \in Errors \ {"missing"} /\ \A error \in Errors : error # "none"
      BY DEF Errors, Terminal, Retryable, UntilConfig
    <3>4. \/ batch' = [batch EXCEPT !.at = "sync", !.sync = TRUE, !.seen = list]
          \/ \E error \in Errors \ {"missing"} :
                batch' = [batch EXCEPT !.at = "sync", !.sync = TRUE, !.answer = error]
      <4> HIDE DEF DInv
      <4> QED  BY <1>4, <3>3 DEF FetchLinked
    <3> HIDE DEF list
    <3>5. [batch EXCEPT !.at = "sync", !.sync = TRUE, !.seen = list]
            = [batch EXCEPT !.at = "sync", !.sync = TRUE, !.answer = "none", !.seen = list]
      BY <1>2, <2>1 DEF WorkerBatch
    <3>6. \A error \in Errors :
            [batch EXCEPT !.at = "sync", !.sync = TRUE, !.answer = error]
            = [batch EXCEPT !.at = "sync", !.sync = TRUE, !.answer = error, !.seen = batch.seen]
      BY <1>2 DEF WorkerBatch
    <3> QED  BY <3>1, <3>2, <3>3, <3>4, <3>5, <3>6
  <2>3. /\ batch' \in WorkerBatch /\ batch'.at = "sync" /\ batch'.sync /\ batch'.answer = answer
        /\ batch'.todo = batch.todo /\ batch'.linked = batch.linked /\ batch'.conn = batch.conn
        /\ batch'.version = batch.version /\ batch'.secret = batch.secret /\ batch'.seen = seen
    BY <1>2, <2>2 DEF WorkerBatch, Places
  <2>4. BatchHeld' /\ Answering'
    BY <1>1, <1>2, <2>2, <2>3 DEF DInv, BatchHeld, Answering, Held, Choosing, About
  <2>5. \A d \in Downloads : list[d] = "unlisted" => Explained(d)
    <3> SUFFICES ASSUME NEW d \in Downloads, list[d] = "unlisted" PROVE Explained(d)
      OBVIOUS
    <3>1. ~Listed(d)
      BY DEF Listed, RemoteStates
    <3>2. server[d] \in RemoteRow
      BY DEF DInv, DownloadsTyped
    <3> QED  BY <3>1, <3>2 DEF Listed, RemoteRow, DInv, RowsExplained, Explained
  <2> HIDE DEF list
  <2>6. BatchExplained'
    <3>1. batch.linked \subseteq Downloads
      BY <1>2 DEF WorkerBatch
    <3>2. \A d \in Downloads : Explained(d) => Explained(d)'
      BY <1>1 DEF Explained
    <3> QED  BY <2>2, <2>3, <2>5, <3>1, <3>2 DEF BatchExplained
  <2>7. HandSound(batch')
    BY <1>1, <1>2, <2>3, HandIsSound DEF HandSound, Choosing
  <2> QED  BY <1>1, <2>3, <2>4, <2>6, <2>7, InHandOnly
<1> QED  BY <1>3, <1>4

LEMMA SyncOneKeeps == ASSUME DInv, SyncOne PROVE DInv'
<1>1. batch.at = "sync" /\ UNCHANGED <<conn, server, probing>>
  BY DEF SyncOne
<1>2. batch \in WorkerBatch /\ batch # Idle
  BY <1>1, BatchTyped DEF DInv, Idle
<1>3. CASE batch.linked = {}
  BY <1>1, <1>3, TurnEnds DEF SyncOne
<1>4. CASE batch.linked # {}
  <2> DEFINE d == Oldest(batch.linked)
  <2>1. /\ d \in batch.linked /\ Held(d) /\ batch.sync
        /\ batch.linked \cap batch.todo = {}
        /\ \A e \in batch.todo \cup batch.linked : Held(e)
        /\ batch.answer # "missing"
    BY <1>1, <1>2, <1>4, OldestDownload DEF DInv, BatchHeld, Answering, Choosing, WorkerBatch
  <2>2. /\ d \in Downloads /\ d \in Nat /\ download[d] \in DownloadRow
        /\ batch.todo \subseteq Downloads /\ batch.linked \subseteq Downloads
        /\ batch.seen[d] \in {"unlisted"} \cup RemoteStates
    BY <1>2, <2>1, DownloadsAssumption, HeldTyped DEF WorkerBatch
  <2>3. CASE batch.answer # "none"
    <3>1. batch' = [batch EXCEPT !.at = "decide", !.for = d] /\ UNCHANGED download
      BY <1>4, <2>3 DEF SyncOne
    <3>2. /\ batch' \in WorkerBatch /\ batch'.at = "decide" /\ batch'.for = d
          /\ batch'.todo = batch.todo /\ batch'.linked = batch.linked /\ batch'.conn = batch.conn
          /\ batch'.version = batch.version /\ batch'.secret = batch.secret
          /\ batch'.sync = batch.sync /\ batch'.answer = batch.answer
      BY <1>2, <2>2, <3>1 DEF WorkerBatch, Places
    <3> HIDE DEF d
    <3>3. BatchHeld' /\ Answering' /\ BatchExplained'
      BY <1>1, <1>2, <2>1, <3>1, <3>2
      DEF DInv, BatchHeld, Answering, Held, Choosing, About, BatchExplained
    <3>4. HandSound(batch')
      BY <1>1, <1>2, <3>2, HandIsSound DEF HandSound, Choosing
    <3> QED  BY <1>1, <3>1, <3>2, <3>3, <3>4, InHandOnly
  <2>4. CASE batch.answer = "none"
    <3>1. batch' = [batch EXCEPT !.linked = @ \ {d}]
      BY <1>4, <2>4 DEF SyncOne
    <3>2. /\ batch' \in WorkerBatch /\ batch'.at = "sync" /\ batch'.sync
          /\ batch'.todo = batch.todo /\ batch'.linked = batch.linked \ {d}
          /\ batch'.conn = batch.conn /\ batch'.seen = batch.seen
          /\ batch'.version = batch.version /\ batch'.secret = batch.secret
          /\ batch'.answer = batch.answer
      BY <1>1, <1>2, <2>1, <3>1 DEF WorkerBatch
    <3>3. PICK row \in DownloadRow :
            /\ download' = [download EXCEPT ![d] = row]
            /\ row.blocked = 0
            /\ row.failure = "missing" => row.status = "failed" /\ Explained(d)
      <4>1. CASE batch.seen[d] = "unlisted"
        <5> DEFINE row == [download[d] EXCEPT !.status = "failed", !.failure = "missing",
                            !.blocked = 0, !.lease = "none"]
        <5>1. download' = [download EXCEPT ![d] = row]
          BY <1>4, <2>4, <4>1 DEF SyncOne, Failed
        <5>2. row \in DownloadRow /\ row.blocked = 0 /\ row.status = "failed"
          BY <2>2 DEF DownloadRow, Errors, Terminal, Ended
        <5>3. Explained(d)
          BY <1>1, <1>2, <2>1, <2>4, <4>1 DEF DInv, BatchExplained
        <5> HIDE DEF row
        <5> QED  BY <5>1, <5>2, <5>3
      <4>2. CASE batch.seen[d] # "unlisted"
        <5> DEFINE seen == batch.seen[d]
                   row == [download[d] EXCEPT !.remote = seen, !.blocked = 0,
                            !.status = IF seen \in Ended THEN seen ELSE "monitoring",
                            !.failure = IF seen = "failed" THEN "invalid" ELSE "none",
                            !.lease = IF seen \in Ended THEN "none" ELSE @]
        <5>1. Observed(d, seen)
          BY <1>4, <2>4, <4>2 DEF SyncOne
        <5>2. download' = [download EXCEPT ![d] = row]
          BY <5>1 DEF Observed
        <5>3. seen \in RemoteStates
          BY <2>2, <4>2
        <5> HIDE DEF seen
        <5>4. row \in DownloadRow /\ row.blocked = 0 /\ row.failure # "missing"
          <6>1. /\ (IF seen \in Ended THEN seen ELSE "monitoring") \in Running \cup Ended
                /\ (IF seen = "failed" THEN "invalid" ELSE "none") \in {"none", "not-configured"} \cup Errors
                /\ (IF seen = "failed" THEN "invalid" ELSE "none") # "missing"
                /\ (IF seen \in Ended THEN "none" ELSE download[d].lease) \in {"none", "held", "orphan"}
            BY <2>2 DEF Running, Errors, Terminal, DownloadRow
          <6> QED  BY <2>2, <5>3, <6>1 DEF DownloadRow
        <5> HIDE DEF row
        <5> QED  BY <5>2, <5>4
      <4> QED  BY <4>1, <4>2
    <3> HIDE DEF d
    <3>4. \A e \in Downloads \ {d} : download'[e] = download[e]
      BY <3>3
    <3>5. batch'.todo \cup batch'.linked \subseteq (batch.todo \cup batch.linked) \ {d}
          /\ batch'.linked \cap batch'.todo = {}
      BY <2>1, <3>2
    <3>6. \A e \in batch'.todo \cup batch'.linked : Held(e)'
      BY <2>1, <2>2, <3>4, <3>5 DEF Held
    <3>7. BatchHeld' /\ Answering'
      BY <2>1, <2>4, <3>2, <3>5, <3>6 DEF BatchHeld, About, Choosing, Answering
    <3>8. BatchExplained'
      <4>1. \A e \in batch.linked : batch.seen[e] = "unlisted" => Explained(e)
        BY <1>1, <1>2, <2>4 DEF DInv, BatchExplained
      <4>2. \A e \in batch.linked : Explained(e) => Explained(e)'
        BY <1>1 DEF Explained
      <4> QED  BY <3>2, <4>1, <4>2 DEF BatchExplained
    <3>9. HandSound(batch')
      BY <1>1, <1>2, <3>2, HandIsSound DEF HandSound, Choosing
    <3>10. row.blocked > 0 => row.refused = row.blocked
      BY <3>3
    <3> QED  BY <1>1, <2>2, <3>2, <3>3, <3>7, <3>8, <3>9, <3>10, RowAndHand
  <2> QED  BY <2>3, <2>4
<1> QED  BY <1>3, <1>4

LEMMA RefuseOneKeeps == ASSUME DInv, RefuseOne PROVE DInv'
<1>1. batch.at = "refuse" /\ UNCHANGED <<conn, server, probing>>
  BY DEF RefuseOne
<1>2. batch \in WorkerBatch /\ batch # Idle
  BY <1>1, BatchTyped DEF DInv, Idle
<1>3. CASE batch.todo = {}
  BY <1>1, <1>3, TurnEnds DEF RefuseOne
<1>4. CASE batch.todo # {}
  <2> DEFINE d == Oldest(batch.todo)
             row == [download[d] EXCEPT !.status = "failed", !.failure = "not-configured",
                            !.blocked = 0, !.lease = "none"]
  <2>1. d \in batch.todo /\ \A e \in batch.todo : Held(e)
    BY <1>1, <1>2, <1>4, OldestDownload DEF DInv, BatchHeld, WorkerBatch
  <2>2. /\ d \in Downloads /\ download[d] \in DownloadRow /\ batch.todo \subseteq Downloads
    BY <1>2, <2>1, HeldTyped DEF WorkerBatch
  <2>3. download' = [download EXCEPT ![d] = row] /\ batch' = [batch EXCEPT !.todo = @ \ {d}]
    BY <1>4 DEF RefuseOne, Failed
  <2>4. row \in DownloadRow /\ row.failure = "not-configured" /\ row.blocked = 0
    BY <2>2 DEF DownloadRow, Ended
  <2>5. /\ batch' \in WorkerBatch /\ batch'.at = "refuse" /\ batch'.todo = batch.todo \ {d}
        /\ batch'.answer = batch.answer /\ batch'.sync = batch.sync
    BY <1>1, <1>2, <2>3 DEF WorkerBatch
  <2> HIDE DEF d, row
  <2>6. \A e \in batch'.todo : Held(e)'
    BY <2>1, <2>2, <2>3, <2>5 DEF Held
  <2>7. BatchHeld' /\ Answering' /\ BatchExplained' /\ HandSound(batch')
    BY <1>1, <1>2, <2>5, <2>6
    DEF DInv, BatchHeld, Answering, BatchExplained, HandSound, About, Choosing
  <2>8. (row.blocked > 0 => row.refused = row.blocked) /\ row.failure # "missing"
    BY <2>4
  <2> QED  BY <1>1, <2>2, <2>3, <2>4, <2>5, <2>7, <2>8, RowAndHand
<1> QED  BY <1>3, <1>4

-----------------------------------------------------------------------------
(* Administrators, downloaders, users and restarts.                            *)

LEMMA SavedIs ==
    ASSUME NEW version \in Nat, NEW enabled \in BOOLEAN
    PROVE  LET row == Saved(version, enabled) IN
           /\ row \in SavedRow /\ row.state = "saved" /\ row.version = version
           /\ row.judged = [url |-> version, secret |-> version]
BY DEF Saved, SavedRow, Verdicts

\* The row of one connection is replaced: it stays, or goes for good, or its version does not sink.
LEMMA ConnectionReplaced ==
    ASSUME DInv, UNCHANGED <<download, server, batch>>, ProbeFollows,
           NEW c \in Connections, NEW row \in {Gone} \cup SavedRow,
           conn' = [conn EXCEPT ![c] = row],
           row.state = "saved" =>
               /\ row.judged = [url |-> row.version, secret |-> row.version]
               /\ Exists(c) => conn[c].version <= row.version
               /\ conn[c].state # "deleted"
    PROVE  DInv'
<1>1. /\ conn' \in [Connections -> {NoConnection, Gone} \cup SavedRow]
      /\ conn'[c] = row /\ \A a \in Connections \ {c} : conn'[a] = conn[a]
  BY DEF DInv, DownloadsTyped
<1>2. row.state # "absent"
  BY DEF Gone, SavedRow
<1>3. conn[c].state \in {"absent", "saved", "deleted"}
  BY DEF DInv, DownloadsTyped, NoConnection, Gone, SavedRow
<1>4. \A a \in Connections : Exists(a) => conn[a].version \in Nat
  BY SavedTyped DEF DInv, SavedRow
<1>5. \A a \in Connections : conn[a].state # "absent" =>
               /\ conn'[a].state # "absent"
               /\ Exists(a)' => Exists(a) /\ conn[a].version <= conn'[a].version
  <2> SUFFICES ASSUME NEW a \in Connections, conn[a].state # "absent"
      PROVE  /\ conn'[a].state # "absent"
             /\ Exists(a)' => Exists(a) /\ conn[a].version <= conn'[a].version
    OBVIOUS
  <2>1. CASE a = c
    BY <1>1, <1>2, <1>3, <2>1 DEF Exists
  <2>2. CASE a # c
    <3>1. conn'[a] = conn[a]
      BY <1>1, <2>2
    <3> QED  BY <1>4, <3>1 DEF Exists
  <2> QED  BY <2>1, <2>2
<1>6. \A a \in Connections : Exists(a)' =>
               conn'[a].judged = [url |-> conn'[a].version, secret |-> conn'[a].version]
  BY <1>1 DEF DInv, VerdictFitsConfig, Exists
<1>7. BatchHeld' /\ Answering' /\ BatchExplained'
  BY DEF DInv, BatchHeld, Answering, BatchExplained, Held, Explained
<1>8. batch' \in {Idle} \cup WorkerBatch /\ (batch' # Idle => HandSound(batch'))
  BY HandIsSound DEF DInv, DownloadsTyped
<1> QED  BY <1>1, <1>5, <1>6, <1>7, <1>8, ConfigsAdvance

LEMMA ProbeTypedAnew ==
    ASSUME NEW c \in Connections, NEW version \in Nat
    PROVE  Probe(c, version) \in ProbeRow /\ Probe(c, version).at = "read"
           /\ Probe(c, version).conn = c /\ Probe(c, version).url = version
BY DEF Probe, ProbeRow

LEMMA CreateConnectionKeeps ==
    ASSUME DInv, NEW c \in Connections, CreateConnection(c) PROVE DInv'
<1>1. /\ conn' = [conn EXCEPT ![c] = Saved(1, TRUE)] /\ probing' = Probe(c, 1)
      /\ conn[c].state = "absent" /\ UNCHANGED <<download, server, batch>>
  BY DEF CreateConnection
<1>2. LET row == Saved(1, TRUE) IN
           /\ row \in SavedRow /\ row.state = "saved" /\ row.version = 1
           /\ row.judged = [url |-> 1, secret |-> 1]
  BY SavedIs
<1>3. conn'[c] = Saved(1, TRUE)
  BY <1>1 DEF DInv, DownloadsTyped
<1>4. ProbeFollows
  BY <1>1, <1>2, <1>3, ProbeTypedAnew DEF ProbeFollows
<1> QED  BY <1>1, <1>2, <1>4, ConnectionReplaced DEF Exists

LEMMA ReplaceConnectionKeeps ==
    ASSUME DInv, NEW c \in Connections, NEW enabled \in BOOLEAN, ReplaceConnection(c, enabled)
    PROVE  DInv'
<1> DEFINE version == conn[c].version + 1
           row == Saved(version, enabled)
<1>1. /\ conn' = [conn EXCEPT ![c] = row] /\ Exists(c)
      /\ probing' = IF probing = NoProbe THEN Probe(c, version) ELSE probing
      /\ UNCHANGED <<download, server, batch>>
  BY DEF ReplaceConnection
<1>2. conn[c].version \in Nat
  BY <1>1, SavedTyped DEF DInv, SavedRow
<1>3. version \in Nat /\ conn[c].version <= version
  BY <1>2
<1> HIDE DEF version
<1>4. /\ row \in SavedRow /\ row.state = "saved" /\ row.version = version
      /\ row.judged = [url |-> version, secret |-> version]
  BY <1>3, SavedIs
<1> HIDE DEF row
<1>5. conn'[c] = row
  BY <1>1 DEF DInv, DownloadsTyped
<1>6. ProbeFollows
  BY <1>1, <1>3, <1>4, <1>5, ProbeTypedAnew DEF ProbeFollows
<1> QED  BY <1>1, <1>3, <1>4, <1>6, ConnectionReplaced DEF Exists

LEMMA DeleteConnectionKeeps ==
    ASSUME DInv, NEW c \in Connections, DeleteConnection(c) PROVE DInv'
<1>1. /\ conn' = [conn EXCEPT ![c] = Gone] /\ UNCHANGED <<download, server, batch, probing>>
  BY DEF DeleteConnection, Gone
<1>2. ProbeFollows /\ Gone.state # "saved"
  BY <1>1 DEF ProbeFollows, Gone
<1> QED  BY <1>1, <1>2, ConnectionReplaced

\* A step that only ends the probe, or tells what it was answered.
LEMMA ProbeSavedKeeps ==
    ASSUME DInv, NEW verdict \in Verdicts, ProbeSaved(verdict) PROVE DInv'
<1>1. probing.at = "read" /\ UNCHANGED <<download, conn, server, batch>>
  BY DEF ProbeSaved
<1>2. probing \in ProbeRow
  BY <1>1 DEF DInv, DownloadsTyped, NoProbe
<1>3. probing' \in {NoProbe} \cup ProbeRow /\ probing'.at # "read"
      /\ (probing'.at = "answered" =>
            /\ ReadInOrder(probing'.conn, probing'.url, probing'.secret)
            /\ probing'.verdict \in Verdicts)
  <2>1. CASE Exists(probing.conn)
    <3>1. conn[probing.conn].version \in Nat
      BY <1>2, <2>1, SavedTyped DEF DInv, SavedRow, ProbeRow
    <3>2. probing' = [probing EXCEPT !.at = "answered", !.secret = conn[probing.conn].version,
                                     !.verdict = verdict]
      BY <2>1 DEF ProbeSaved
    <3>3. /\ probing' \in ProbeRow /\ probing'.at = "answered" /\ probing'.conn = probing.conn
          /\ probing'.url = probing.url /\ probing'.secret = conn[probing.conn].version
          /\ probing'.verdict = verdict
      BY <1>2, <3>1, <3>2 DEF ProbeRow
    <3>4. ReadBefore(probing.conn, probing.url)
      BY <1>1 DEF DInv, VerdictsInOrder
    <3> QED  BY <3>3, <3>4 DEF ReadBefore
  <2>2. CASE ~Exists(probing.conn)
    BY <2>2 DEF ProbeSaved, NoProbe
  <2> QED  BY <2>1, <2>2
<1>4. DownloadsTyped'
  BY <1>1, <1>3 DEF DInv, DownloadsTyped
<1>5. VerdictsInOrder'
  BY <1>1, <1>3 DEF DInv, VerdictsInOrder, ReadBefore, ReadInOrder, Exists
<1> QED  BY <1>1, <1>4, <1>5
  DEF DInv, BatchHeld, Held, Answering, RowsExplained, Reached, Explained, BatchExplained,
      VerdictFitsConfig, Exists

LEMMA CommitProbeKeeps == ASSUME DInv, CommitProbe PROVE DInv'
<1>1. /\ probing.at = "answered" /\ probing' = NoProbe /\ UNCHANGED <<download, server, batch>>
  BY DEF CommitProbe
<1>2. /\ probing \in ProbeRow /\ ReadInOrder(probing.conn, probing.url, probing.secret)
      /\ probing.verdict \in Verdicts
  BY <1>1 DEF DInv, DownloadsTyped, VerdictsInOrder, NoProbe
<1>3. probing.conn \in Connections /\ probing.url \in Nat /\ probing.secret \in Nat
  BY <1>2 DEF ProbeRow
<1>4. ProbeFollows
  BY <1>1 DEF ProbeFollows
<1>5. BatchHeld' /\ Answering' /\ BatchExplained'
  BY <1>1 DEF DInv, BatchHeld, Answering, BatchExplained, Held, Explained
<1>6. batch' \in {Idle} \cup WorkerBatch /\ (batch' # Idle => HandSound(batch'))
  BY <1>1, HandIsSound DEF DInv, DownloadsTyped
<1>7. \A a \in Connections : Exists(a) => conn[a].version \in Nat
  BY SavedTyped DEF DInv, SavedRow
<1>8. CASE Current(probing.conn, probing.url)
  <2>1. conn' = Judged(probing.conn, probing.url, probing.secret, probing.verdict)
    BY <1>8 DEF CommitProbe
  <2>2. /\ conn' \in [Connections -> {NoConnection, Gone} \cup SavedRow]
        /\ \A a \in Connections : conn'[a].state = conn[a].state
        /\ \A a \in Connections : Exists(a) =>
              /\ conn'[a].version = conn[a].version
              /\ conn'[a].judged = [url |-> conn[a].version, secret |-> conn[a].version]
    <3>1. DownloadsTyped /\ VerdictFitsConfig
      BY DEF DInv
    <3> HIDE DEF DInv
    <3> QED  BY <1>2, <1>3, <1>8, <2>1, <3>1, JudgedFits
  <2>3. \A a \in Connections : Exists(a)' => Exists(a)
    BY <2>2 DEF Exists
  <2>4. ASSUME NEW a \in Connections, Exists(a)' PROVE conn[a].version <= conn'[a].version
    <3>1. conn'[a].version = conn[a].version /\ conn[a].version \in Nat
      BY <1>7, <2>2, <2>3, <2>4
    <3> QED  BY <3>1
  <2>5. \A a \in Connections :
          /\ conn[a].state # "absent" =>
               /\ conn'[a].state # "absent"
               /\ Exists(a)' => Exists(a) /\ conn[a].version <= conn'[a].version
          /\ Exists(a)' => conn'[a].judged = [url |-> conn'[a].version, secret |-> conn'[a].version]
    BY <2>2, <2>3, <2>4
  <2> QED  BY <1>1, <1>4, <1>5, <1>6, <2>2, <2>5, ConfigsAdvance
<1>9. CASE ~Current(probing.conn, probing.url)
  <2>1. UNCHANGED <<download, conn, server, batch>> /\ probing' = NoProbe
    BY <1>1, <1>9 DEF CommitProbe
  <2>2. DownloadsTyped' /\ VerdictsInOrder'
    BY <2>1 DEF DInv, DownloadsTyped, VerdictsInOrder, ReadBefore, ReadInOrder, Exists, NoProbe
  <2> QED  BY <1>5, <2>1, <2>2
    DEF DInv, RowsExplained, Reached, Explained, VerdictFitsConfig, Exists
<1> QED  BY <1>8, <1>9

\* A step of the downloaders or of their users.
LEMMA ServerAdvancesKeeps ==
    ASSUME DInv, NEW d \in Downloads, ServerAdvances(d) PROVE DInv'
<1>1. UNCHANGED <<download, conn, batch, probing>>
  BY DEF ServerAdvances
<1>2. PICK state \in RemoteStates :
        /\ server' = [server EXCEPT ![d].state = state]
        /\ server[d].state # "absent"
  BY DEF ServerAdvances, RemoteStates
<1>3. server[d] \in RemoteRow
  BY DEF DInv, DownloadsTyped
<1>4. /\ server' \in [Downloads -> RemoteRow]
      /\ server'[d].state = state
      /\ \A e \in Downloads : /\ server'[e].adds = server[e].adds
                              /\ server'[e].hidden = server[e].hidden
                              /\ server'[e].removed = server[e].removed
                              /\ e # d => server'[e] = server[e]
  BY <1>2, <1>3 DEF DInv, DownloadsTyped, RemoteRow
<1>5. DownloadsTyped'
  BY <1>1, <1>4 DEF DInv, DownloadsTyped
<1>6. \A e \in Downloads : Explained(e) => Explained(e)'
  BY <1>4 DEF Explained
<1>7. RowsExplained'
  BY <1>1, <1>4, <1>6 DEF DInv, RowsExplained, Reached, RemoteStates
<1>8. BatchExplained'
  <2>1. CASE batch = Idle
    BY <1>1, <2>1 DEF BatchExplained
  <2>2. CASE batch # Idle
    <3>1. batch.linked \subseteq Downloads /\ (batch.at \in About => batch.for \in Downloads)
      BY <2>2, BatchTyped DEF DInv, BatchHeld, WorkerBatch
    <3> QED  BY <1>1, <1>4, <1>6, <2>2, <3>1 DEF DInv, BatchExplained, About
  <2> QED  BY <2>1, <2>2
<1> QED  BY <1>1, <1>5, <1>7, <1>8
  DEF DInv, BatchHeld, Held, Answering, VerdictsInOrder, ReadBefore, ReadInOrder,
      VerdictFitsConfig, Exists, Reached

LEMMA UserRemovesKeeps ==
    ASSUME DInv, NEW d \in Downloads, UserRemoves(d) PROVE DInv'
<1>1. /\ server' = [server EXCEPT ![d].state = "absent", ![d].adds = 0, ![d].removed = TRUE]
      /\ UNCHANGED <<download, conn, batch, probing>>
  BY DEF UserRemoves
<1>2. server[d] \in RemoteRow
  BY DEF DInv, DownloadsTyped
<1>3. /\ server' \in [Downloads -> RemoteRow]
      /\ server'[d].state = "absent" /\ server'[d].adds = 0
      /\ \A e \in Downloads : e # d => server'[e] = server[e]
  BY <1>1, <1>2 DEF DInv, DownloadsTyped, RemoteRow
<1>4. DownloadsTyped'
  BY <1>1, <1>3 DEF DInv, DownloadsTyped
<1>5. \A e \in Downloads : Explained(e) => Explained(e)'
  BY <1>3 DEF Explained
<1>6. RowsExplained'
  BY <1>1, <1>3, <1>5 DEF DInv, RowsExplained, Reached
<1>7. BatchExplained'
  <2>1. CASE batch = Idle
    BY <1>1, <2>1 DEF BatchExplained
  <2>2. CASE batch # Idle
    <3>1. batch.linked \subseteq Downloads /\ (batch.at \in About => batch.for \in Downloads)
      BY <2>2, BatchTyped DEF DInv, BatchHeld, WorkerBatch
    <3> QED  BY <1>1, <1>3, <1>5, <2>2, <3>1 DEF DInv, BatchExplained, About
  <2> QED  BY <2>1, <2>2
<1> QED  BY <1>1, <1>4, <1>6, <1>7
  DEF DInv, BatchHeld, Held, Answering, VerdictsInOrder, ReadBefore, ReadInOrder,
      VerdictFitsConfig, Exists, Reached

\* A new row, made by a user or by an event.
LEMMA AcceptedKeeps ==
    ASSUME DInv, NEW d \in Downloads, NEW c \in Connections, Accepted(d, c),
           UNCHANGED <<conn, server, batch, probing>>
    PROVE  DInv'
<1>1. download' = [download EXCEPT ![d] = Queued(c)] /\ ~Reached(d)
  BY DEF Accepted
<1>2. Queued(c) \in DownloadRow /\ Queued(c).blocked = 0 /\ Queued(c).failure = "none"
  BY DEF Queued, DownloadRow, Running
<1>3. Queued(c).blocked > 0 => Queued(c).refused = Queued(c).blocked
  BY <1>2
<1>4. BatchHeld' /\ Answering' /\ BatchExplained'
  <2>1. \A e \in Downloads : Held(e) => Held(e)'
    BY <1>1 DEF Held, Reached, DInv, DownloadsTyped
  <2>2. CASE batch = Idle
    BY <2>2 DEF BatchHeld, Answering, BatchExplained
  <2>3. CASE batch # Idle
    <3>1. batch.linked \subseteq Downloads /\ batch.todo \subseteq Downloads
      BY <2>3, BatchTyped DEF DInv, WorkerBatch
    <3> QED  BY <2>1, <2>3, <3>1
      DEF DInv, BatchHeld, Answering, BatchExplained, Explained
  <2> QED  BY <2>2, <2>3
<1>5. batch' \in {Idle} \cup WorkerBatch /\ (batch' # Idle => HandSound(batch'))
  BY HandIsSound DEF DInv, DownloadsTyped
<1> QED  BY <1>1, <1>2, <1>3, <1>4, <1>5, RowAndHand

LEMMA RestartKeepsRows == ASSUME DInv, RestartAll PROVE DInv'
<1>1. batch' = Idle /\ probing' = NoProbe /\ UNCHANGED <<conn, server>>
  BY DEF RestartAll
<1> DEFINE rows == [d \in Downloads |->
                       IF Reached(d) /\ download[d].lease = "held"
                       THEN [download[d] EXCEPT !.lease = "orphan"] ELSE download[d]]
<1>2. download' = Requeued(rows)
  BY DEF RestartAll
<1>3. \A d \in Downloads :
        /\ Reached(d) => /\ rows[d] \in DownloadRow
                         /\ rows[d].status = download[d].status
                         /\ rows[d].failure = download[d].failure
                         /\ rows[d].blocked = download[d].blocked
                         /\ rows[d].refused = download[d].refused
        /\ ~Reached(d) => rows[d] = NoDownload
  <2> SUFFICES ASSUME NEW d \in Downloads
      PROVE  /\ Reached(d) => /\ rows[d] \in DownloadRow
                              /\ rows[d].status = download[d].status
                              /\ rows[d].failure = download[d].failure
                              /\ rows[d].blocked = download[d].blocked
                              /\ rows[d].refused = download[d].refused
             /\ ~Reached(d) => rows[d] = NoDownload
    OBVIOUS
  <2>1. CASE Reached(d)
    <3>1. download[d] \in DownloadRow
      BY <2>1, RowTyped DEF DInv
    <3> QED  BY <2>1, <3>1 DEF DownloadRow
  <2>2. CASE ~Reached(d)
    BY <2>2 DEF Reached, DInv, DownloadsTyped, DownloadRow, Running, Ended
  <2> QED  BY <2>1, <2>2
<1> HIDE DEF rows
<1>4. \A d \in Downloads :
        /\ download'[d] \in {NoDownload} \cup DownloadRow
        /\ ~Reached(d) => download'[d] = NoDownload
        /\ Reached(d) =>
              \/ /\ download'[d].failure = "none" /\ download'[d].blocked = 0
              \/ /\ download'[d].status = download[d].status
                 /\ download'[d].failure = download[d].failure
                 /\ download'[d].blocked = download[d].blocked
                 /\ download'[d].refused = download[d].refused
  <2> SUFFICES ASSUME NEW d \in Downloads
      PROVE /\ download'[d] \in {NoDownload} \cup DownloadRow
            /\ ~Reached(d) => download'[d] = NoDownload
            /\ Reached(d) =>
                  \/ /\ download'[d].failure = "none" /\ download'[d].blocked = 0
                  \/ /\ download'[d].status = download[d].status
                     /\ download'[d].failure = download[d].failure
                     /\ download'[d].blocked = download[d].blocked
                     /\ download'[d].refused = download[d].refused
    OBVIOUS
  <2>1. \/ /\ rows[d].status = "failed"
           /\ download'[d] = [rows[d] EXCEPT !.status = "queued", !.failure = "none", !.blocked = 0]
        \/ download'[d] = rows[d]
    BY <1>2 DEF Requeued
  <2>2. CASE Reached(d)
    <3>1. \A row \in DownloadRow :
            LET new == [row EXCEPT !.status = "queued", !.failure = "none", !.blocked = 0]
            IN  new \in DownloadRow /\ new.failure = "none" /\ new.blocked = 0
      BY DEF DownloadRow, Running
    <3>2. rows[d] \in DownloadRow
      BY <1>3, <2>2
    <3>3. CASE download'[d] = rows[d]
      BY <1>3, <2>2, <3>2, <3>3
    <3>4. CASE download'[d] = [rows[d] EXCEPT !.status = "queued", !.failure = "none", !.blocked = 0]
      BY <2>2, <3>1, <3>2, <3>4
    <3> QED  BY <2>1, <3>3, <3>4
  <2>3. CASE ~Reached(d)
    BY <1>3, <2>1, <2>3 DEF NoDownload
  <2> QED  BY <2>2, <2>3
<1>5. download' = [d \in Downloads |-> download'[d]]
  BY <1>2 DEF Requeued
<1>6. DownloadsTyped'
  <2>1. download' \in [Downloads -> {NoDownload} \cup DownloadRow]
    BY <1>4, <1>5
  <2> QED  BY <1>1, <2>1 DEF DInv, DownloadsTyped
<1>7. BatchHeld' /\ Answering' /\ BatchExplained' /\ VerdictsInOrder'
  BY <1>1 DEF BatchHeld, Answering, BatchExplained, VerdictsInOrder, NoProbe
<1>8. RowsExplained'
  BY <1>1, <1>4 DEF DInv, RowsExplained, Explained, Reached, NoDownload
<1>9. VerdictFitsConfig'
  <2>1. \A d \in Downloads : Reached(d)' /\ download'[d].blocked > 0 =>
            download'[d].refused = download'[d].blocked
    <3> SUFFICES ASSUME NEW d \in Downloads, Reached(d)', download'[d].blocked > 0
        PROVE  download'[d].refused = download'[d].blocked
      OBVIOUS
    <3>1. Reached(d)
      BY <1>4 DEF Reached, NoDownload
    <3>2. download'[d].blocked # 0
      OBVIOUS
    <3>3. download'[d].blocked = download[d].blocked /\ download'[d].refused = download[d].refused
      BY <1>4, <3>1, <3>2
    <3> QED  BY <3>1, <3>3 DEF DInv, VerdictFitsConfig
  <2> QED  BY <1>1, <2>1 DEF DInv, VerdictFitsConfig, Exists
<1> QED  BY <1>6, <1>7, <1>8, <1>9 DEF DInv

LEMMA OtherwiseKeeps ==
    ASSUME DInv, UNCHANGED <<download, conn, server, batch, probing>> PROVE DInv'
BY DEF DInv, DownloadsTyped, BatchHeld, Held, Answering, VerdictsInOrder, ReadBefore, ReadInOrder,
       RowsExplained, BatchExplained, Explained, VerdictFitsConfig, Exists, Reached

LEMMA WorkerKeeps == ASSUME DInv, Worker PROVE DInv'
BY ClaimBatchKeeps, ReadConfigKeeps, RefuseOneKeeps, ReadSecretKeeps, LookupKeeps, AddRemoteKeeps,
   CommitRemoteRefKeeps, JudgeConnectionKeeps, ConcludeKeeps, FetchLinkedKeeps, SyncOneKeeps
   DEF Worker

LEMMA DownloadSideKeeps == ASSUME DInv, DownloadSide PROVE DInv'
<1>1. CASE Worker
  BY <1>1, WorkerKeeps
<1>2. CASE Downloaders
  BY <1>2, ServerAdvancesKeeps, UserRemovesKeeps DEF Downloaders
<1>3. CASE CommitProbe
  BY <1>3, CommitProbeKeeps
<1>4. ASSUME NEW d \in Downloads, NEW c \in Connections, AcceptDownload(d, c) PROVE DInv'
  BY <1>4, AcceptedKeeps DEF AcceptDownload
<1>5. ASSUME NEW c \in Connections, CreateConnection(c) PROVE DInv'
  BY <1>5, CreateConnectionKeeps
<1>6. ASSUME NEW c \in Connections, NEW enabled \in BOOLEAN, ReplaceConnection(c, enabled) PROVE DInv'
  BY <1>6, ReplaceConnectionKeeps
<1>7. ASSUME NEW verdict \in Verdicts, ProbeSaved(verdict) PROVE DInv'
  BY <1>7, ProbeSavedKeeps
<1>8. ASSUME NEW c \in Connections, DeleteConnection(c) PROVE DInv'
  BY <1>8, DeleteConnectionKeeps
<1> QED  BY <1>1, <1>2, <1>3, <1>4, <1>5, <1>6, <1>7, <1>8 DEF DownloadSide

LEMMA SourcesKeep == ASSUME DInv, Sources PROVE DInv'
<1>1. UNCHANGED <<download, conn, server, batch, probing>>
  BY DEF Sources, CreateSource, ReplaceSource, DeleteSource, RotateSecret, FeedChanges, CheckCall,
         AcceptCall, Command, downloadVars
<1> QED  BY <1>1, OtherwiseKeeps

\* A row that was accepted is never forgotten.
RowsStay == \A d \in Downloads : Reached(d) => Reached(d)'

LEMMA WorkerForgetsNone == ASSUME DInv, Worker PROVE RowsStay
<1> USE DEF RowsStay, Reached
<1>0. download \in [Downloads -> {NoDownload} \cup DownloadRow]
  BY DEF DInv, DownloadsTyped
<1>1. CASE ClaimBatch
  <2>1. PICK ripe : Claimed(Batch(ripe))
    BY <1>1 DEF ClaimBatch
  <2>2. ASSUME NEW d \in Downloads, Reached(d) PROVE Reached(d)'
    <3>1. download[d] \in DownloadRow
      BY <1>0, <2>2 DEF NoDownload
    <3> DEFINE status == IF download[d].linked THEN "monitoring" ELSE "submitting"
    <3>2. \/ download'[d] = download[d]
          \/ download'[d] = [download[d] EXCEPT !.lease = "held", !.status = status]
      BY <2>1 DEF Claimed
    <3>3. status # "free"
      OBVIOUS
    <3> HIDE DEF status
    <3> QED  BY <2>2, <3>1, <3>2, <3>3 DEF DownloadRow
  <2> QED  BY <2>2
<1>2. ASSUME NEW d, NEW error, Failed(d, error) PROVE RowsStay
  BY <1>0, <1>2 DEF Failed
<1>3. ASSUME NEW d, NEW error, Postponed(d, error) PROVE RowsStay
  BY <1>0, <1>3 DEF Postponed
<1>4. ASSUME NEW d, NEW url, NEW secret, Blocked(d, url, secret) PROVE RowsStay
  BY <1>0, <1>4 DEF Blocked
<1>5. ASSUME NEW d, NEW seen, Observed(d, seen) PROVE RowsStay
  BY <1>0, <1>5 DEF Observed, Ended
<1>6. ASSUME NEW d, Linked(d) PROVE RowsStay
  BY <1>0, <1>6 DEF Linked
<1>7. CASE RefuseOne
  BY <1>2, <1>7 DEF RefuseOne
<1>8. CASE CommitRemoteRef
  BY <1>6, <1>8 DEF CommitRemoteRef
<1>9. CASE Conclude
  BY <1>2, <1>3, <1>4, <1>9 DEF Conclude
<1>10. CASE SyncOne
  BY <1>2, <1>5, <1>10 DEF SyncOne
<1>11. CASE ReadConfig \/ ReadSecret \/ Lookup \/ AddRemote \/ JudgeConnection \/ FetchLinked
  <2>1. UNCHANGED download
    BY <1>11 DEF ReadConfig, ReadSecret, Lookup, AddRemote, JudgeConnection, FetchLinked
  <2> QED  BY <2>1
<1> QED  BY <1>1, <1>7, <1>8, <1>9, <1>10, <1>11 DEF Worker

LEMMA AcceptForgetsNone ==
    ASSUME DInv, NEW d, NEW c, Accepted(d, c) PROVE RowsStay
BY DEF Accepted, Queued, RowsStay, Reached, DInv, DownloadsTyped

LEMMA DownloadSideForgetsNone == ASSUME DInv, DownloadSide PROVE RowsStay
<1>1. UNCHANGED download => RowsStay
  BY DEF RowsStay, Reached
<1>2. CASE Worker
  BY <1>2, WorkerForgetsNone
<1>3. ASSUME NEW d \in Downloads, NEW c \in Connections, AcceptDownload(d, c) PROVE RowsStay
  BY <1>3, AcceptForgetsNone DEF AcceptDownload
<1>4. CASE Downloaders \/ CommitProbe
  BY <1>1, <1>4 DEF Downloaders, CommitProbe, ServerAdvances, UserRemoves
<1>5. ASSUME NEW c \in Connections, CreateConnection(c) PROVE RowsStay
  BY <1>1, <1>5 DEF CreateConnection
<1>6. ASSUME NEW c \in Connections, NEW enabled \in BOOLEAN, ReplaceConnection(c, enabled)
      PROVE RowsStay
  BY <1>1, <1>6 DEF ReplaceConnection
<1>7. ASSUME NEW verdict \in Verdicts, ProbeSaved(verdict) PROVE RowsStay
  BY <1>1, <1>7 DEF ProbeSaved
<1>8. ASSUME NEW c \in Connections, DeleteConnection(c) PROVE RowsStay
  BY <1>1, <1>8 DEF DeleteConnection
<1> QED  BY <1>2, <1>3, <1>4, <1>5, <1>6, <1>7, <1>8 DEF DownloadSide

LEMMA RestartForgetsNone == ASSUME DInv, RestartAll PROVE RowsStay
<1> SUFFICES ASSUME NEW d \in Downloads, Reached(d) PROVE Reached(d)'
  BY DEF RowsStay
<1> DEFINE rows == [e \in Downloads |->
                       IF Reached(e) /\ download[e].lease = "held"
                       THEN [download[e] EXCEPT !.lease = "orphan"] ELSE download[e]]
<1>1. download[d] \in DownloadRow
  BY RowTyped DEF DInv
<1>2. rows[d] \in DownloadRow /\ rows[d].status = download[d].status
  BY <1>1 DEF DownloadRow
<1>3. download' = Requeued(rows)
  BY DEF RestartAll
<1> HIDE DEF rows
<1>4. download'[d] = rows[d]
      \/ download'[d] = [rows[d] EXCEPT !.status = "queued", !.failure = "none", !.blocked = 0]
  BY <1>3 DEF Requeued
<1> QED  BY <1>2, <1>4 DEF Reached, DownloadRow

-----------------------------------------------------------------------------
(* The invariant of automation.                                                *)

SourceRow ==
    [state : {"saved"}, version : Nat, enabled : BOOLEAN, conn : Connections,
     fetched : [Items -> Nat], leased : BOOLEAN, rotations : SUBSET CommandKeys]

Keys == Items \cup Nonces \cup Downloads

EventRow ==
    [status : Active \cup Settled, source : Kinds, version : Nat, key : Keys,
     action : {"download", "reconcile"}, edition : Nat, conn : Connections, attempts : Nat,
     downstream : Nat]

CallRow == [at : {"checked"}, nonce : Nonces, version : Nat, conn : Connections]

Between == [at : {"completion", "event", "poll"}]
Dispatching == [at : {"dispatch"}, download : Downloads]
Acting == [at : {"act"}, event : Events]
Settling == [at : {"settle"}, event : Events, result : {"done", "again", "never"}, downstream : Nat]
Polling ==
    [at : {"fetch", "commit", "give up"}, version : Nat, conn : Connections,
     cursor : [Items -> Nat], seen : [Items -> Nat]]

AutomationTyped ==
    /\ source \in [Kinds -> {NoSource, Gone} \cup SourceRow]
    /\ event \in [Events -> {NoEvent} \cup EventRow]
    /\ feed \in [Items -> Nat]
    /\ loop \in Between \cup Dispatching \cup Acting \cup Settling \cup Polling
    /\ webhook \in {NoCall} \cup CallRow
    /\ madeFor \in [Downloads -> {0} \cup Events]

\* A key makes one download, and only a download that was accepted was made under one.
KeysMakeOne ==
    /\ \A d, e \in Downloads : madeFor[d] = madeFor[e] /\ madeFor[d] # 0 => d = e
    /\ \A d \in Downloads : ~Reached(d) => madeFor[d] = 0

\* Only the loop ends a running event, and it knows what it made.
RunByTheLoop ==
    /\ loop.at \in {"act", "settle"} => event[loop.event].status = "running"
    /\ loop.at = "settle" /\ loop.result = "done" /\ event[loop.event].action = "download" =>
          MadeFor(loop.event) = {loop.downstream}

CompletedNames ==
    \A e \in Events :
        Raised(e) /\ event[e].status = "completed" /\ event[e].action = "download" =>
            MadeFor(e) = {event[e].downstream}

HasEvent(i, edition) == \E e \in EventOf(i) : event[e].edition = edition

\* What is held of a configuration is of it as long as its version is the same.
OfConfig(k, version, c) ==
    /\ source[k].state # "absent"
    /\ Saves(k) => /\ version <= source[k].version
                   /\ version = source[k].version => source[k].conn = c

CallOfConfig == webhook # NoCall => OfConfig("webhook", webhook.version, webhook.conn)

PollSound ==
    loop.at \in {"fetch", "commit", "give up"} =>
        /\ OfConfig("rss", loop.version, loop.conn)
        /\ loop.at = "fetch" =>
              \A i \in Items : loop.cursor[i] > 0 => HasEvent(i, loop.cursor[i])
        /\ loop.at = "commit" =>
              \A i \in Items : loop.cursor[i] > 0 =>
                  loop.seen[i] = loop.cursor[i] \/ HasEvent(i, loop.cursor[i])

AInv ==
    /\ AutomationTyped /\ KeysMakeOne /\ RunByTheLoop /\ CompletedNames
    /\ CallOfConfig /\ PollSound /\ CursorBehindEvents

LEMMA EventTyped ==
    ASSUME AutomationTyped, NEW e \in Events, Raised(e) PROVE event[e] \in EventRow
BY DEF AutomationTyped, Raised, NoEvent

LEMMA SourceTyped ==
    ASSUME AutomationTyped, NEW k \in Kinds, Saves(k) PROVE source[k] \in SourceRow
BY DEF AutomationTyped, Saves, NoSource, Gone

LEMMA ConfiguredIs ==
    ASSUME NEW version \in Nat, NEW enabled \in BOOLEAN, NEW c \in Connections
    PROVE  LET row == Configured(version, enabled, c) IN
           /\ row \in SourceRow /\ row.state = "saved" /\ row.version = version /\ row.conn = c
           /\ row.fetched = NeverFetched
BY DEF Configured, SourceRow, NeverFetched

LEMMA NeverFetchedIs == NeverFetched \in [Items -> Nat] /\ \A i \in Items : ~(NeverFetched[i] > 0)
BY DEF NeverFetched

LEMMA AutomationInitInv == ASSUME AutomationInit PROVE AInv
<1>1. PICK k \in Kinds, c \in Connections :
          source = [l \in Kinds |-> IF l = k /\ Exists(c) THEN Configured(1, TRUE, c) ELSE NoSource]
  BY DEF AutomationInit
<1>2. Configured(1, TRUE, c) \in SourceRow /\ Configured(1, TRUE, c).fetched = NeverFetched
  BY ConfiguredIs
<1>3. source \in [Kinds -> {NoSource, Gone} \cup SourceRow]
  BY <1>1, <1>2
<1>4. /\ event = [e \in Events |-> NoEvent] /\ feed = NeverFetched /\ loop = Resting
      /\ webhook = NoCall /\ madeFor = [d \in Downloads |-> 0]
  BY DEF AutomationInit
<1>5. AutomationTyped
  BY <1>3, <1>4, NeverFetchedIs DEF AutomationTyped, Resting, Between
<1>6. KeysMakeOne /\ RunByTheLoop /\ CompletedNames /\ CallOfConfig /\ PollSound
  BY <1>4 DEF KeysMakeOne, RunByTheLoop, CompletedNames, CallOfConfig, PollSound, Resting, Raised, NoEvent
<1>7. CursorBehindEvents
  <2>1. Saves("rss") => source["rss"].fetched = NeverFetched
    BY <1>1, <1>2 DEF Saves, NoSource, Kinds
  <2> QED  BY <2>1, NeverFetchedIs DEF CursorBehindEvents
<1> QED  BY <1>5, <1>6, <1>7 DEF AInv

-----------------------------------------------------------------------------
(* The steps of automation.                                                    *)

\* What a step may make of the events: those that exist keep what they ask for.
Continued(e) ==
    /\ event'[e].status # "free"
    /\ event'[e].source = event[e].source /\ event'[e].key = event[e].key
    /\ event'[e].action = event[e].action /\ event'[e].edition = event[e].edition

EventsContinue == \A e \in Events : Raised(e) => Continued(e)

LEMMA StillHasEvent ==
    ASSUME EventsContinue, NEW i, NEW edition, HasEvent(i, edition) PROVE HasEvent(i, edition)'
BY DEF EventsContinue, Continued, HasEvent, EventOf, Raised

\* Everything that is held of the sources and the polls outlives a step that keeps them and the events.
LEMMA CursorsKept ==
    ASSUME AInv, EventsContinue, UNCHANGED source
    PROVE  /\ CursorBehindEvents'
           /\ UNCHANGED loop => PollSound'
           /\ loop'.at \notin {"fetch", "commit", "give up"} => PollSound'
           /\ UNCHANGED webhook => CallOfConfig'
<1>1. \A i \in Items : \A edition : HasEvent(i, edition) => HasEvent(i, edition)'
  BY StillHasEvent
<1>2. CursorBehindEvents'
  <2> SUFFICES ASSUME Saves("rss")', NEW i \in Items, source'["rss"].fetched[i] > 0
               PROVE  HasEvent(i, source["rss"].fetched[i])'
    BY DEF CursorBehindEvents, HasEvent
  <2>1. Saves("rss") /\ source["rss"].fetched[i] > 0
    BY DEF Saves
  <2> QED  BY <1>1, <2>1 DEF AInv, CursorBehindEvents, HasEvent
<1>3. UNCHANGED loop => PollSound'
  BY <1>1 DEF AInv, PollSound, OfConfig, Saves
<1>4. loop'.at \notin {"fetch", "commit", "give up"} => PollSound'
  BY DEF PollSound
<1>5. UNCHANGED webhook => CallOfConfig'
  BY DEF AInv, CallOfConfig, OfConfig, Saves
<1> QED  BY <1>2, <1>3, <1>4, <1>5

\* A step of the download side, or one that leaves automation as it was.
LEMMA AutomationUnchanged ==
    ASSUME AInv, UNCHANGED automationVars, RowsStay PROVE AInv'
<1>1. UNCHANGED <<source, event, feed, loop, webhook, madeFor>>
  BY DEF automationVars
<1>2. EventsContinue
  BY <1>1 DEF EventsContinue, Continued, Raised
<1>3. CursorBehindEvents' /\ PollSound' /\ CallOfConfig'
  BY <1>1, <1>2, CursorsKept
<1>4. KeysMakeOne'
  BY <1>1 DEF AInv, KeysMakeOne, RowsStay
<1> QED  BY <1>1, <1>3, <1>4
  DEF AInv, AutomationTyped, RunByTheLoop, CompletedNames, MadeFor, Raised

\* One source row is created, replaced, deleted, leased or given back.
LEMMA SourceReplaced ==
    ASSUME AInv, UNCHANGED <<event, feed, webhook, madeFor, download>>,
           NEW k \in Kinds, NEW row \in {Gone} \cup SourceRow,
           source' = [source EXCEPT ![k] = row],
           row.state = "saved" =>
               /\ source[k].state # "deleted"
               /\ Saves(k) => \/ source[k].version < row.version
                              \/ source[k].version = row.version /\ row.conn = source[k].conn
               /\ row.fetched = NeverFetched \/ (Saves(k) /\ row.fetched = source[k].fetched)
    PROVE  /\ AutomationTyped' <=> loop' \in Between \cup Dispatching \cup Acting \cup Settling \cup Polling
           /\ KeysMakeOne' /\ CompletedNames' /\ CallOfConfig' /\ CursorBehindEvents'
           /\ UNCHANGED loop => PollSound' /\ RunByTheLoop'
<1>1. /\ source' \in [Kinds -> {NoSource, Gone} \cup SourceRow]
      /\ source'[k] = row /\ \A l \in Kinds \ {k} : source'[l] = source[l]
  BY DEF AInv, AutomationTyped
<1>2. AutomationTyped' <=> loop' \in Between \cup Dispatching \cup Acting \cup Settling \cup Polling
  BY <1>1 DEF AInv, AutomationTyped
<1>3. KeysMakeOne' /\ CompletedNames'
  BY DEF AInv, KeysMakeOne, CompletedNames, MadeFor, Raised, Reached
<1>4. \A l \in Kinds : source[l].state # "absent" => source'[l].state # "absent"
  BY <1>1 DEF Gone, SourceRow
<1>5. \A l \in Kinds : source[l].state \in {"absent", "saved", "deleted"}
  BY DEF AInv, AutomationTyped, NoSource, Gone, SourceRow
<1>6. \A l \in Kinds : source[l].state # "absent" /\ Saves(l)' =>
          /\ Saves(l)
          /\ \/ source[l].version < source'[l].version
             \/ source[l].version = source'[l].version /\ source'[l].conn = source[l].conn
  BY <1>1, <1>5 DEF Saves
<1>7. \A l \in Kinds : \A version \in Nat : \A c :
          OfConfig(l, version, c) => /\ source'[l].state # "absent"
                                     /\ source'[l].state = "saved" =>
                                           /\ version <= source'[l].version
                                           /\ version = source'[l].version => source'[l].conn = c
  <2> SUFFICES ASSUME NEW l \in Kinds, NEW version \in Nat, NEW c, OfConfig(l, version, c),
                      Saves(l)'
      PROVE  /\ version <= source'[l].version
             /\ version = source'[l].version => source'[l].conn = c
    BY <1>4 DEF OfConfig, Saves
  <2>1. Saves(l) /\ source[l].state # "absent"
    BY <1>6 DEF OfConfig
  <2>2. source[l].version \in Nat /\ version <= source[l].version
        /\ (version = source[l].version => source[l].conn = c)
    BY <2>1, SourceTyped DEF AInv, OfConfig, SourceRow
  <2>3. source'[l].version \in Nat
    BY <1>1 DEF Saves, NoSource, Gone, SourceRow
  <2>4. \/ source[l].version < source'[l].version
        \/ source[l].version = source'[l].version /\ source'[l].conn = source[l].conn
    BY <1>6, <2>1
  <2> QED  BY <2>2, <2>3, <2>4
<1>8. CallOfConfig'
  <2> SUFFICES ASSUME webhook # NoCall
               PROVE  OfConfig("webhook", webhook.version, webhook.conn)'
    BY DEF CallOfConfig
  <2>1. webhook.version \in Nat /\ OfConfig("webhook", webhook.version, webhook.conn)
    BY DEF AInv, CallOfConfig, AutomationTyped, CallRow
  <2> QED  BY <1>7, <2>1 DEF OfConfig, Saves, Kinds
<1>9. CursorBehindEvents'
  <2> SUFFICES ASSUME Saves("rss")', NEW i \in Items, source'["rss"].fetched[i] > 0
               PROVE  \E e \in EventOf(i)' : event[e].edition = source'["rss"].fetched[i]
    BY DEF CursorBehindEvents
  <2>1. Saves("rss") /\ source'["rss"].fetched = source["rss"].fetched
    BY <1>1, NeverFetchedIs DEF Kinds, Saves
  <2> QED  BY <2>1 DEF AInv, CursorBehindEvents, EventOf, Raised
<1>10. UNCHANGED loop => PollSound' /\ RunByTheLoop'
  <2> SUFFICES ASSUME UNCHANGED loop PROVE PollSound' /\ RunByTheLoop'
    OBVIOUS
  <2>1. RunByTheLoop'
    BY DEF AInv, RunByTheLoop, MadeFor
  <2>2. CASE loop.at \in {"fetch", "commit", "give up"}
    <3>1. loop \in Polling
      BY <2>2 DEF AInv, AutomationTyped, Between, Dispatching, Acting, Settling
    <3>2. loop.version \in Nat /\ OfConfig("rss", loop.version, loop.conn)
      BY <2>2, <3>1 DEF AInv, PollSound, Polling
    <3>3. OfConfig("rss", loop.version, loop.conn)'
      BY <1>7, <3>2 DEF OfConfig, Saves, Kinds
    <3> QED  BY <2>1, <2>2, <3>3 DEF AInv, PollSound, HasEvent, EventOf, Raised
  <2>3. CASE loop.at \notin {"fetch", "commit", "give up"}
    BY <2>1, <2>3 DEF PollSound
  <2> QED  BY <2>2, <2>3
<1> QED  BY <1>2, <1>3, <1>8, <1>9, <1>10

LEMMA SourceStep ==
    ASSUME AInv, UNCHANGED <<event, feed, webhook, madeFor, download, loop>>,
           NEW k \in Kinds, NEW row \in {Gone} \cup SourceRow,
           source' = [source EXCEPT ![k] = row],
           row.state = "saved" =>
               /\ source[k].state # "deleted"
               /\ Saves(k) => \/ source[k].version < row.version
                              \/ source[k].version = row.version /\ row.conn = source[k].conn
               /\ row.fetched = NeverFetched \/ (Saves(k) /\ row.fetched = source[k].fetched)
    PROVE  AInv'
<1>1. loop' \in Between \cup Dispatching \cup Acting \cup Settling \cup Polling
  BY DEF AInv, AutomationTyped
<1> QED  BY <1>1, SourceReplaced DEF AInv

LEMMA CreateSourceKeeps ==
    ASSUME AInv, NEW k \in Kinds, NEW c \in Connections, CreateSource(k, c) PROVE AInv'
<1>1. /\ source' = [source EXCEPT ![k] = Configured(1, TRUE, c)] /\ source[k].state = "absent"
      /\ UNCHANGED <<event, feed, webhook, madeFor, download, loop>>
  BY DEF CreateSource
<1>2. /\ Configured(1, TRUE, c) \in SourceRow /\ Configured(1, TRUE, c).fetched = NeverFetched
  BY ConfiguredIs
<1> QED  BY <1>1, <1>2, SourceStep DEF Saves

LEMMA ReplaceSourceKeeps ==
    ASSUME AInv, NEW k \in Kinds, NEW enabled \in BOOLEAN, NEW c \in Connections,
           ReplaceSource(k, enabled, c)
    PROVE  AInv'
<1> DEFINE version == source[k].version + 1
           fresh == Configured(version, enabled, c)
           row == [fresh EXCEPT !.rotations = source[k].rotations]
<1>1. /\ source' = [source EXCEPT ![k] = row] /\ Saves(k)
      /\ UNCHANGED <<event, feed, webhook, madeFor, download, loop>>
  BY DEF ReplaceSource
<1>2. source[k].version \in Nat /\ source[k].rotations \in SUBSET CommandKeys
  BY <1>1, SourceTyped DEF AInv, SourceRow
<1>3. version \in Nat /\ source[k].version < version
  BY <1>2
<1> HIDE DEF version
<1>4. fresh \in SourceRow /\ fresh.version = version /\ fresh.fetched = NeverFetched
  BY <1>3, ConfiguredIs
<1> HIDE DEF fresh
<1>5. row \in SourceRow /\ row.version = version /\ row.fetched = NeverFetched
  BY <1>2, <1>4 DEF SourceRow
<1> HIDE DEF row
<1> QED  BY <1>1, <1>3, <1>5, SourceStep DEF Saves

LEMMA DeleteSourceKeeps == ASSUME AInv, NEW k \in Kinds, DeleteSource(k) PROVE AInv'
<1>1. /\ source' = [source EXCEPT ![k] = Gone] /\ Gone.state # "saved"
      /\ UNCHANGED <<event, feed, webhook, madeFor, download, loop>>
  BY DEF DeleteSource, Gone
<1> QED  BY <1>1, SourceStep

LEMMA RotateSecretKeeps == ASSUME AInv, NEW key \in CommandKeys, RotateSecret(key) PROVE AInv'
<1> DEFINE version == source["webhook"].version + 1
           keys == source["webhook"].rotations \cup {key}
           row == [source["webhook"] EXCEPT !.version = version, !.rotations = keys]
<1>1. /\ source' = [source EXCEPT !["webhook"] = row] /\ Saves("webhook")
      /\ UNCHANGED <<event, feed, webhook, madeFor, download, loop>>
  BY DEF RotateSecret
<1>2. source["webhook"] \in SourceRow
  BY <1>1, SourceTyped DEF AInv, Kinds
<1>3. version \in Nat /\ source["webhook"].version < version /\ keys \in SUBSET CommandKeys
  BY <1>2 DEF SourceRow
<1> HIDE DEF version, keys
<1>4. row \in SourceRow /\ row.version = version /\ row.fetched = source["webhook"].fetched
  BY <1>2, <1>3 DEF SourceRow
<1> HIDE DEF row
<1> QED  BY <1>1, <1>3, <1>4, SourceStep DEF Saves, Kinds

LEMMA FeedChangesKeeps == ASSUME AInv, NEW i \in Items, FeedChanges(i) PROVE AInv'
<1>1. /\ feed' = [feed EXCEPT ![i] = IF @ = 2 THEN 0 ELSE @ + 1]
      /\ UNCHANGED <<source, event, loop, webhook, madeFor, download>>
  BY DEF FeedChanges
<1>2. feed' \in [Items -> Nat]
  BY <1>1 DEF AInv, AutomationTyped
<1>3. EventsContinue
  BY <1>1 DEF EventsContinue, Continued, Raised
<1>4. CursorBehindEvents' /\ PollSound' /\ CallOfConfig'
  BY <1>1, <1>3, CursorsKept
<1> QED  BY <1>1, <1>2, <1>4
  DEF AInv, AutomationTyped, KeysMakeOne, Reached, RunByTheLoop, CompletedNames, MadeFor, Raised

LEMMA CheckCallKeeps == ASSUME AInv, NEW n \in Nonces, CheckCall(n) PROVE AInv'
<1>1. /\ webhook' = [at |-> "checked", nonce |-> n, version |-> source["webhook"].version,
                     conn |-> source["webhook"].conn]
      /\ Saves("webhook") /\ UNCHANGED <<source, event, feed, loop, madeFor, download>>
  BY DEF CheckCall
<1>2. source["webhook"].version \in Nat /\ source["webhook"].conn \in Connections
  BY <1>1, SourceTyped DEF AInv, Kinds, SourceRow
<1>3. webhook' \in CallRow /\ CallOfConfig'
  BY <1>1, <1>2 DEF CallRow, CallOfConfig, OfConfig, Saves
<1>4. EventsContinue
  BY <1>1 DEF EventsContinue, Continued, Raised
<1>5. CursorBehindEvents' /\ PollSound'
  BY <1>1, <1>4, CursorsKept
<1> QED  BY <1>1, <1>3, <1>5
  DEF AInv, AutomationTyped, KeysMakeOne, Reached, RunByTheLoop, CompletedNames, MadeFor, Raised

\* A new event disturbs nothing.
LEMMA EventAdded ==
    ASSUME AInv, UNCHANGED <<source, feed, madeFor, download>>,
           NEW e \in Unused, NEW row \in EventRow, row.status = "pending",
           event' = [event EXCEPT ![e] = row]
    PROVE  /\ event' \in [Events -> {NoEvent} \cup EventRow]
           /\ EventsContinue /\ CompletedNames' /\ KeysMakeOne'
           /\ CursorBehindEvents'
           /\ UNCHANGED loop => RunByTheLoop'
<1>1. e \in Events /\ ~Raised(e)
  BY DEF Unused
<1>2. /\ event' \in [Events -> {NoEvent} \cup EventRow] /\ event'[e] = row
      /\ \A f \in Events \ {e} : event'[f] = event[f]
  BY <1>1 DEF AInv, AutomationTyped
<1>3. EventsContinue
  BY <1>1, <1>2 DEF EventsContinue, Continued, Raised
<1>4. CompletedNames'
  BY <1>2 DEF AInv, CompletedNames, MadeFor, Raised
<1>5. KeysMakeOne'
  BY DEF AInv, KeysMakeOne, Reached
<1>6. CursorBehindEvents'
  BY <1>3, CursorsKept
<1>7. UNCHANGED loop => RunByTheLoop'
  <2> SUFFICES ASSUME UNCHANGED loop, loop.at \in {"act", "settle"} PROVE RunByTheLoop'
    BY DEF RunByTheLoop
  <2>1. loop.event \in Events /\ event[loop.event].status = "running"
    BY DEF AInv, AutomationTyped, RunByTheLoop, Between, Dispatching, Acting, Settling, Polling
  <2>2. event'[loop.event] = event[loop.event]
    BY <1>1, <1>2, <2>1 DEF Raised, NoEvent
  <2> QED  BY <2>2 DEF AInv, RunByTheLoop, MadeFor
<1> QED  BY <1>2, <1>3, <1>4, <1>5, <1>6, <1>7

LEMMA FreshTyped ==
    ASSUME NEW k \in Kinds, NEW version \in Nat, NEW key \in Keys,
           NEW action \in {"download", "reconcile"}, NEW edition \in Nat, NEW c \in Connections
    PROVE  LET row == Fresh(k, version, key, action, edition, c) IN
           /\ row \in EventRow /\ row.status = "pending" /\ row.source = k
           /\ row.version = version /\ row.key = key /\ row.edition = edition /\ row.conn = c
BY DEF Fresh, EventRow, Active

LEMMA AcceptCallKeeps == ASSUME AInv, AcceptCall PROVE AInv'
<1>1. /\ webhook.at = "checked" /\ webhook' = NoCall
      /\ UNCHANGED <<source, feed, loop, madeFor, download>>
  BY DEF AcceptCall, downloadVars
<1>2. CallOfConfig'
  BY <1>1 DEF CallOfConfig
<1>3. CASE Acceptable
  <2>1. webhook \in CallRow
    BY <1>1 DEF AInv, AutomationTyped, NoCall
  <2> DEFINE row == Fresh("webhook", webhook.version, webhook.nonce, "download", 1, webhook.conn)
  <2>2. PICK e \in FirstUnused : event' = [event EXCEPT ![e] = row]
    BY <1>3 DEF AcceptCall
  <2>3. row \in EventRow /\ row.status = "pending"
    BY <2>1, FreshTyped DEF CallRow, Keys, Kinds
  <2> HIDE DEF row
  <2>4. e \in Unused
    BY DEF FirstUnused
  <2>5. /\ event' \in [Events -> {NoEvent} \cup EventRow]
        /\ EventsContinue /\ CompletedNames' /\ KeysMakeOne' /\ CursorBehindEvents'
        /\ RunByTheLoop'
    BY <1>1, <2>2, <2>3, <2>4, EventAdded
  <2>6. PollSound'
    BY <1>1, <2>5, CursorsKept
  <2> QED  BY <1>1, <1>2, <2>5, <2>6 DEF AInv, AutomationTyped
<1>4. CASE ~Acceptable
  <2>1. UNCHANGED event
    BY <1>4 DEF AcceptCall
  <2>2. EventsContinue
    BY <2>1 DEF EventsContinue, Continued, Raised
  <2>3. CursorBehindEvents' /\ PollSound'
    BY <1>1, <2>2, CursorsKept
  <2> QED  BY <1>1, <1>2, <2>1, <2>3
    DEF AInv, AutomationTyped, KeysMakeOne, Reached, RunByTheLoop, CompletedNames, MadeFor, Raised
<1> QED  BY <1>3, <1>4

\* An event that exists moves to another state.
LEMMA EventMoved ==
    ASSUME AInv, UNCHANGED <<source, feed, madeFor, download>>,
           NEW e \in Events, Raised(e), NEW row \in EventRow,
           event' = [event EXCEPT ![e] = row],
           row.source = event[e].source, row.key = event[e].key, row.action = event[e].action,
           row.edition = event[e].edition,
           row.status = "completed" /\ row.action = "download" => MadeFor(e) = {row.downstream}
    PROVE  /\ event' \in [Events -> {NoEvent} \cup EventRow]
           /\ event'[e] = row /\ \A f \in Events \ {e} : event'[f] = event[f]
           /\ EventsContinue /\ CompletedNames' /\ KeysMakeOne' /\ CursorBehindEvents'
<1>1. /\ event' \in [Events -> {NoEvent} \cup EventRow] /\ event'[e] = row
      /\ \A f \in Events \ {e} : event'[f] = event[f]
  BY DEF AInv, AutomationTyped
<1>2. row.status # "free"
  BY DEF EventRow, Active, Settled
<1>3. EventsContinue
  BY <1>1, <1>2 DEF EventsContinue, Continued, Raised
<1>4. CompletedNames'
  BY <1>1 DEF AInv, CompletedNames, MadeFor, Raised
<1>5. KeysMakeOne'
  BY DEF AInv, KeysMakeOne, Reached
<1>6. CursorBehindEvents'
  BY <1>3, CursorsKept
<1> QED  BY <1>1, <1>3, <1>4, <1>5, <1>6

LEMMA CommandKeeps ==
    ASSUME AInv, NEW e \in Events, NEW op, NEW key, Command(e, op, key) PROVE AInv'
<1>1. Raised(e) /\ UNCHANGED <<source, feed, loop, webhook, madeFor, download>>
  BY DEF Command
<1>2. event[e] \in EventRow
  BY <1>1, EventTyped DEF AInv
<1>3. PICK row \in EventRow :
        /\ event' = [event EXCEPT ![e] = row]
        /\ row.source = event[e].source /\ row.key = event[e].key /\ row.action = event[e].action
        /\ row.edition = event[e].edition /\ row.status # "completed"
  <2>1. CASE event' = [event EXCEPT ![e].status = "cancelled"]
    <3> DEFINE row == [event[e] EXCEPT !.status = "cancelled"]
    <3>1. /\ row \in EventRow /\ row.status = "cancelled"
          /\ row.source = event[e].source /\ row.key = event[e].key
          /\ row.action = event[e].action /\ row.edition = event[e].edition
      BY <1>2 DEF EventRow, Settled
    <3>2. event' = [event EXCEPT ![e] = row]
      BY <2>1
    <3> HIDE DEF row
    <3> QED  BY <3>1, <3>2
  <2>2. CASE event' = [event EXCEPT ![e].status = "pending", ![e].attempts = 0]
    <3> DEFINE row == [event[e] EXCEPT !.status = "pending", !.attempts = 0]
    <3>1. /\ row \in EventRow /\ row.status = "pending"
          /\ row.source = event[e].source /\ row.key = event[e].key
          /\ row.action = event[e].action /\ row.edition = event[e].edition
      BY <1>2 DEF EventRow, Active
    <3>2. event' = [event EXCEPT ![e] = row]
      BY <2>2
    <3> HIDE DEF row
    <3> QED  BY <3>1, <3>2
  <2> QED  BY <2>1, <2>2 DEF Command
<1>4. /\ event' \in [Events -> {NoEvent} \cup EventRow]
      /\ \A f \in Events \ {e} : event'[f] = event[f]
      /\ EventsContinue /\ CompletedNames' /\ KeysMakeOne' /\ CursorBehindEvents'
  BY <1>1, <1>3, EventMoved
<1>5. PollSound' /\ CallOfConfig'
  BY <1>1, <1>4, CursorsKept
<1>6. RunByTheLoop'
  <2> SUFFICES ASSUME loop.at \in {"act", "settle"} PROVE RunByTheLoop'
    BY <1>1 DEF RunByTheLoop
  <2>1. loop.event \in Events /\ event[loop.event].status = "running"
    BY DEF AInv, AutomationTyped, RunByTheLoop, Between, Dispatching, Acting, Settling, Polling
  <2>2. event[e].status # "running"
    BY DEF Command
  <2>3. event'[loop.event] = event[loop.event]
    BY <1>4, <2>1, <2>2
  <2> QED  BY <1>1, <2>3 DEF AInv, RunByTheLoop, MadeFor
<1> QED  BY <1>1, <1>4, <1>5, <1>6 DEF AInv, AutomationTyped

LEMMA SourcesKeepAutomation == ASSUME AInv, Sources PROVE AInv'
BY CreateSourceKeeps, ReplaceSourceKeeps, DeleteSourceKeeps, RotateSecretKeeps, FeedChangesKeeps,
   CheckCallKeeps, AcceptCallKeeps, CommandKeeps DEF Sources

-----------------------------------------------------------------------------
(* The loop.                                                                   *)

\* The loop goes on to a place where it is about no event and no poll.
LEMMA LoopElsewhere ==
    ASSUME AInv, UNCHANGED <<source, event, feed, webhook, madeFor>>, RowsStay,
           loop' \in Between \cup Dispatching
    PROVE  AInv'
<1>1. loop'.at \notin {"act", "settle", "fetch", "commit", "give up"}
  BY DEF Between, Dispatching
<1>2. EventsContinue
  BY DEF EventsContinue, Continued, Raised
<1>3. CursorBehindEvents' /\ PollSound' /\ CallOfConfig'
  BY <1>1, <1>2, CursorsKept
<1>4. AutomationTyped'
  BY DEF AInv, AutomationTyped
<1>5. KeysMakeOne' /\ RunByTheLoop' /\ CompletedNames'
  BY <1>1 DEF AInv, KeysMakeOne, RowsStay, RunByTheLoop, CompletedNames, MadeFor, Raised
<1> QED  BY <1>3, <1>4, <1>5 DEF AInv

LEMMA SameRowsStay == ASSUME UNCHANGED download PROVE RowsStay
BY DEF RowsStay, Reached

LEMMA ClaimCompletionKeeps == ASSUME AInv, ClaimCompletion PROVE AInv'
<1>1. UNCHANGED <<source, event, feed, webhook, madeFor, download>>
  BY DEF ClaimCompletion, KeepsRequests, KeepsDownloads
<1> DEFINE due == {d \in Downloads : signal[d] = "pending" /\ tries[d] < MaxAttempts}
<1>2. CASE due = {}
  <2>1. loop' \in Between
    BY <1>2 DEF ClaimCompletion, Turns, Between
  <2> QED  BY <1>1, <2>1, SameRowsStay, LoopElsewhere
<1>3. CASE due # {}
  <2>1. Oldest(due) \in Downloads
    BY <1>3, OldestDownload
  <2>2. loop' = [at |-> "dispatch", download |-> Oldest(due)]
    BY <1>3 DEF ClaimCompletion
  <2> HIDE DEF due
  <2>3. loop' \in Dispatching
    BY <2>1, <2>2 DEF Dispatching
  <2> QED  BY <1>1, <2>3, SameRowsStay, LoopElsewhere
<1> QED  BY <1>2, <1>3

LEMMA DispatchKeeps == ASSUME AInv, Dispatch PROVE AInv'
<1>1. /\ loop.at = "dispatch" /\ loop' = [at |-> "event"]
      /\ UNCHANGED <<source, feed, webhook, madeFor, download>>
  BY DEF Dispatch, Turns, KeepsRequests, KeepsDownloads
<1> DEFINE d == loop.download
           row == Fresh("completion", source["completion"].version, d, "reconcile", 1, download[d].conn)
<1>2. d \in Downloads
  BY <1>1 DEF AInv, AutomationTyped, Between, Dispatching, Acting, Settling, Polling
<1>3. CASE Mapped(d)
  <2>1. PICK e \in FirstUnused : event' = [event EXCEPT ![e] = row]
    BY <1>3 DEF Dispatch
  <2>2. source["completion"].version \in Nat /\ download[d].conn \in Connections
    BY <1>3, SourceTyped DEF Mapped, AInv, Kinds, SourceRow
  <2>3. row \in EventRow /\ row.status = "pending"
    <3>1. d \in Keys /\ "completion" \in Kinds
      BY <1>2 DEF Keys, Kinds
    <3> HIDE DEF d
    <3> QED  BY <2>2, <3>1, FreshTyped
  <2> HIDE DEF row
  <2>4. e \in Unused
    BY DEF FirstUnused
  <2>5. /\ event' \in [Events -> {NoEvent} \cup EventRow]
        /\ EventsContinue /\ CompletedNames' /\ KeysMakeOne' /\ CursorBehindEvents'
    BY <1>1, <2>1, <2>3, <2>4, EventAdded
  <2>6. PollSound' /\ CallOfConfig' /\ RunByTheLoop'
    BY <1>1, <2>5, CursorsKept DEF RunByTheLoop
  <2> QED  BY <1>1, <2>5, <2>6 DEF AInv, AutomationTyped, Between
<1>4. CASE ~Mapped(d)
  <2>1. UNCHANGED event /\ loop' \in Between
    BY <1>1, <1>4 DEF Dispatch, Between
  <2> QED  BY <1>1, <2>1, SameRowsStay, LoopElsewhere
<1> QED  BY <1>3, <1>4

LEMMA ClaimEventKeeps == ASSUME AInv, ClaimEvent PROVE AInv'
<1>1. UNCHANGED <<source, feed, webhook, madeFor, download>>
  BY DEF ClaimEvent, KeepsRequests, KeepsDownloads
<1>2. PICK ripe \in SUBSET {e \in Events : event[e].status = "retry-wait"} :
        IF Runnable(ripe) = {} THEN Turns("poll") /\ UNCHANGED event
        ELSE LET e == Oldest(Runnable(ripe)) IN
             /\ event' = [event EXCEPT ![e].status = "running", ![e].attempts = @ + 1]
             /\ loop' = [at |-> "act", event |-> e]
  BY DEF ClaimEvent
<1>3. CASE Runnable(ripe) = {}
  <2>1. UNCHANGED event /\ loop' \in Between
    BY <1>2, <1>3 DEF Turns, Between
  <2> QED  BY <1>1, <2>1, SameRowsStay, LoopElsewhere
<1>4. CASE Runnable(ripe) # {}
  <2> DEFINE e == Oldest(Runnable(ripe))
             attempts == event[e].attempts + 1
             row == [event[e] EXCEPT !.status = "running", !.attempts = attempts]
  <2>1. e \in Runnable(ripe)
    <3>1. Runnable(ripe) \subseteq Events /\ Events \subseteq Nat
      BY AutomationAssumption DEF Runnable
    <3> QED  BY <1>4, <3>1, OldestIn
  <2>2. e \in Events /\ Raised(e)
    BY <2>1 DEF Runnable, Raised
  <2>3. event[e] \in EventRow /\ attempts \in Nat
    BY <2>2, EventTyped DEF AInv, EventRow
  <2>4. event' = [event EXCEPT ![e] = row] /\ loop' = [at |-> "act", event |-> e]
    BY <1>2, <1>4
  <2> HIDE DEF attempts
  <2>5. /\ row \in EventRow /\ row.status = "running"
        /\ row.source = event[e].source /\ row.key = event[e].key /\ row.action = event[e].action
        /\ row.edition = event[e].edition
    BY <2>3 DEF EventRow, Active
  <2> HIDE DEF e, row
  <2>6. /\ event' \in [Events -> {NoEvent} \cup EventRow] /\ event'[e] = row
        /\ EventsContinue /\ CompletedNames' /\ KeysMakeOne' /\ CursorBehindEvents'
    BY <1>1, <2>2, <2>4, <2>5, EventMoved
  <2>7. loop' \in Acting /\ loop'.at = "act" /\ loop'.event = e
    BY <2>2, <2>4 DEF Acting
  <2>8. PollSound' /\ CallOfConfig'
    BY <1>1, <2>6, <2>7, CursorsKept
  <2>9. RunByTheLoop'
    BY <2>5, <2>6, <2>7 DEF RunByTheLoop
  <2> QED  BY <1>1, <2>6, <2>7, <2>8, <2>9 DEF AInv, AutomationTyped
<1> QED  BY <1>3, <1>4

\* The loop learns what became of the event: what it made, when it is done.
LEMMA Learned ==
    ASSUME AInv, UNCHANGED <<source, event, feed, webhook>>, RowsStay,
           loop.at = "act", NEW result \in {"done", "again", "never"}, NEW downstream \in Nat,
           Result(loop.event, result, downstream),
           madeFor' \in [Downloads -> {0} \cup Events], KeysMakeOne',
           \A e \in Events \ {loop.event} : MadeFor(e)' = MadeFor(e),
           result = "done" /\ event[loop.event].action = "download" =>
               MadeFor(loop.event)' = {downstream}
    PROVE  AInv'
<1>1. loop.event \in Events /\ event[loop.event].status = "running"
  BY DEF AInv, AutomationTyped, RunByTheLoop, Between, Dispatching, Acting, Settling, Polling
<1>2. loop' = [at |-> "settle", event |-> loop.event, result |-> result, downstream |-> downstream]
  BY DEF Result
<1>3. /\ loop' \in Settling /\ loop'.at = "settle" /\ loop'.event = loop.event
      /\ loop'.result = result /\ loop'.downstream = downstream
  BY <1>1, <1>2 DEF Settling
<1>4. EventsContinue
  BY DEF EventsContinue, Continued, Raised
<1>5. CursorBehindEvents' /\ PollSound' /\ CallOfConfig'
  BY <1>3, <1>4, CursorsKept
<1>6. RunByTheLoop'
  BY <1>1, <1>3 DEF RunByTheLoop, MadeFor
<1>7. CompletedNames'
  <2> SUFFICES ASSUME NEW e \in Events, Raised(e)', event'[e].status = "completed",
                      event'[e].action = "download"
               PROVE  MadeFor(e)' = {event'[e].downstream}
    BY DEF CompletedNames
  <2>1. e # loop.event /\ Raised(e)
    BY <1>1 DEF Raised
  <2> QED  BY <2>1 DEF AInv, CompletedNames
<1> QED  BY <1>3, <1>5, <1>6, <1>7 DEF AInv, AutomationTyped

LEMMA ActDownloadKeeps == ASSUME DInv, AInv, ActDownload PROVE AInv' /\ DInv'
<1> DEFINE e == loop.event
<1>1. /\ loop.at = "act" /\ UNCHANGED <<source, event, feed, webhook, conn, server, batch, probing>>
  BY DEF ActDownload, KeepsRequests
<1>2. loop \in Acting /\ e \in Events /\ event[e].status = "running"
  BY <1>1 DEF AInv, AutomationTyped, RunByTheLoop, Between, Dispatching, Acting, Settling, Polling
<1>3. event[e].conn \in Connections /\ e # 0
  BY <1>2, EventTyped, AutomationAssumption DEF AInv, Raised, EventRow
<1>4. CASE UNCHANGED <<download, madeFor>> /\ Result(e, "again", 0)
  BY <1>1, <1>4, SameRowsStay, Learned, OtherwiseKeeps DEF AInv, AutomationTyped, MadeFor, KeysMakeOne, Reached
<1>5. CASE MadeFor(e) # {} /\ UNCHANGED <<download, madeFor>> /\ Result(e, "done", Oldest(MadeFor(e)))
  <2> DEFINE d == Oldest(MadeFor(e))
  <2>1. d \in MadeFor(e) /\ d \in Nat
    BY <1>5, OldestDownload, DownloadsAssumption DEF MadeFor
  <2>2. MadeFor(e) = {d}
    BY <1>3, <2>1 DEF AInv, KeysMakeOne, MadeFor
  <2>3. Result(e, "done", d)
    BY <1>5
  <2> HIDE DEF d
  <2>4. KeysMakeOne' /\ madeFor' \in [Downloads -> {0} \cup Events]
    BY <1>5 DEF AInv, AutomationTyped, KeysMakeOne, Reached
  <2>5. MadeFor(e)' = {d} /\ \A f \in Events : MadeFor(f)' = MadeFor(f)
    BY <1>5, <2>2, <2>3 DEF MadeFor, Result
  <2>6. RowsStay
    BY <1>5, SameRowsStay
  <2>7. AInv'
    BY <1>1, <2>1, <2>3, <2>4, <2>5, <2>6, Learned
  <2> QED  BY <1>1, <1>5, <2>7, OtherwiseKeeps
<1>6. ASSUME NEW d \in Downloads, MadeFor(e) = {}, Accepted(d, event[e].conn),
             madeFor' = [madeFor EXCEPT ![d] = e],
             Result(e, "done", d) \/ Result(e, "again", 0)
      PROVE  AInv' /\ DInv'
  <2>1. DInv' /\ RowsStay
    BY <1>1, <1>3, <1>6, AcceptedKeeps, AcceptForgetsNone
  <2>2. ~Reached(d) /\ Reached(d)' /\ \A f \in Downloads \ {d} : download'[f] = download[f]
    BY <1>6 DEF Accepted, Queued, Reached, DInv, DownloadsTyped
  <2>3. madeFor[d] = 0
    BY <2>2 DEF AInv, KeysMakeOne
  <2>4. /\ madeFor' \in [Downloads -> {0} \cup Events] /\ madeFor'[d] = e
        /\ \A f \in Downloads \ {d} : madeFor'[f] = madeFor[f] /\ madeFor[f] # e
    BY <1>2, <1>6 DEF AInv, AutomationTyped, MadeFor
  <2>5. KeysMakeOne'
    BY <1>3, <2>2, <2>4 DEF AInv, KeysMakeOne, Reached
  <2>6. /\ MadeFor(e)' = {d}
        /\ \A f \in Events \ {e} : MadeFor(f)' = MadeFor(f)
    <3>1. MadeFor(e)' = {d}
      <4>1. loop'.event = e
        BY <1>6 DEF Result
      <4> QED  BY <2>4, <4>1 DEF MadeFor
    <3>2. \A f \in Events \ {e} : \A g \in Downloads : madeFor'[g] = f <=> madeFor[g] = f
      BY <2>3, <2>4, AutomationAssumption
    <3> QED  BY <3>1, <3>2 DEF MadeFor
  <2>7. d \in Nat
    BY DownloadsAssumption
  <2>8. AInv'
    BY <1>1, <1>6, <2>1, <2>4, <2>5, <2>6, <2>7, Learned
  <2> QED  BY <2>1, <2>8
<1> QED  BY <1>4, <1>5, <1>6 DEF ActDownload

LEMMA ActReconcileKeeps == ASSUME AInv, ActReconcile PROVE AInv'
<1>1. /\ loop.at = "act" /\ UNCHANGED <<source, event, feed, webhook, madeFor, download>>
      /\ event[loop.event].action = "reconcile"
  BY DEF ActReconcile, KeepsRequests, KeepsDownloads
<1>2. PICK result \in {"done", "again", "never"} : Result(loop.event, result, 0)
  BY DEF ActReconcile
<1>3. KeysMakeOne' /\ madeFor' \in [Downloads -> {0} \cup Events]
  BY <1>1 DEF AInv, AutomationTyped, KeysMakeOne, Reached
<1>4. \A e \in Events \ {loop.event} : MadeFor(e)' = MadeFor(e)
  BY <1>1 DEF MadeFor
<1> QED  BY <1>1, <1>2, <1>3, <1>4, SameRowsStay, Learned

LEMMA SettleKeeps == ASSUME AInv, Settle PROVE AInv'
<1>1. loop.at = "settle" /\ UNCHANGED <<source, feed, webhook, madeFor, download>>
  BY DEF Settle, KeepsRequests, KeepsDownloads
<1> DEFINE e == loop.event
           retry == loop.result = "again" /\ event[e].attempts < MaxAttempts
           status == IF loop.result = "done" THEN "completed"
                     ELSE IF retry THEN "retry-wait" ELSE "failed"
           downstream == IF loop.result = "done" THEN loop.downstream ELSE event[e].downstream
           row == [event[e] EXCEPT !.status = status, !.downstream = downstream]
<1>2. loop \in Settling /\ e \in Events /\ event[e].status = "running"
  BY <1>1 DEF AInv, AutomationTyped, RunByTheLoop, Between, Dispatching, Acting, Settling, Polling
<1>3. event[e] \in EventRow /\ Raised(e)
  BY <1>2, EventTyped DEF AInv, Raised
<1>4. CASE UNCHANGED event /\ Turns("completion")
  <2>1. loop' \in Between
    BY <1>4 DEF Turns, Between
  <2> QED  BY <1>1, <1>4, <2>1, SameRowsStay, LoopElsewhere
<1>5. CASE event' = [event EXCEPT ![e] = row] /\ Turns("poll")
  <2>1. status \in {"completed", "retry-wait", "failed"} /\ downstream \in Nat
    BY <1>2, <1>3 DEF Settling, EventRow
  <2>2. status = "completed" /\ event[e].action = "download" => MadeFor(e) = {downstream}
    BY <1>1 DEF AInv, RunByTheLoop
  <2> HIDE DEF status, downstream
  <2>3. /\ row \in EventRow /\ row.status = status /\ row.downstream = downstream
        /\ row.source = event[e].source /\ row.key = event[e].key /\ row.action = event[e].action
        /\ row.edition = event[e].edition
    BY <1>3, <2>1 DEF EventRow, Active, Settled
  <2> HIDE DEF row, e
  <2>4. /\ event' \in [Events -> {NoEvent} \cup EventRow]
        /\ EventsContinue /\ CompletedNames' /\ KeysMakeOne' /\ CursorBehindEvents'
    BY <1>1, <1>2, <1>3, <1>5, <2>2, <2>3, EventMoved
  <2>5. loop' \in Between /\ loop'.at = "poll"
    BY <1>5 DEF Turns, Between
  <2>6. PollSound' /\ CallOfConfig'
    BY <1>1, <2>4, <2>5, CursorsKept
  <2>7. RunByTheLoop'
    BY <2>5 DEF RunByTheLoop
  <2> QED  BY <1>1, <2>4, <2>5, <2>6, <2>7 DEF AInv, AutomationTyped
<1>6. \/ event' = [event EXCEPT ![e] = row] /\ Turns("poll")
      \/ UNCHANGED event /\ Turns("completion")
  BY DEF Settle
<1> QED  BY <1>4, <1>5, <1>6

LEMMA ClaimFeedKeeps == ASSUME AInv, ClaimFeed PROVE AInv'
<1>1. loop.at = "poll" /\ UNCHANGED <<event, feed, webhook, madeFor, download>>
  BY DEF ClaimFeed, KeepsRequests, KeepsDownloads
<1>2. CASE Turns("completion") /\ UNCHANGED source
  <2>1. loop' \in Between
    BY <1>2 DEF Turns, Between
  <2> QED  BY <1>1, <1>2, <2>1, SameRowsStay, LoopElsewhere
<1>3. CASE /\ Saves("rss")
           /\ source' = [source EXCEPT !["rss"].leased = TRUE]
           /\ loop' = [at |-> "fetch", version |-> source["rss"].version,
                       conn |-> source["rss"].conn, cursor |-> source["rss"].fetched,
                       seen |-> NeverFetched]
  <2> DEFINE row == [source["rss"] EXCEPT !.leased = TRUE]
  <2>1. source["rss"] \in SourceRow
    BY <1>3, SourceTyped DEF AInv, Kinds
  <2>2. /\ row \in SourceRow /\ row.state = "saved" /\ row.version = source["rss"].version
        /\ row.conn = source["rss"].conn /\ row.fetched = source["rss"].fetched
    BY <2>1 DEF SourceRow
  <2>3. source' = [source EXCEPT !["rss"] = row]
    BY <1>3
  <2>4. /\ loop' \in Polling /\ loop'.at = "fetch" /\ loop'.version = source["rss"].version
        /\ loop'.conn = source["rss"].conn /\ loop'.cursor = source["rss"].fetched
    BY <1>3, <2>1, NeverFetchedIs DEF Polling, SourceRow
  <2> HIDE DEF row
  <2>5. "rss" \in Kinds /\ source["rss"].state # "deleted"
    BY <1>3 DEF Kinds, Saves
  <2>6. /\ AutomationTyped' /\ KeysMakeOne' /\ CompletedNames' /\ CallOfConfig' /\ CursorBehindEvents'
    BY <1>1, <1>3, <2>2, <2>3, <2>4, <2>5, SourceReplaced
  <2>7. source'["rss"] = row
    BY <2>3, <2>5 DEF AInv, AutomationTyped
  <2>8. PollSound'
    <3>1. OfConfig("rss", loop.version, loop.conn)'
      <4>1. source["rss"].version \in Nat
        BY <2>1 DEF SourceRow
      <4> QED  BY <2>2, <2>4, <2>7, <4>1 DEF OfConfig, Saves
    <3>2. \A i \in Items : source["rss"].fetched[i] > 0 => HasEvent(i, source["rss"].fetched[i])'
      BY <1>1, <1>3 DEF AInv, CursorBehindEvents, HasEvent, EventOf, Raised
    <3>3. \A i \in Items : loop'.cursor[i] > 0 =>
              \E e \in EventOf(i)' : event'[e].edition = loop'.cursor[i]
      BY <2>2, <2>4, <2>7, <3>2 DEF HasEvent
    <3> QED  BY <2>4, <3>1, <3>3 DEF PollSound, HasEvent
  <2>9. RunByTheLoop'
    BY <2>4 DEF RunByTheLoop
  <2> QED  BY <2>6, <2>8, <2>9 DEF AInv
<1> QED  BY <1>2, <1>3 DEF ClaimFeed

LEMMA PollingTyped ==
    ASSUME AInv, loop.at \in {"fetch", "commit", "give up"} PROVE loop \in Polling
BY DEF AInv, AutomationTyped, Between, Dispatching, Acting, Settling

LEMMA FetchKeeps == ASSUME AInv, Fetch PROVE AInv'
<1>1. loop.at = "fetch" /\ UNCHANGED <<source, event, feed, webhook, madeFor, download>>
  BY DEF Fetch, KeepsRequests, KeepsDownloads
<1>2. loop \in Polling
  BY <1>1, PollingTyped
<1> DEFINE seen == IF loop.cursor = feed THEN NeverFetched ELSE feed
<1>3. \/ loop' = [loop EXCEPT !.at = "commit", !.cursor = feed, !.seen = seen]
      \/ loop' = [loop EXCEPT !.at = "give up"]
  BY DEF Fetch
<1>4. seen \in [Items -> Nat] /\ feed \in [Items -> Nat]
  BY NeverFetchedIs DEF AInv, AutomationTyped
<1>5. loop.cursor # feed => seen = feed
  OBVIOUS
<1> HIDE DEF seen
<1>6. /\ loop' \in Polling /\ loop'.version = loop.version /\ loop'.conn = loop.conn
      /\ \/ loop'.at = "commit" /\ loop'.cursor = feed /\ loop'.seen = seen
         \/ loop'.at = "give up"
  BY <1>2, <1>3, <1>4 DEF Polling
<1>7. EventsContinue
  BY <1>1 DEF EventsContinue, Continued, Raised
<1>8. CursorBehindEvents' /\ CallOfConfig'
  BY <1>1, <1>7, CursorsKept
<1>9. PollSound'
  <2>1. OfConfig("rss", loop.version, loop.conn)'
    BY <1>1, <1>6 DEF AInv, PollSound, OfConfig, Saves
  <2>2. \A i \in Items : loop.cursor[i] > 0 => HasEvent(i, loop.cursor[i])
    BY <1>1 DEF AInv, PollSound
  <2>3. \A i \in Items : feed[i] > 0 => seen[i] = feed[i] \/ HasEvent(i, feed[i])
    BY <1>5, <2>2
  <2>4. \A i \in Items : \A edition : HasEvent(i, edition) => HasEvent(i, edition)'
    BY <1>7, StillHasEvent
  <2>5. CASE loop'.at = "commit"
    <3>1. \A i \in Items : loop'.cursor[i] > 0 =>
              loop'.seen[i] = loop'.cursor[i] \/ (\E e \in EventOf(i)' : event'[e].edition = loop'.cursor[i])
      BY <1>6, <2>3, <2>4, <2>5 DEF HasEvent
    <3> QED  BY <2>1, <2>5, <3>1 DEF PollSound, HasEvent
  <2>6. CASE loop'.at = "give up"
    BY <2>1, <2>6 DEF PollSound
  <2> QED  BY <1>6, <2>5, <2>6
<1>10. RunByTheLoop'
  BY <1>6 DEF RunByTheLoop
<1> QED  BY <1>1, <1>6, <1>8, <1>9, <1>10
  DEF AInv, AutomationTyped, KeysMakeOne, Reached, CompletedNames, MadeFor, Raised

LEMMA FailPollKeeps == ASSUME AInv, FailPoll PROVE AInv'
<1>1. /\ loop.at = "give up" /\ UNCHANGED <<event, feed, webhook, madeFor, download>>
      /\ loop' \in Between /\ loop'.at = "completion"
  BY DEF FailPoll, KeepsRequests, KeepsDownloads, Turns, Between
<1>2. CASE StillMine
  <2> DEFINE row == [source["rss"] EXCEPT !.leased = FALSE]
  <2>1. source["rss"] \in SourceRow /\ Saves("rss")
    BY <1>2, SourceTyped DEF AInv, Kinds, StillMine
  <2>2. /\ row \in SourceRow /\ row.state = "saved" /\ row.version = source["rss"].version
        /\ row.conn = source["rss"].conn /\ row.fetched = source["rss"].fetched
    BY <2>1 DEF SourceRow
  <2>3. source' = [source EXCEPT !["rss"] = row]
    BY <1>2 DEF FailPoll
  <2> HIDE DEF row
  <2>4. "rss" \in Kinds /\ source["rss"].state # "deleted"
    BY <2>1 DEF Kinds, Saves
  <2>5. /\ AutomationTyped' /\ KeysMakeOne' /\ CompletedNames' /\ CallOfConfig' /\ CursorBehindEvents'
    BY <1>1, <2>1, <2>2, <2>3, <2>4, SourceReplaced
  <2>6. PollSound' /\ RunByTheLoop'
    BY <1>1 DEF PollSound, RunByTheLoop
  <2> QED  BY <2>5, <2>6 DEF AInv
<1>3. CASE ~StillMine
  <2>1. UNCHANGED source
    BY <1>3 DEF FailPoll
  <2> QED  BY <1>1, <2>1, SameRowsStay, LoopElsewhere
<1> QED  BY <1>2, <1>3

\* What the poll saw, with what it makes of the events: each new item gets one of its own.
Taking ==
    event' = [e \in Events |->
        IF e \in Unused /\ \E i \in NewItems : RankIn(NewItems, i) = RankIn(Unused, e)
        THEN LET i == CHOOSE i \in NewItems : RankIn(NewItems, i) = RankIn(Unused, e)
             IN  Fresh("rss", loop.version, i, "download", loop.seen[i], loop.conn)
        ELSE event[e]]

LEMMA ItemsFinite ==
    /\ IsFiniteSet(NewItems) /\ NewItems \subseteq Items /\ NewItems \subseteq Nat
    /\ IsFiniteSet(Unused) /\ Unused \subseteq Events /\ Unused \subseteq Nat
<1>1. NewItems \subseteq Items /\ Unused \subseteq Events
  BY DEF NewItems, Unused
<1>2. /\ IsFiniteSet(Items) /\ Items \subseteq Nat /\ IsFiniteSet(Events) /\ Events \subseteq Nat
  BY AutomationAssumption
<1> HIDE DEF NewItems, Unused
<1> QED  BY <1>1, <1>2, FS_Subset

LEMMA TakingGives ==
    ASSUME Taking, NEW e \in Events
    PROVE  \/ event'[e] = event[e]
           \/ /\ e \in Unused
              /\ \E i \in NewItems :
                    /\ RankIn(NewItems, i) = RankIn(Unused, e)
                    /\ event'[e] = Fresh("rss", loop.version, i, "download", loop.seen[i], loop.conn)
<1>1. CASE e \in Unused /\ \E i \in NewItems : RankIn(NewItems, i) = RankIn(Unused, e)
  <2> DEFINE chosen == CHOOSE i \in NewItems : RankIn(NewItems, i) = RankIn(Unused, e)
  <2>1. chosen \in NewItems /\ RankIn(NewItems, chosen) = RankIn(Unused, e)
    BY <1>1
  <2>2. event'[e] = Fresh("rss", loop.version, chosen, "download", loop.seen[chosen], loop.conn)
    BY <1>1 DEF Taking
  <2> HIDE DEF chosen
  <2> QED  BY <1>1, <2>1, <2>2
<1>2. CASE ~(e \in Unused /\ \E i \in NewItems : RankIn(NewItems, i) = RankIn(Unused, e))
  BY <1>2 DEF Taking
<1> QED  BY <1>1, <1>2

LEMMA EachItemTaken ==
    ASSUME Taking, Cardinality(NewItems) <= Cardinality(Unused), NEW i \in NewItems
    PROVE  \E e \in Unused :
              event'[e] = Fresh("rss", loop.version, i, "download", loop.seen[i], loop.conn)
<1> DEFINE rank == RankIn(NewItems, i)
<1>1. i \in Nat
  BY ItemsFinite
<1>2. {y \in NewItems : y < i} \subseteq NewItems /\ i \notin {y \in NewItems : y < i}
  BY <1>1
<1>3. /\ rank \in Nat /\ Cardinality(NewItems) \in Nat /\ Cardinality(Unused) \in Nat
      /\ rank < Cardinality(NewItems)
  <2> DEFINE before == {y \in NewItems : y < i}
  <2>1. IsFiniteSet(NewItems) /\ IsFiniteSet(Unused)
    BY ItemsFinite
  <2>2. before \subseteq NewItems /\ before # NewItems
    BY <1>2
  <2> HIDE DEF before
  <2>3. /\ Cardinality(before) \in Nat /\ Cardinality(before) <= Cardinality(NewItems)
        /\ Cardinality(before) # Cardinality(NewItems)
    BY <2>1, <2>2, FS_Subset, FS_CardinalityType
  <2>4. Cardinality(NewItems) \in Nat /\ Cardinality(Unused) \in Nat
    BY <2>1, FS_CardinalityType
  <2> QED  BY <2>3, <2>4 DEF RankIn, before
<1>4. PICK e \in Unused : RankIn(Unused, e) = rank
  <2>1. rank < Cardinality(Unused)
    BY <1>3
  <2> HIDE DEF rank
  <2> QED  BY <1>3, <2>1, ItemsFinite, RankExists
<1>5. e \in Events
  BY ItemsFinite
<1>6. \A j \in NewItems : RankIn(NewItems, j) = rank => j = i
  <2> SUFFICES ASSUME NEW j \in NewItems, RankIn(NewItems, j) = rank PROVE j = i
    OBVIOUS
  <2>1. i \in Nat /\ j \in Nat
    BY ItemsFinite
  <2>2. RankIn(NewItems, j) \in Nat
    BY <1>3
  <2>3. j < i => RankIn(NewItems, j) < RankIn(NewItems, i)
    BY ItemsFinite, RanksDiffer
  <2>4. i < j => RankIn(NewItems, i) < RankIn(NewItems, j)
    BY ItemsFinite, RanksDiffer
  <2> QED  BY <2>1, <2>2, <2>3, <2>4
<1>7. event'[e] = LET j == CHOOSE j \in NewItems : RankIn(NewItems, j) = RankIn(Unused, e)
                  IN  Fresh("rss", loop.version, j, "download", loop.seen[j], loop.conn)
  BY <1>4, <1>5 DEF Taking
<1>8. (CHOOSE j \in NewItems : RankIn(NewItems, j) = RankIn(Unused, e)) = i
  BY <1>4, <1>6
<1> QED  BY <1>7, <1>8

LEMMA CommitPollKeeps == ASSUME AInv, CommitPoll PROVE AInv'
<1>1. /\ loop.at = "commit" /\ loop' = [at |-> "completion"]
      /\ UNCHANGED <<feed, webhook, madeFor, download>>
  BY DEF CommitPoll, Turns, KeepsRequests, KeepsDownloads
<1>2. loop' \in Between
  BY <1>1 DEF Between
<1>3. CASE UNCHANGED <<event, source>>
  BY <1>1, <1>2, <1>3, SameRowsStay, LoopElsewhere
<1>4. CASE /\ StillMine
           /\ \A i \in Items : ~Conflicts(i)
           /\ Cardinality(NewItems) <= Cardinality(Unused)
           /\ Taking
           /\ source' = [source EXCEPT !["rss"].fetched = loop.cursor, !["rss"].leased = FALSE]
  <2>1. loop \in Polling
    BY <1>1, PollingTyped
  <2>2. loop.version \in Nat /\ loop.conn \in Connections /\ loop.cursor \in [Items -> Nat]
        /\ loop.seen \in [Items -> Nat]
    BY <2>1 DEF Polling
  <2>3. source["rss"] \in SourceRow
    BY <1>4, SourceTyped DEF AInv, Kinds, StillMine
  <2> DEFINE row == [source["rss"] EXCEPT !.fetched = loop.cursor, !.leased = FALSE]
  <2>4. /\ row \in SourceRow /\ row.state = "saved" /\ row.fetched = loop.cursor
        /\ source' = [source EXCEPT !["rss"] = row]
    BY <1>4, <2>2, <2>3 DEF SourceRow
  <2> HIDE DEF row
  <2>5. /\ source' \in [Kinds -> {NoSource, Gone} \cup SourceRow]
        /\ source'["rss"] = row /\ source'["webhook"] = source["webhook"]
    BY <2>4 DEF AInv, AutomationTyped, Kinds
  <2>6. \A i \in NewItems :
          LET fresh == Fresh("rss", loop.version, i, "download", loop.seen[i], loop.conn)
          IN  /\ fresh \in EventRow /\ fresh.status = "pending" /\ fresh.source = "rss"
              /\ fresh.key = i /\ fresh.edition = loop.seen[i]
    <3> SUFFICES ASSUME NEW i \in NewItems
        PROVE LET fresh == Fresh("rss", loop.version, i, "download", loop.seen[i], loop.conn)
              IN  /\ fresh \in EventRow /\ fresh.status = "pending" /\ fresh.source = "rss"
                  /\ fresh.key = i /\ fresh.edition = loop.seen[i]
      OBVIOUS
    <3>1. i \in Items /\ i \in Keys /\ loop.seen[i] \in Nat /\ "rss" \in Kinds
      BY <2>2, ItemsFinite DEF Keys, Kinds
    <3> QED  BY <2>2, <3>1, FreshTyped
  <2>7. \A e \in Events : \/ event'[e] = event[e]
                          \/ e \in Unused /\ event'[e] \in EventRow /\ event'[e].status = "pending"
    BY <1>4, <2>6, TakingGives
  <2>8. event' \in [Events -> {NoEvent} \cup EventRow]
    BY <1>4, <2>7 DEF Taking, AInv, AutomationTyped
  <2>9. EventsContinue
    BY <2>7 DEF EventsContinue, Continued, Unused, Raised
  <2>10. AutomationTyped'
    BY <1>1, <1>2, <2>5, <2>8 DEF AInv, AutomationTyped
  <2>11. KeysMakeOne'
    BY <1>1 DEF AInv, KeysMakeOne, Reached
  <2>12. CompletedNames'
    BY <1>1, <2>7 DEF AInv, CompletedNames, MadeFor, Raised
  <2>13. RunByTheLoop' /\ PollSound'
    BY <1>1 DEF RunByTheLoop, PollSound
  <2>14. CallOfConfig'
    BY <1>1, <2>5 DEF AInv, CallOfConfig, OfConfig, Saves
  <2>15. CursorBehindEvents'
    <3> SUFFICES ASSUME NEW i \in Items, loop.cursor[i] > 0
                 PROVE  \E e \in EventOf(i)' : event'[e].edition = loop.cursor[i]
      BY <2>4, <2>5 DEF CursorBehindEvents
    <3>1. CASE HasEvent(i, loop.cursor[i])
      <4>1. PICK e \in EventOf(i) : event[e].edition = loop.cursor[i]
        BY <3>1 DEF HasEvent
      <4> QED  BY <2>9, <4>1 DEF EventOf, EventsContinue, Continued, Raised
    <3>2. CASE loop.seen[i] = loop.cursor[i]
      <4>1. CASE EventOf(i) # {}
        <5>1. PICK e \in EventOf(i) : event[e].edition = loop.cursor[i]
          BY <1>4, <3>2, <4>1 DEF Conflicts
        <5> QED  BY <2>9, <5>1 DEF EventOf, EventsContinue, Continued, Raised
      <4>2. CASE EventOf(i) = {}
        <5>1. i \in NewItems
          BY <3>2, <4>2 DEF NewItems
        <5>2. PICK e \in Unused :
                event'[e] = Fresh("rss", loop.version, i, "download", loop.seen[i], loop.conn)
          BY <1>4, <5>1, EachItemTaken
        <5>3. e \in Events /\ event'[e].status = "pending" /\ event'[e].source = "rss"
              /\ event'[e].key = i /\ event'[e].edition = loop.seen[i]
          BY <2>6, <5>1, <5>2, ItemsFinite
        <5> QED  BY <3>2, <5>3 DEF EventOf, Raised
      <4> QED  BY <4>1, <4>2
    <3> QED  BY <1>1, <3>1, <3>2 DEF AInv, PollSound
  <2> QED  BY <2>10, <2>11, <2>12, <2>13, <2>14, <2>15 DEF AInv
<1> QED  BY <1>3, <1>4 DEF CommitPoll, Taking

LEMMA RestartKeepsAutomation == ASSUME DInv, AInv, RestartAll PROVE AInv'
<1>1. /\ loop' = Resting /\ webhook' = NoCall /\ UNCHANGED <<source, feed, madeFor>>
      /\ event' = [e \in Events |-> TakenBack(e)] \/ event' = event
  BY DEF RestartAll
<1>2. \A e \in Events :
        /\ event'[e] \in {NoEvent} \cup EventRow
        /\ Raised(e) => Continued(e)
        /\ event'[e] = event[e] \/ event'[e].status \in {"failed", "retry-wait"}
  <2> SUFFICES ASSUME NEW e \in Events
      PROVE  /\ event'[e] \in {NoEvent} \cup EventRow
             /\ Raised(e) => Continued(e)
             /\ event'[e] = event[e] \/ event'[e].status \in {"failed", "retry-wait"}
    OBVIOUS
  <2>1. CASE event'[e] = event[e]
    BY <2>1 DEF AInv, AutomationTyped, Raised, Continued
  <2>2. CASE event'[e] # event[e]
    <3> DEFINE status == IF event[e].attempts >= MaxAttempts THEN "failed" ELSE "retry-wait"
    <3>1. event[e].status = "running" /\ event'[e] = [event[e] EXCEPT !.status = status]
      BY <1>1, <2>2 DEF TakenBack
    <3>2. event[e] \in EventRow /\ status \in {"failed", "retry-wait"}
      BY <3>1, EventTyped DEF AInv, Raised
    <3> HIDE DEF status
    <3>3. /\ event'[e] \in EventRow /\ event'[e].status = status
          /\ event'[e].source = event[e].source /\ event'[e].key = event[e].key
          /\ event'[e].action = event[e].action /\ event'[e].edition = event[e].edition
      BY <3>1, <3>2 DEF EventRow, Active, Settled
    <3> QED  BY <3>2, <3>3 DEF Continued
  <2> QED  BY <2>1, <2>2
<1>3. event' \in [Events -> {NoEvent} \cup EventRow]
  BY <1>1, <1>2 DEF AInv, AutomationTyped
<1>4. AutomationTyped'
  BY <1>1, <1>3 DEF AInv, AutomationTyped, Resting, Between
<1>5. EventsContinue
  BY <1>2 DEF EventsContinue
<1>6. loop'.at \notin {"act", "settle", "fetch", "commit", "give up"}
  BY <1>1 DEF Resting
<1>7. CursorBehindEvents' /\ PollSound'
  BY <1>1, <1>5, <1>6, CursorsKept
<1>8. CallOfConfig' /\ RunByTheLoop'
  BY <1>1, <1>6 DEF CallOfConfig, RunByTheLoop
<1>9. KeysMakeOne'
  BY <1>1, RestartForgetsNone DEF AInv, KeysMakeOne, RowsStay
<1>10. CompletedNames'
  BY <1>1, <1>2 DEF AInv, CompletedNames, MadeFor, Raised
<1> QED  BY <1>4, <1>7, <1>8, <1>9, <1>10 DEF AInv

LEMMA LoopKeeps == ASSUME DInv, AInv, Loop PROVE DInv' /\ AInv'
<1>1. CASE ActDownload
  BY <1>1, ActDownloadKeeps
<1>2. CASE ~ActDownload
  <2>1. UNCHANGED <<download, conn, server, batch, probing>>
    BY <1>2 DEF Loop, ClaimCompletion, Dispatch, ClaimEvent, ActReconcile, Settle, ClaimFeed, Fetch,
                CommitPoll, FailPoll, KeepsDownloads
  <2>2. AInv'
    BY <1>2, ClaimCompletionKeeps, DispatchKeeps, ClaimEventKeeps, ActReconcileKeeps, SettleKeeps,
       ClaimFeedKeeps, FetchKeeps, CommitPollKeeps, FailPollKeeps DEF Loop
  <2> QED  BY <2>1, <2>2, OtherwiseKeeps
<1> QED  BY <1>1, <1>2

-----------------------------------------------------------------------------
(* Theorems.                                                                   *)

AcquisitionInvariant == DInv /\ AInv

LEMMA AcquisitionStep ==
    ASSUME AcquisitionInvariant, [AcquisitionNext]_acquisitionVars PROVE AcquisitionInvariant'
<1>1. DInv /\ AInv
  BY DEF AcquisitionInvariant
<1>2. CASE DownloadSide
  BY <1>1, <1>2, DownloadSideKeeps, DownloadSideForgetsNone, AutomationUnchanged
  DEF DownloadSide, AcquisitionInvariant
<1>3. CASE Sources
  BY <1>1, <1>3, SourcesKeep, SourcesKeepAutomation DEF AcquisitionInvariant
<1>4. CASE Loop
  BY <1>1, <1>4, LoopKeeps DEF AcquisitionInvariant
<1>5. CASE RestartAll
  BY <1>1, <1>5, RestartKeepsRows, RestartKeepsAutomation DEF AcquisitionInvariant
<1>6. CASE UNCHANGED acquisitionVars
  <2>1. UNCHANGED automationVars /\ UNCHANGED <<download, conn, server, batch, probing>>
    BY <1>6 DEF acquisitionVars, downloadVars
  <2> QED  BY <1>1, <2>1, OtherwiseKeeps, SameRowsStay, AutomationUnchanged DEF AcquisitionInvariant
<1> QED  BY <1>2, <1>3, <1>4, <1>5, <1>6 DEF AcquisitionNext

\* All of it holds of every step of the worker, of the loop, of requests and of restarts.
THEOREM AcquisitionHolds == AcquisitionSpec => []AcquisitionInvariant
<1>1. AcquisitionInit => AcquisitionInvariant
  BY DownloadsInitInv, AutomationInitInv DEF AcquisitionInit, AcquisitionInvariant
<1>2. AcquisitionInvariant /\ [AcquisitionNext]_acquisitionVars => AcquisitionInvariant'
  BY AcquisitionStep
<1> QED  BY <1>1, <1>2, PTL DEF AcquisitionSpec

\* What is stored of a connection was an answer to the configuration it has, however the reads of
\* the worker and of probes interleave with replacements.
THEOREM VerdictsFit == AcquisitionSpec => []VerdictFitsConfig
<1>1. AcquisitionInvariant => VerdictFitsConfig
  BY DEF AcquisitionInvariant, DInv
<1> QED  BY <1>1, AcquisitionHolds, PTL

\* A download is added once unless the downloader hid it, and given up for missing with a reason.
THEOREM EachAddedOnce == AcquisitionSpec => []AddedOnce
<1>1. AcquisitionInvariant => AddedOnce
  BY DEF AcquisitionInvariant, DInv, RowsExplained, Explained, AddedOnce
<1> QED  BY <1>1, AcquisitionHolds, PTL

\* What a feed lists is downloaded once: its event exists once its poll is recorded, and whatever
\* is retried, cancelled or lost, an event makes one download.
THEOREM FeedIsTakenOnce == AcquisitionSpec => []FeedTakenOnce
<1>1. AcquisitionInvariant => FeedTakenOnce
  <2> SUFFICES ASSUME AcquisitionInvariant PROVE FeedTakenOnce
    OBVIOUS
  <2>1. \A e \in Events : Cardinality(MadeFor(e)) <= 1
    <3> SUFFICES ASSUME NEW e \in Events PROVE Cardinality(MadeFor(e)) <= 1
      OBVIOUS
    <3>1. e # 0
      BY AutomationAssumption
    <3>2. MadeFor(e) = {} \/ \E d \in Downloads : MadeFor(e) = {d}
      BY <3>1 DEF AcquisitionInvariant, AInv, KeysMakeOne, MadeFor
    <3>3. CASE MadeFor(e) = {}
      BY <3>3, FS_EmptySet
    <3>4. ASSUME NEW d \in Downloads, MadeFor(e) = {d} PROVE Cardinality(MadeFor(e)) <= 1
      <4>1. Cardinality({d}) = 1
        BY FS_Singleton
      <4> QED  BY <3>4, <4>1
    <3> QED  BY <3>2, <3>3, <3>4
  <2>2. CompletedNames /\ CursorBehindEvents
    BY DEF AcquisitionInvariant, AInv
  <2> QED  BY <2>1, <2>2 DEF FeedTakenOnce, OneDownloadPerEvent, CompletedNames
<1> QED  BY <1>1, AcquisitionHolds, PTL

\* A step that raises an event does so under the configuration that is then in force.
RaisedRight ==
    \A e \in Events : ~Raised(e) /\ event'[e].status # "free" =>
        LET s == source[event'[e].source]
        IN  s.state = "saved" /\ s.enabled /\ s.version = event'[e].version /\ s.conn = event'[e].conn

LEMMA OneRaised ==
    ASSUME AInv, NEW e \in Unused, NEW row, event' = [event EXCEPT ![e] = row],
           LET s == source[row.source]
           IN  s.state = "saved" /\ s.enabled /\ s.version = row.version /\ s.conn = row.conn
    PROVE  RaisedRight
BY DEF AInv, AutomationTyped, RaisedRight, Unused, Raised

LEMMA NoneRaised ==
    ASSUME \A e \in Events : ~Raised(e) => event'[e] = event[e] PROVE RaisedRight
BY DEF RaisedRight, Raised

LEMMA AcceptCallRaisesRight == ASSUME AInv, AcceptCall PROVE RaisedRight
<1>1. CASE Acceptable
  <2> DEFINE row == Fresh("webhook", webhook.version, webhook.nonce, "download", 1, webhook.conn)
  <2>1. PICK e \in FirstUnused : event' = [event EXCEPT ![e] = row]
    BY <1>1 DEF AcceptCall
  <2>2. row.source = "webhook" /\ row.version = webhook.version /\ row.conn = webhook.conn
    BY DEF Fresh
  <2>3. /\ Saves("webhook") /\ source["webhook"].enabled
        /\ source["webhook"].version = webhook.version
    BY <1>1 DEF Acceptable
  <2>4. source["webhook"].conn = webhook.conn
    <3>1. webhook # NoCall
      BY DEF AcceptCall, NoCall
    <3> QED  BY <2>3, <3>1 DEF AInv, CallOfConfig, OfConfig
  <2> HIDE DEF row
  <2>5. e \in Unused
    BY DEF FirstUnused
  <2> QED  BY <2>1, <2>2, <2>3, <2>4, <2>5, OneRaised DEF Saves
<1>2. CASE ~Acceptable
  BY <1>2, NoneRaised DEF AcceptCall
<1> QED  BY <1>1, <1>2

LEMMA DispatchRaisesRight == ASSUME AInv, Dispatch PROVE RaisedRight
<1> DEFINE d == loop.download
           row == Fresh("completion", source["completion"].version, d, "reconcile", 1, download[d].conn)
<1>1. CASE Mapped(d)
  <2>1. PICK e \in FirstUnused : event' = [event EXCEPT ![e] = row]
    BY <1>1 DEF Dispatch
  <2>2. /\ row.source = "completion" /\ row.version = source["completion"].version
        /\ row.conn = download[d].conn
    BY DEF Fresh
  <2>3. e \in Unused
    BY DEF FirstUnused
  <2> HIDE DEF row
  <2> QED  BY <1>1, <2>1, <2>2, <2>3, OneRaised DEF Mapped, Saves
<1>2. CASE ~Mapped(d)
  BY <1>2, NoneRaised DEF Dispatch
<1> QED  BY <1>1, <1>2

LEMMA CommitPollRaisesRight == ASSUME AInv, CommitPoll PROVE RaisedRight
<1>1. CASE UNCHANGED event
  BY <1>1, NoneRaised
<1>2. CASE StillMine /\ Taking
  <2>1. /\ Saves("rss") /\ source["rss"].enabled /\ source["rss"].version = loop.version
        /\ source["rss"].conn = loop.conn
    BY <1>2 DEF StillMine, AInv, PollSound, OfConfig, CommitPoll
  <2> SUFFICES ASSUME NEW e \in Events, ~Raised(e), event'[e].status # "free"
               PROVE  LET s == source[event'[e].source]
                      IN  s.state = "saved" /\ s.enabled /\ s.version = event'[e].version
                          /\ s.conn = event'[e].conn
    BY DEF RaisedRight
  <2>2. PICK i \in NewItems :
          event'[e] = Fresh("rss", loop.version, i, "download", loop.seen[i], loop.conn)
    BY <1>2, TakingGives DEF Raised
  <2> QED  BY <2>1, <2>2 DEF Fresh, Saves
<1> QED  BY <1>1, <1>2 DEF CommitPoll, Taking

LEMMA OthersRaiseNone ==
    ASSUME AInv, NEW e \in Events, Raised(e), NEW row, event' = [event EXCEPT ![e] = row]
    PROVE  RaisedRight
BY NoneRaised DEF AInv, AutomationTyped

LEMMA CommandRaisesNone ==
    ASSUME AInv, NEW e \in Events, NEW op, NEW key, Command(e, op, key) PROVE RaisedRight
<1>1. Raised(e)
  BY DEF Command
<1>2. \/ event' = [event EXCEPT ![e] = [event[e] EXCEPT !.status = "cancelled"]]
      \/ event' = [event EXCEPT ![e] = [event[e] EXCEPT !.status = "pending", !.attempts = 0]]
  BY DEF Command
<1> QED  BY <1>1, <1>2, OthersRaiseNone

LEMMA LoopRaisesRight == ASSUME AInv, Loop PROVE RaisedRight
<1>1. CASE ClaimEvent
  <2>1. PICK ripe \in SUBSET {e \in Events : event[e].status = "retry-wait"} :
          IF Runnable(ripe) = {} THEN UNCHANGED event
          ELSE LET e == Oldest(Runnable(ripe)) IN
               event' = [event EXCEPT ![e].status = "running", ![e].attempts = @ + 1]
    BY <1>1 DEF ClaimEvent
  <2>2. CASE Runnable(ripe) = {}
    BY <2>1, <2>2, NoneRaised
  <2>3. CASE Runnable(ripe) # {}
    <3> DEFINE e == Oldest(Runnable(ripe))
               row == [event[e] EXCEPT !.status = "running", !.attempts = @ + 1]
    <3>1. e \in Runnable(ripe)
      <4>1. Runnable(ripe) \subseteq Events /\ Events \subseteq Nat
        BY AutomationAssumption DEF Runnable
      <4> QED  BY <2>3, <4>1, OldestIn
    <3>2. e \in Events /\ Raised(e)
      BY <3>1 DEF Runnable, Raised
    <3>3. event' = [event EXCEPT ![e] = row]
      BY <2>1, <2>3
    <3> HIDE DEF e, row
    <3> QED  BY <3>2, <3>3, OthersRaiseNone
  <2> QED  BY <2>2, <2>3
<1>2. CASE Settle
  <2> DEFINE e == loop.event
             retry == loop.result = "again" /\ event[e].attempts < MaxAttempts
             status == IF loop.result = "done" THEN "completed"
                       ELSE IF retry THEN "retry-wait" ELSE "failed"
             downstream == IF loop.result = "done" THEN loop.downstream ELSE event[e].downstream
             row == [event[e] EXCEPT !.status = status, !.downstream = downstream]
  <2>1. event' = [event EXCEPT ![e] = row] \/ UNCHANGED event
    BY <1>2 DEF Settle
  <2>2. e \in Events /\ Raised(e)
    BY <1>2 DEF Settle, AInv, AutomationTyped, RunByTheLoop, Between, Dispatching, Acting, Settling,
                Polling, Raised
  <2> HIDE DEF row, e
  <2> QED  BY <2>1, <2>2, OthersRaiseNone, NoneRaised
<1>3. CASE ClaimCompletion \/ ActDownload \/ ActReconcile \/ ClaimFeed \/ Fetch \/ FailPoll
  <2>1. UNCHANGED event
    BY <1>3 DEF ClaimCompletion, ActDownload, ActReconcile, ClaimFeed, Fetch, FailPoll
  <2> QED  BY <2>1, NoneRaised
<1> QED  BY <1>1, <1>2, <1>3, DispatchRaisesRight, CommitPollRaisesRight DEF Loop

LEMMA SourcesRaiseRight == ASSUME AInv, Sources PROVE RaisedRight
<1>1. CASE AcceptCall
  BY <1>1, AcceptCallRaisesRight
<1>2. ASSUME NEW e \in Events, NEW op, NEW key, Command(e, op, key) PROVE RaisedRight
  BY <1>2, CommandRaisesNone
<1>3. CASE UNCHANGED event
  BY <1>3, NoneRaised
<1> QED
  BY <1>1, <1>2, <1>3 DEF Sources, CreateSource, ReplaceSource, DeleteSource, RotateSecret, FeedChanges,
                          CheckCall

LEMMA StepRaisesRight ==
    ASSUME AcquisitionInvariant, [AcquisitionNext]_acquisitionVars PROVE RaisedRight
<1>1. AInv
  BY DEF AcquisitionInvariant
<1>2. CASE Sources
  BY <1>1, <1>2, SourcesRaiseRight
<1>3. CASE Loop
  BY <1>1, <1>3, LoopRaisesRight
<1>4. CASE UNCHANGED event
  BY <1>4, NoneRaised
<1>5. CASE RestartAll
  <2>1. \A e \in Events : ~Raised(e) => event'[e] = event[e]
    BY <1>5 DEF RestartAll, TakenBack, Raised
  <2> QED  BY <2>1, NoneRaised
<1> QED  BY <1>2, <1>3, <1>4, <1>5
  DEF AcquisitionNext, DownloadSide, automationVars, acquisitionVars

\* A poll and a signed call take time, and their source may be replaced or disabled meanwhile: an
\* event is only ever raised under the configuration that is then in force.
THEOREM EventsAreRaisedUnderTheirSource == AcquisitionSpec => RaisedUnderItsSource
<1>1. AcquisitionInvariant /\ [AcquisitionNext]_acquisitionVars => RaisedRight
  BY StepRaisesRight
<1>2. AcquisitionInvariant /\ [AcquisitionNext]_acquisitionVars => [RaisedRight]_acquisitionVars
  BY <1>1
<1>3. AcquisitionSpec => [][RaisedRight]_acquisitionVars
  BY <1>2, AcquisitionHolds, PTL DEF AcquisitionSpec
<1> QED  BY <1>3 DEF RaisedUnderItsSource, RaisedRight
=============================================================================
