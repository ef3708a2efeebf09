-------------------------- MODULE DownloaderClients -------------------------
(* One call of a downloader client: the requests it sends to a qBittorrent or *)
(* a Transmission, and the answers it may get. The downloader is outside: it  *)
(* may renew its session between any two requests, its answer may be lost or  *)
(* unreadable, and a qBittorrent may execute an add after the client has      *)
(* stopped waiting, or list a torrent some time after it took it.             *)
EXTENDS Naturals

CONSTANT Renewals   \* how often the downloader renews its session during one call

ASSUME ClientAssumption == Renewals \in Nat

VARIABLES
    peer,   \* the downloader
    call    \* the client's call

clientVars == <<peer, call>>

Operations == {"probe", "add", "fetch"}
Codecs == {"legacy", "json"}

\* A Transmission may protect itself with session ids, may tell its version with a refusal, and
\* speaks the codec of its version; a new one may understand the old codec too.
Transmissions ==
    [kind : {"transmission"}, speaks : Codecs, protected : BOOLEAN, hints : BOOLEAN, both : BOOLEAN,
     supported : BOOLEAN]

Qbittorrents ==
    [kind : {"qbittorrent"}, speaks : {"web"}, protected : {TRUE}, hints : {FALSE}, both : {FALSE},
     supported : BOOLEAN]

\* torrent says where the add is: "late", sent and not executed yet; "hidden", taken and not
\* listed under its tag; "listed".  taken counts the adds that were executed.
Untouched(p) == [of |-> p, session |-> 1, torrent |-> "none", taken |-> 0, renewed |-> 0]

Begun(p, op) == [at |-> "start", op |-> op, session |-> 0, codec |-> "none",
                 answer |-> "none", again |-> FALSE, faulty |-> FALSE]

ClientInit ==
    \E p \in Transmissions \cup Qbittorrents, op \in Operations :
        peer = Untouched(p) /\ call = Begun(p, op)

Ended(answer) == call' = [call EXCEPT !.at = "ended", !.answer = answer]
Goes(at) == call' = [call EXCEPT !.at = at, !.again = FALSE]

\* The answer does not tell what became of the request.
Fails(answer) == call' = [call EXCEPT !.at = "ended", !.answer = answer, !.faulty = TRUE]

\* The downloader restarts or forgets its sessions.
Renew ==
    /\ peer.renewed < Renewals /\ call.at # "ended"
    /\ peer' = [peer EXCEPT !.session = @ + 1, !.renewed = @ + 1]
    /\ UNCHANGED call

Taken(how) == [peer EXCEPT !.taken = @ + 1, !.torrent = how]

-----------------------------------------------------------------------------
(* Transmission: the session id comes with a 409, the codec with the version. *)

\* A request in a codec is understood.
Understood(codec) == codec = peer.of.speaks \/ (peer.of.both /\ codec = "legacy")

Accepts(session) == ~peer.of.protected \/ session = peer.session

\* Without a hint the version is looked up in the old codec, then in the new one; the codec that
\* the version calls for has to be the one that was spoken.
Negotiated(codec) ==
    IF ~Understood(codec) THEN Ended("invalid")
    ELSE IF ~peer.of.supported THEN Ended("unsupported")
    ELSE IF codec # peer.of.speaks THEN Ended("invalid")
    ELSE call' = [call EXCEPT !.at = IF call.op = "probe" THEN "ended" ELSE "act",
                              !.answer = IF call.op = "probe" THEN "done" ELSE @,
                              !.codec = codec, !.again = FALSE]

Hello ==
    /\ call.at = "start" /\ peer.of.kind = "transmission"
    /\ IF peer.of.protected
       THEN IF peer.of.hints /\ ~peer.of.supported THEN Ended("unsupported")
            ELSE call' = [call EXCEPT !.at = "info", !.session = peer.session,
                                      !.codec = IF peer.of.hints THEN peer.of.speaks ELSE "legacy"]
       ELSE Negotiated("legacy")
    /\ UNCHANGED peer

\* A request with a session that is no longer known was not executed: it is sent once more with
\* the session that the refusal names.
Refused ==
    IF call.again THEN Ended("invalid")
    ELSE call' = [call EXCEPT !.session = peer.session, !.again = TRUE]

AskInfo ==
    /\ call.at = "info"
    /\ IF Accepts(call.session) THEN Negotiated(call.codec) ELSE Refused
    /\ UNCHANGED peer

\* (Mutant: what was not answered is sent again.)
LostResent == call' = [call EXCEPT !.again = TRUE, !.faulty = TRUE]

LostAnswer == \E answer \in {"timeout", "unavailable"} : Fails(answer)

Act ==
    /\ call.at = "act" /\ peer.of.kind = "transmission"
    /\ IF ~Accepts(call.session) THEN Refused /\ UNCHANGED peer
       ELSE IF call.op = "add"
            THEN \/ peer' = Taken("listed") /\ (Ended("done") \/ LostAnswer \/ Fails("invalid"))
                 \/ Ended("invalid") /\ UNCHANGED peer
            ELSE Ended("done") /\ UNCHANGED peer

-----------------------------------------------------------------------------
(* qBittorrent: a cookie from a login; an add is confirmed by a query by tag. *)

LogIn ==
    /\ call.at = "start" /\ peer.of.kind = "qbittorrent"
    /\ call' = [call EXCEPT !.session = peer.session,
                    !.at = CASE call.op = "probe" -> "version"
                             [] call.op = "add" -> "tags"
                             [] call.op = "fetch" -> "query"]
    /\ UNCHANGED peer

\* A cookie that is no longer known is a refusal of the credentials.
Cookie == call.session = peer.session

ReadVersion ==
    /\ call.at = "version"
    /\ Ended(IF ~Cookie THEN "unauthorized" ELSE IF peer.of.supported THEN "done" ELSE "unsupported")
    /\ UNCHANGED peer

CreateTags ==
    /\ call.at = "tags"
    /\ IF Cookie THEN Goes("add") \/ Ended("invalid") ELSE Ended("unauthorized")
    /\ UNCHANGED peer

\* An accepting answer may say that the torrent is only pending, or nothing of it at all.
Accepted == \E how \in {"hidden", "listed"} : peer' = Taken(how)

\* An answer that accepts the torrent, or none within the time: the query by tag has the last
\* word.  Any other answer ends the call, be it a refusal or one that cannot be read.
AddTorrent ==
    /\ call.at = "add"
    /\ \/ ~Cookie /\ Ended("unauthorized") /\ UNCHANGED peer
       \/ Cookie /\ Goes("query") /\ Accepted
       \/ Cookie /\ Ended("invalid") /\ UNCHANGED peer
       \/ Cookie /\ Fails("invalid") /\ Accepted
       \/ /\ call' = [call EXCEPT !.at = "query", !.faulty = TRUE]
          /\ \/ UNCHANGED peer
             \/ peer' = [peer EXCEPT !.torrent = "late"]
             \/ Cookie /\ Accepted

\* A late add is executed, unless its session is forgotten by then.
Arrives ==
    /\ peer.torrent = "late"
    /\ IF Cookie THEN Accepted ELSE peer' = [peer EXCEPT !.torrent = "none"]
    /\ UNCHANGED call

\* A pending torrent is listed, or given up (its metadata cannot be had).
TorrentListed ==
    /\ peer.torrent = "hidden"
    /\ \E how \in {"listed", "none"} : peer' = [peer EXCEPT !.torrent = how]
    /\ UNCHANGED call

\* An empty list is RemoteMissing, whatever the answer to the add was.
Confirmed == IF peer.torrent = "listed" THEN "done" ELSE "missing"

QueryTag ==
    /\ call.at = "query"
    /\ Ended(IF ~Cookie THEN "unauthorized"
             ELSE IF call.op = "add" THEN Confirmed ELSE "done")
    /\ UNCHANGED peer

\* A request that never arrives, or an answer that is lost or unreadable, when nothing was asked
\* to change.
LoseRequest ==
    /\ call.at \notin {"ended", "add"}
    /\ LostAnswer \/ Fails("invalid")
    /\ UNCHANGED peer

ClientNext ==
    \/ Hello \/ AskInfo \/ Act \/ LogIn \/ ReadVersion \/ CreateTags \/ AddTorrent \/ QueryTag
    \/ LoseRequest \/ Renew \/ Arrives \/ TorrentListed

ClientSpec == ClientInit /\ [][ClientNext]_clientVars

-----------------------------------------------------------------------------
(* Properties. *)

\* What a caller may conclude from the answer to an add, and no more: a torrent said to be added
\* is listed; one said to be missing, when nothing was lost, was taken and only was not listed;
\* after a refusal that could be read nothing was taken, and will not be later.  However often
\* its requests were sent again, and however late one arrived, the torrent was taken once.
CallTellsTruth ==
    call.op = "add" =>
        /\ call.answer = "done" => peer.torrent = "listed"
        /\ call.answer = "missing" /\ ~call.faulty => peer.taken = 1
        /\ call.answer \in {"invalid", "unsupported"} /\ ~call.faulty =>
                peer.taken = 0 /\ peer.torrent = "none"
        /\ peer.taken <= 1

=============================================================================
