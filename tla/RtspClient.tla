----------------------------- MODULE RtspClient -----------------------------
(***************************************************************************)
(* The RTSP backchannel client of one call (internal/rtsp/client.go): the  *)
(* requests that open and tear down the session, the keep-alive with its   *)
(* own requests, the sender reports and the reader.                        *)
(*                                                                         *)
(* Requests are matched by CSeq, which is never used twice, so a late      *)
(* answer finds nobody and is left out.  A write has no deadline: while a  *)
(* camera that has stopped reading keeps the connection, it blocks.        *)
(***************************************************************************)
EXTENDS Naturals, FiniteSets

CONSTANTS MaxAuthRetries,    \* maxAuthRetries of do
          MaxFailures        \* failed keep-alives that end the connection

ASSUME RtspAssumption == MaxAuthRetries \in Nat /\ MaxFailures \in Nat \ {0}

\* Who asks: the session's own requests, and the keep-alive's.
Askers == {"session", "keep"}
Methods == {"DESCRIBE", "SETUP", "PLAY", "TEARDOWN", "GET_PARAMETER", "OPTIONS"}

VARIABLE rt                  \* the Client

NoRequest == [stage |-> "idle", method |-> "DESCRIBE", tries |-> 0, box |-> "none"]
NewRtsp == [link |-> "none", stalled |-> FALSE, loops |-> {}, failures |-> 0, req |-> [a \in Askers |-> NoRequest]]

RtTypeOK ==
    rt \in [link : {"none", "open", "lost", "closed"}, stalled : BOOLEAN,
            loops : SUBSET {"read", "keep", "report"},
            failures : 0..MaxFailures,
            req : [Askers -> [stage : {"idle", "write", "wait", "failed"}, method : Methods,
                              tries : 0..MaxAuthRetries,
                              box : {"none", "ok", "auth", "refused"}]]]
-----------------------------------------------------------------------------
Connected == [NewRtsp EXCEPT !.link = "open", !.loops = {"read"}]

\* do begins; a request that answers a challenge begins likewise.
Requesting(r, a, method) ==
    [r EXCEPT !.req[a] = [NoRequest EXCEPT !.stage = "write", !.method = method]]

\* How do ends.  Unlike a Baichuan request's, its context may win against an
\* answer that is already there.
Results(a) ==
    LET q == rt.req[a]
    IN CASE q.stage = "failed" -> {"none"}
         [] q.stage = "wait" /\ q.box # "auth" -> {"none", q.box}
         [] q.stage = "wait" /\ q.box = "auth" /\ q.tries < MaxAuthRetries -> {"none"}
         [] q.stage = "wait" /\ q.box = "auth" /\ q.tries = MaxAuthRetries -> {"none", "refused"}
         [] OTHER -> {}

Finished(r, a) == [r EXCEPT !.req[a] = NoRequest]

\* Close.
CloseRtsp(r) == [r EXCEPT !.link = "closed"]

\* The write of a frame or a request returns, without error.
Writable == rt.link = "open" /\ ~rt.stalled
WriteError == rt.link # "open"
-----------------------------------------------------------------------------
\* doOnce writes the request.
RtWrite(a) ==
    /\ rt.req[a].stage = "write"
    /\ \/ Writable /\ rt' = [rt EXCEPT !.req[a].stage = "wait"]
       \/ WriteError /\ rt' = [rt EXCEPT !.req[a].stage = "failed"]

\* readLoop: an answer.
RtRead(a) ==
    /\ "read" \in rt.loops /\ rt.link \in {"open", "lost"}
    /\ rt.req[a].stage = "wait" /\ rt.req[a].box = "none"
    /\ \E code \in {"ok", "auth", "refused"} : rt' = [rt EXCEPT !.req[a].box = code]

\* do answers a challenge.
RtAuth(a) ==
    /\ rt.req[a].stage = "wait" /\ rt.req[a].box = "auth"
    /\ rt.req[a].tries < MaxAuthRetries
    /\ rt' = [rt EXCEPT !.req[a].stage = "write", !.req[a].tries = @ + 1, !.req[a].box = "none"]

\* readLoop ends with signalReadErr.
RtReadEnds ==
    /\ "read" \in rt.loops /\ rt.link # "open"
    /\ rt' = [CloseRtsp(rt) EXCEPT !.loops = @ \ {"read"}]

\* keepalive: every few seconds GET_PARAMETER, and OPTIONS if that fails.
KeepTick ==
    /\ "keep" \in rt.loops /\ rt.req["keep"].stage = "idle"
    /\ rt' = Requesting(rt, "keep", "GET_PARAMETER")

KeepResult ==
    \E code \in Results("keep") :
        rt' = CASE code = "ok" -> [Finished(rt, "keep") EXCEPT !.failures = 0]
                [] code # "ok" /\ rt.req["keep"].method = "GET_PARAMETER" ->
                        Requesting(rt, "keep", "OPTIONS")
                [] code # "ok" /\ rt.req["keep"].method = "OPTIONS" /\ rt.failures + 1 < MaxFailures ->
                        [Finished(rt, "keep") EXCEPT !.failures = @ + 1]
                [] OTHER -> [CloseRtsp(Finished(rt, "keep")) EXCEPT !.failures = MaxFailures,
                                                                    !.loops = @ \ {"keep"}]

\* keepalive and senderReports return when the context or the connection ends.
KeepEnds(canceled) ==
    /\ "keep" \in rt.loops /\ rt.req["keep"].stage = "idle"
    /\ canceled \/ rt.link = "closed"
    /\ rt' = [rt EXCEPT !.loops = @ \ {"keep"}]

ReportEnds(canceled) ==
    /\ "report" \in rt.loops /\ (canceled \/ rt.link = "closed")
    /\ rt' = [rt EXCEPT !.loops = @ \ {"report"}]

\* senderReports: a report cannot be written.
ReportFails ==
    /\ "report" \in rt.loops /\ WriteError
    /\ rt' = [CloseRtsp(rt) EXCEPT !.loops = @ \ {"report"}]

\* The camera closes the connection, or stops reading it.
RtPeerCloses == rt.link = "open" /\ rt' = [rt EXCEPT !.link = "lost"]
RtPeerStalls == rt.link = "open" /\ ~rt.stalled /\ rt' = [rt EXCEPT !.stalled = TRUE]

\* The steps that a running client takes without being asked.
RtGoesOn(canceled) ==
    \/ \E a \in Askers : RtWrite(a)
    \/ RtReadEnds \/ KeepResult \/ ReportEnds(canceled)

RtStep(canceled) ==
    \/ RtGoesOn(canceled) \/ KeepEnds(canceled)
    \/ \E a \in Askers : RtRead(a) \/ RtAuth(a)
    \/ KeepTick \/ ReportFails \/ RtPeerCloses \/ RtPeerStalls
=============================================================================
