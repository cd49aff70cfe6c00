----------------------------- MODULE HttpRequest -----------------------------
(***************************************************************************)
(* The end-to-end tests' HTTP helpers (tests/framework/request.go): Get   *)
(* and Post build a request with a context that times out after          *)
(* `timeout` (makeRequest), send it with client.Do, and makeRequest's     *)
(* deferred cancel runs when it returns.  Get then reads the body.        *)
(* The server and the network are a process of their own that may stall  *)
(* at any point; the transport delivers response bytes only while the    *)
(* request's context is live, and a body Read after the context ended    *)
(* returns either bytes already buffered or the context's error: which   *)
(* one depends on a race inside net/http's transport.                    *)
(***************************************************************************)
EXTENDS Naturals

CONSTANTS
    Methods,      \* subset of {"GET", "POST"}
    BodyChunks    \* number of chunks the response body arrives in

VARIABLES
    method,       \* Get (GET) or Post (POST)
    pc,           \* client: "start" | "do" | "return" | "read" | "done"
    ctx,          \* "live" | "expired" (deadline) | "canceled" (cancel())
    srv,          \* the server's progress: "idle" | "headers" | "body"
    sent,         \* body chunks the transport has received
    eof,          \* the transport has seen the end of the body
    got,          \* body chunks Get has read (body.ReadFrom)
    err,          \* "none" | "badRequest" | "dial" | "deadline" | "canceled"
    hasResp       \* client.Do returned a response

vars == <<method, pc, ctx, srv, sent, eof, got, err, hasResp>>

Init ==
    /\ method \in Methods
    /\ pc = "start"
    /\ ctx = "live"
    /\ srv = "idle"
    /\ sent = 0
    /\ eof = FALSE
    /\ got = 0
    /\ err = "none"
    /\ hasResp = FALSE

CtxErr == IF ctx = "expired" THEN "deadline" ELSE "canceled"

\* context.WithTimeout; http.NewRequestWithContext fails on a malformed
\* URL or method, and makeRequest returns the error.
NewRequest ==
    /\ pc = "start"
    /\ \/ pc' = "do" /\ UNCHANGED err
       \/ pc' = "return" /\ err' = "badRequest"
    /\ UNCHANGED <<method, ctx, srv, sent, eof, got, hasResp>>

\* client.Do returns once the response headers arrived, or with the
\* context's error once it ended.
DoReturn ==
    /\ pc = "do"
    /\ \/ srv # "idle" /\ ctx = "live" /\ hasResp' = TRUE /\ UNCHANGED err
       \/ ctx # "live" /\ err' = CtxErr /\ UNCHANGED hasResp
    /\ pc' = "return"
    /\ UNCHANGED <<method, ctx, srv, sent, eof, got>>

\* client.Do fails with a dial or connection error: up to the network,
\* which need not ever fail.
DoFail ==
    /\ pc = "do" /\ ctx = "live"
    /\ err' = "dial"
    /\ pc' = "return"
    /\ UNCHANGED <<method, ctx, srv, sent, eof, got, hasResp>>

\* makeRequest returns; its deferred cancel() ends a still live context.
\* Get goes on to read the body; Post hands the response to its caller.
ReturnFromMakeRequest ==
    /\ pc = "return"
    /\ ctx' = IF ctx = "live" THEN "canceled" ELSE ctx
    /\ pc' = IF err = "none" /\ method = "GET" THEN "read" ELSE "done"
    /\ UNCHANGED <<method, srv, sent, eof, got, err, hasResp>>

\* The response headers reach the transport.
SendHeaders ==
    /\ srv = "idle" /\ ctx = "live"
    /\ srv' = "headers"
    /\ UNCHANGED <<method, pc, ctx, sent, eof, got, err, hasResp>>

\* A body chunk, and after the last one the end of the body, reach the
\* transport while the connection is still in use by the request.
SendBody ==
    /\ srv # "idle" /\ ctx = "live" /\ ~eof
    /\ srv' = "body"
    /\ IF sent < BodyChunks
       THEN sent' = sent + 1 /\ UNCHANGED eof
       ELSE eof' = TRUE /\ UNCHANGED sent
    /\ UNCHANGED <<method, pc, ctx, got, err, hasResp>>

\* Variant for mutation runs: a context without a deadline
\* (context.Background() passed on as is).
ExpireNever == FALSE

\* The timer of context.WithTimeout fires.
Expire ==
    /\ ctx = "live"
    /\ ctx' = "expired"
    /\ UNCHANGED <<method, pc, srv, sent, eof, got, err, hasResp>>

\* Variant for mutation runs: the end of the context is taken for the end
\* of the body.
ReadBodyCtxAsEOF ==
    /\ pc = "read"
    /\ \/ got < sent /\ got' = got + 1 /\ UNCHANGED <<pc, err>>
       \/ got = sent /\ (eof \/ ctx # "live") /\ pc' = "done" /\ UNCHANGED <<got, err>>
    /\ UNCHANGED <<method, ctx, srv, sent, eof, hasResp>>

\* One Read of body.ReadFrom: a buffered chunk; the end of the body; or,
\* once the context ended, its error, also when bytes were still buffered.
ReadBody ==
    /\ pc = "read"
    /\ \/ got < sent /\ got' = got + 1 /\ UNCHANGED <<pc, err>>
       \/ got = sent /\ eof /\ pc' = "done" /\ UNCHANGED <<got, err>>
       \/ ctx # "live" /\ ~(got = sent /\ eof)
          /\ err' = CtxErr /\ pc' = "done" /\ UNCHANGED got
    /\ UNCHANGED <<method, ctx, srv, sent, eof, hasResp>>

\* The client goroutine's steps other than a network failure.
Client == NewRequest \/ DoReturn \/ ReturnFromMakeRequest \/ ReadBody
Network == SendHeaders \/ SendBody \/ DoFail

Next == Client \/ Network \/ Expire

\* The client goroutine is scheduled fairly and the deadline timer fires;
\* the server may stall for good and the network need not fail.
Spec == Init /\ [][Next]_vars /\ WF_vars(Client) /\ WF_vars(Expire)

-----------------------------------------------------------------------------
(***************************************************************************)
(* GetReturnsWholeBody: Get returns no error only with the whole body     *)
(* read; a body cut short by the end of the context is an error.          *)
(***************************************************************************)
GetReturnsWholeBody ==
    (pc = "done" /\ method = "GET" /\ err = "none") => got = BodyChunks /\ eof

(***************************************************************************)
(* RequestsReturn: every Get and Post returns however the server stalls: *)
(* client.Do, waiting on a server that never answers, is ended only by    *)
(* the deadline of context.WithTimeout, and the body read by the context  *)
(* that the deferred cancel has ended by then.                            *)
(***************************************************************************)
RequestsReturn == <>(pc = "done")

(***************************************************************************)
(* NoCancelBeforeRead: a response that came back in time is never made    *)
(* unreadable by the helper's own cancel(): Get reports no "context       *)
(* canceled" error, and Post hands its caller the response while the      *)
(* request's context is still live, so the caller can read the body.      *)
(***************************************************************************)
NoCancelBeforeRead ==
    (pc = "done" /\ hasResp) =>
        IF method = "GET" THEN err # "canceled" ELSE ctx # "canceled"

=============================================================================
