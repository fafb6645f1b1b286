----------------------------- MODULE MCIOContext -----------------------------
(* An instance of IOContext for TLC. *)
EXTENDS IOContext

CONSTANTS blk, non, shr, lst, tmr

Ask(call, fd, len) == [call |-> call, fd |-> fd, len |-> len]

\* One operation at a time on the blocking socket blk, the non-blocking non, the
\* listener and the timer; several on the non-blocking shr.
Calls == <<{Ask("async_recv_all", blk, 2), Ask("async_send_all", non, 2)},
           {Ask("async_recv", shr, 1), Ask("async_send", shr, 2), Ask("async_wait", tmr, 0),
            Ask("async_accept", lst, 0)},
           {Ask("async_recv", shr, 1), Ask("async_send", shr, 2), Ask("async_wait", tmr, 0),
            Ask("async_accept", lst, 0)}>>
=============================================================================
