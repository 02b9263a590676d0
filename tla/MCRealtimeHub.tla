---------------------------- MODULE MCRealtimeHub ----------------------------
(* Constant values for RealtimeHub: an SSE client s and a WebSocket client w,  *)
(* one of which the events concern; four events before a restart, which are    *)
(* enough to fill both buffers and to evict, and one after it.                 *)
EXTENDS RealtimeHub

CONSTANTS s, w

OneOrOther == {{c} : c \in Clients}
Bursts == <<4, 1>>
=============================================================================
