------------------------------ MODULE WsProxy ------------------------------
(***************************************************************************)
(* One browser connection through the hub's NATS WebSocket proxy           *)
(* (createNatsWsProxyHandlers of src/server/server.ts).  With the server's *)
(* INFO cached, the upstream connection waits for the browser's first      *)
(* frame, which is its CONNECT.  The browser and the NATS server are       *)
(* external: each sends in order, the server's first frame is its INFO.    *)
(***************************************************************************)
EXTENDS Naturals, Sequences

CONSTANTS
    MaxFrames,      \* bound on the frames the browser sends
    BufferLimit     \* NATS_WS_PROXY_BUFFER_LIMIT

ASSUME WsProxyConstants == {MaxFrames, BufferLimit} \subseteq Nat \ {0}

VARIABLES
    browser,        \* its socket, the frames it sent, how many INFO it saw, other frames
    proxy,          \* ws.data: flags and buffer; whether an INFO is cached; drops
    upstream        \* the upstream socket and what passed through it

wsProxyVars == <<browser, proxy, upstream>>

NoUpstream == [socket |-> "none", received |-> <<>>, greeted |-> FALSE, replies |-> 0]

\* open(): the cached INFO is replayed, or the upstream is opened at once.
WsProxyInit ==
    \E lazy \in BOOLEAN :
        /\ browser = [open |-> TRUE, sent |-> 0, infos |-> IF lazy THEN 1 ELSE 0, replies |-> 0]
        /\ proxy = [awaitingHello |-> lazy, skipFirst |-> lazy, ready |-> FALSE,
                    buffer |-> <<>>, drops |-> 0]
        /\ upstream = IF lazy THEN NoUpstream ELSE [NoUpstream EXCEPT !.socket = "connecting"]

\* Fault seeded in Passes: what counts is the state of the upstream socket alone.
PassesOpened == upstream.socket \in {"opened", "open"}

\* A frame passes directly once the buffer was flushed.
Passes == proxy.ready /\ upstream.socket = "open"

\* Fault seeded in Buffered: the limit is not looked at.
BufferedAll(frame) == [proxy EXCEPT !.buffer = Append(@, frame)]

\* While the upstream opens frames are held; over the limit the oldest is dropped.
Buffered(frame) ==
    LET buffer == Append(proxy.buffer, frame)
    IN IF Len(buffer) > BufferLimit
       THEN [proxy EXCEPT !.buffer = Tail(buffer), !.drops = @ + 1]
       ELSE [proxy EXCEPT !.buffer = buffer]

\* message(): a frame of the browser; it speaks only after it has seen an INFO.
FrameSent ==
    /\ browser.open /\ browser.infos > 0 /\ browser.sent < MaxFrames
    /\ LET frame == browser.sent + 1
       IN /\ browser' = [browser EXCEPT !.sent = frame]
          /\ IF proxy.awaitingHello
             THEN /\ proxy' = [proxy EXCEPT !.awaitingHello = FALSE, !.buffer = Append(@, frame)]
                  /\ upstream' = [upstream EXCEPT !.socket = "connecting"]
             ELSE IF Passes
             THEN /\ upstream' = [upstream EXCEPT !.received = Append(@, frame)]
                  /\ UNCHANGED proxy
             ELSE proxy' = Buffered(frame) /\ UNCHANGED upstream

\* The upstream socket is open; its onopen has not run yet.
UpstreamAccepts ==
    /\ upstream.socket = "connecting"
    /\ upstream' = [upstream EXCEPT !.socket = "opened"]
    /\ UNCHANGED <<browser, proxy>>

\* onopen: the frames held are sent in their order.
UpstreamOpens ==
    /\ upstream.socket = "opened"
    /\ upstream' = IF browser.open
                   THEN [upstream EXCEPT !.socket = "open", !.received = @ \o proxy.buffer]
                   ELSE [upstream EXCEPT !.socket = "closed"]
    /\ proxy' = IF browser.open THEN [proxy EXCEPT !.ready = TRUE, !.buffer = <<>>] ELSE proxy
    /\ UNCHANGED browser

\* onmessage: the server greets with INFO, then answers frames (external); the first
\* frame is skipped where the INFO was replayed.
UpstreamSends ==
    /\ upstream.socket = "open" /\ browser.open
    /\ upstream.greeted => upstream.replies < Len(upstream.received)
    /\ upstream' = IF upstream.greeted THEN [upstream EXCEPT !.replies = @ + 1]
                                       ELSE [upstream EXCEPT !.greeted = TRUE]
    /\ proxy' = [proxy EXCEPT !.skipFirst = FALSE]
    /\ browser' = IF proxy.skipFirst THEN browser
                  ELSE IF upstream.greeted THEN [browser EXCEPT !.replies = @ + 1]
                  ELSE [browser EXCEPT !.infos = @ + 1]

\* onclose and onerror of the upstream close the browser's socket, and so on to close().
UpstreamCloses ==
    /\ upstream.socket \in {"connecting", "opened", "open"}
    /\ upstream' = [upstream EXCEPT !.socket = "closed"]
    /\ browser' = [browser EXCEPT !.open = FALSE]
    /\ proxy' = [proxy EXCEPT !.ready = FALSE, !.buffer = <<>>, !.awaitingHello = FALSE]

\* close(): the browser leaves.
BrowserCloses ==
    /\ browser.open
    /\ browser' = [browser EXCEPT !.open = FALSE]
    /\ proxy' = [proxy EXCEPT !.ready = FALSE, !.buffer = <<>>, !.awaitingHello = FALSE]
    /\ upstream' = IF upstream.socket = "none" THEN upstream
                   ELSE [upstream EXCEPT !.socket = "closed"]

WsProxyStep ==
    \/ FrameSent \/ UpstreamAccepts \/ UpstreamOpens \/ UpstreamSends
    \/ UpstreamCloses \/ BrowserCloses

WsProxySpec == WsProxyInit /\ [][WsProxyStep]_wsProxyVars

-----------------------------------------------------------------------------
(* Properties *)

\* The buffer never holds more than its limit.
WsProxyTypeOK ==
    /\ browser \in [open: BOOLEAN, sent: 0..MaxFrames, infos: Nat, replies: Nat]
    /\ proxy \in [awaitingHello: BOOLEAN, skipFirst: BOOLEAN, ready: BOOLEAN,
                  buffer: Seq(1..MaxFrames), drops: 0..MaxFrames]
    /\ Len(proxy.buffer) <= BufferLimit
    /\ upstream \in [socket: {"none", "connecting", "opened", "open", "closed"},
                     received: Seq(1..MaxFrames), greeted: BOOLEAN, replies: Nat]

\* The server hears the browser's frames in their order, and while the buffer did
\* not run over it hears every one from the first, its CONNECT, however the frames
\* fall around the moment the upstream opens.
FramesInOrder ==
    /\ \A i, j \in DOMAIN upstream.received :
            i < j => upstream.received[i] < upstream.received[j]
    /\ proxy.drops = 0 => \A i \in DOMAIN upstream.received : upstream.received[i] = i

\* A browser is greeted once, from the cache or by its own upstream, and misses no
\* answer of the server: the frame that is skipped is an INFO and never anything else.
GreetedOnce ==
    /\ browser.infos <= 1
    /\ browser.replies = upstream.replies
=============================================================================
