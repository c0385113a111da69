------------------------------ MODULE Listener ------------------------------
(***************************************************************************)
(* How the doorway takes connections (doorway/): a TCP listener and a      *)
(* tunnel to the fabrics, which is dialled again whenever it is lost       *)
(* (reconnectListener), merged into one listener (tunnelListener), whose   *)
(* connections the TLS proxy looks at and drops, forwards or hands to the  *)
(* https server; and how all of it ends when serve is cancelled or fails.  *)
(*                                                                         *)
(* One variable per goroutine; channels are unbuffered, so a send and its  *)
(* receive are one step.  No name is one of Doorway, so that one module    *)
(* can prove about both.                                                   *)
(***************************************************************************)
EXTENDS Naturals

CONSTANTS
    Conn,           \* connections that clients make
    MaxLosses       \* bound on lost sessions, failed dials, failed accepts

ASSUME ListenerAssumption == MaxLosses \in Nat

VARIABLES
    proxied,    \* the config has a TLS proxy
    at,         \* where each connection is
    tcpOpen,    \* the TCP listener
    session,    \* the tunnel: a session with the fabrics is open
    rl,         \* reconnectListener.bg
    tcpbg,      \* tunnelListener.bg of the TCP listener, and
    fabbg,      \* of the tunnel
    srv,        \* serve: the accept loop of the https server, then its defers
    closer,     \* tunnelListener.doClose
    rlClosed,   \* reconnectListener.closed is closed
    lisClosed,  \* tunnelListener.closed is closed
    cancelled,  \* the context of serve is cancelled
    losses

serveVars == <<proxied, at, tcpOpen, session, rl, tcpbg, fabbg, srv, closer, rlClosed,
               lisClosed, cancelled, losses>>

\* new; backlog of TCP or of the session; held by a goroutine, which for "dial" and
\* "joined" is one of its own; or its end.
Place == {"new", "tcpq", "fabq", "rl", "tcpbg", "fabbg", "hello", "dial", "joined",
          "served", "forwarded", "closed", "reset", "open", "lost"}

ServeInit ==
    /\ proxied \in BOOLEAN
    /\ at = [c \in Conn |-> "new"]
    /\ tcpOpen = TRUE /\ session = TRUE
    /\ rl = "accept" /\ tcpbg = "accept" /\ fabbg = "accept" /\ srv = "accept"
    /\ closer = "idle" /\ rlClosed = FALSE /\ lisClosed = FALSE
    /\ cancelled = FALSE /\ losses = 0

Move(from, to) == at' = [c \in Conn |-> IF at[c] = from THEN to ELSE at[c]]
Take(from, to) == \E c \in Conn : at[c] = from /\ at' = [at EXCEPT ![c] = to]

-----------------------------------------------------------------------------
(* Clients, the network, and whoever runs serve. *)

Connect ==
    /\ \/ tcpOpen /\ Take("new", "tcpq")
       \/ session /\ Take("new", "fabq")
    /\ UNCHANGED <<proxied, tcpOpen, session, rl, tcpbg, fabbg, srv, closer, rlClosed,
                   lisClosed, cancelled, losses>>

\* The session is lost with what it has not yet handed over.
LoseSession ==
    /\ session /\ losses < MaxLosses
    /\ losses' = losses + 1
    /\ session' = FALSE /\ Move("fabq", "reset")
    /\ UNCHANGED <<proxied, tcpOpen, rl, tcpbg, fabbg, srv, closer, rlClosed, lisClosed,
                   cancelled>>

Cancel ==
    /\ cancelled' = TRUE
    /\ UNCHANGED <<proxied, at, tcpOpen, session, rl, tcpbg, fabbg, srv, closer, rlClosed,
                   lisClosed, losses>>

-----------------------------------------------------------------------------
(* reconnectListener. *)

\* Mutant: a connection that is on its way is given up when its session is lost.
bgAcceptDropping ==
    /\ \/ rl = "accept" /\ ~ rlClosed /\ session /\ Take("fabq", "rl") /\ rl' = "send"
          /\ UNCHANGED <<session, fabbg>>
       \/ rl = "send" /\ fabbg = "accept" /\ Move("rl", "fabbg")
          /\ rl' = "accept" /\ fabbg' = "send" /\ UNCHANGED session
       \/ rl = "send" /\ (rlClosed \/ ~ session)
          /\ at' = [c \in Conn |-> IF at[c] = "rl" THEN "lost"
                                   ELSE IF at[c] = "fabq" THEN "reset" ELSE at[c]]
          /\ session' = FALSE /\ rl' = "sleep" /\ UNCHANGED fabbg
       \/ rl = "accept" /\ (rlClosed \/ ~ session) /\ Move("fabq", "reset")
          /\ session' = FALSE /\ rl' = "sleep" /\ UNCHANGED fabbg
    /\ UNCHANGED <<proxied, tcpOpen, tcpbg, srv, closer, rlClosed, lisClosed, cancelled,
                   losses>>

\* Take a connection of the session and offer it; leave when the session is lost,
\* or the listener is closed: a goroutine of its own then closes the session, so
\* that the accept returns.
bgAccept ==
    /\ \/ rl = "accept" /\ ~ rlClosed /\ session /\ Take("fabq", "rl") /\ rl' = "send"
          /\ UNCHANGED <<session, fabbg>>
       \/ rl = "send" /\ fabbg = "accept" /\ Move("rl", "fabbg")
          /\ rl' = "accept" /\ fabbg' = "send" /\ UNCHANGED session
       \/ rl = "send" /\ rlClosed
          /\ at' = [c \in Conn |-> IF at[c] = "rl" THEN "lost"
                                   ELSE IF at[c] = "fabq" THEN "reset" ELSE at[c]]
          /\ session' = FALSE /\ rl' = "sleep" /\ UNCHANGED fabbg
       \/ rl = "accept" /\ (rlClosed \/ ~ session) /\ Move("fabq", "reset")
          /\ session' = FALSE /\ rl' = "sleep" /\ UNCHANGED fabbg
    /\ UNCHANGED <<proxied, tcpOpen, tcpbg, srv, closer, rlClosed, lisClosed, cancelled,
                   losses>>

\* Sleep, unless closed, and dial again.
bg ==
    /\ \/ rl = "sleep" /\ rl' = (IF rlClosed THEN "done" ELSE "dial")
          /\ UNCHANGED <<session, losses>>
       \/ rl = "dial" /\ session' = TRUE /\ rl' = "accept" /\ UNCHANGED losses
       \/ rl = "dial" /\ losses < MaxLosses /\ losses' = losses + 1
          /\ rl' = "sleep" /\ UNCHANGED session
    /\ UNCHANGED <<proxied, at, tcpOpen, tcpbg, fabbg, srv, closer, rlClosed, lisClosed,
                   cancelled>>

-----------------------------------------------------------------------------
(* tunnelListener: the TCP goroutine, then that of the tunnel. *)

\* Mutant: it accepts the next one while it still has one to hand over.
acceptAhead ==
    /\ tcpbg \in {"accept", "send"}
    /\ \/ Take("tcpq", "tcpbg") /\ tcpbg' = "send"
       \/ ~ tcpOpen /\ tcpbg' = "err" /\ UNCHANGED at
    /\ UNCHANGED <<proxied, tcpOpen, session, rl, fabbg, srv, closer, rlClosed, lisClosed,
                   cancelled, losses>>

\* An accept that fails, for now or for good, is reported once and ends the
\* goroutine: "temp" when the https server may try again.
tcpAccept ==
    /\ tcpbg = "accept"
    /\ \/ Take("tcpq", "tcpbg") /\ tcpbg' = "send" /\ UNCHANGED losses
       \/ ~ tcpOpen /\ tcpbg' = "err" /\ UNCHANGED <<at, losses>>
       \/ tcpOpen /\ losses < MaxLosses /\ losses' = losses + 1
          /\ tcpbg' \in {"temp", "err"} /\ UNCHANGED at
    /\ UNCHANGED <<proxied, tcpOpen, session, rl, fabbg, srv, closer, rlClosed, lisClosed,
                   cancelled>>

fabAccept ==
    /\ fabbg = "accept" /\ rlClosed
    /\ fabbg' = "err"
    /\ UNCHANGED <<proxied, at, tcpOpen, session, rl, tcpbg, srv, closer, rlClosed,
                   lisClosed, cancelled, losses>>

\* Mutant: an error is sent whether or not anybody still takes it.
bgSendOnly(g, held, g2) ==
    \/ g = "send" /\ srv = "accept"
       /\ Move(held, "hello") /\ srv' = "hello" /\ g2 = "accept"
    \/ g = "err" /\ srv = "accept" /\ srv' = "failed" /\ g2 = "done" /\ UNCHANGED at
    \/ g = "temp" /\ srv = "accept" /\ g2 = "done" /\ UNCHANGED <<srv, at>>
    \/ g = "send" /\ lisClosed /\ Move(held, "lost") /\ g2 = "done" /\ UNCHANGED srv

\* Hand over what there is, a connection or an error, to an acceptTag that waits;
\* or leave when the listener is closed, with the connection in hand.
bgSend(g, held, g2) ==
    \/ g = "send" /\ srv = "accept"
       /\ Move(held, "hello") /\ srv' = "hello" /\ g2 = "accept"
    \/ g = "err" /\ srv = "accept" /\ srv' = "failed" /\ g2 = "done" /\ UNCHANGED at
    \/ g = "temp" /\ srv = "accept" /\ g2 = "done" /\ UNCHANGED <<srv, at>>
    \/ g \in {"send", "err", "temp"} /\ lisClosed
       /\ Move(held, "lost") /\ g2 = "done" /\ UNCHANGED srv

tcpSend ==
    /\ bgSend(tcpbg, "tcpbg", tcpbg')
    /\ UNCHANGED <<proxied, tcpOpen, session, rl, fabbg, closer, rlClosed, lisClosed,
                   cancelled, losses>>

fabSend ==
    /\ bgSend(fabbg, "fabbg", fabbg')
    /\ UNCHANGED <<proxied, tcpOpen, session, rl, tcpbg, closer, rlClosed, lisClosed,
                   cancelled, losses>>

\* The https server closes its listener once, when it is cancelled or its accept
\* has failed: the TCP listener, the tunnel, the channel, then wait for both
\* goroutines.
doClose ==
    /\ \/ closer = "idle" /\ (cancelled \/ srv = "failed") /\ closer' = "tunnel"
          /\ tcpOpen' = FALSE /\ Move("tcpq", "reset") /\ UNCHANGED <<rlClosed, lisClosed>>
       \/ closer = "tunnel" /\ closer' = "chan"
          /\ rlClosed' = TRUE /\ UNCHANGED <<tcpOpen, at, lisClosed>>
       \/ closer = "chan" /\ closer' = "wait"
          /\ lisClosed' = TRUE /\ UNCHANGED <<tcpOpen, at, rlClosed>>
       \/ closer = "wait" /\ tcpbg = "done" /\ fabbg = "done" /\ closer' = "done"
          /\ UNCHANGED <<tcpOpen, at, rlClosed, lisClosed>>
    /\ UNCHANGED <<proxied, session, rl, tcpbg, fabbg, srv, cancelled, losses>>

-----------------------------------------------------------------------------
(* tlsProxy.Accept, and serve. *)

acceptTag ==
    /\ srv = "accept" /\ lisClosed
    /\ srv' = "failed"
    /\ UNCHANGED <<proxied, at, tcpOpen, session, rl, tcpbg, fabbg, closer, rlClosed,
                   lisClosed, cancelled, losses>>

\* The TLS proxy reads the client's greeting inside the accept loop, and waits for
\* it as long as the client says nothing and does not leave.
HelloInfo ==
    /\ proxied /\ srv = "hello" /\ srv' = "greeted"
    /\ UNCHANGED <<proxied, at, tcpOpen, session, rl, tcpbg, fabbg, closer, rlClosed,
                   lisClosed, cancelled, losses>>

\* Mutant: a connection is forwarded by the accept loop itself.
acceptForwards ==
    /\ srv = (IF proxied THEN "greeted" ELSE "hello")
    /\ \E end \in IF proxied THEN {"served", "closed", "joined"} ELSE {"served"} :
          /\ Move("hello", end)
          /\ srv' = IF end = "joined" THEN "forwards" ELSE "accept"
    /\ UNCHANGED <<proxied, tcpOpen, session, rl, tcpbg, fabbg, closer, rlClosed,
                   lisClosed, cancelled, losses>>

\* What is no TLS, or not allowed from the fabrics, is closed; what is to be
\* forwarded goes to a goroutine of its own; the rest is served.  Without a TLS
\* proxy all is served, and nobody waits for a greeting here.
Accept ==
    /\ srv = (IF proxied THEN "greeted" ELSE "hello")
    /\ \E end \in IF proxied THEN {"served", "closed", "dial"} ELSE {"served"} :
          Move("hello", end)
    /\ srv' = "accept"
    /\ UNCHANGED <<proxied, tcpOpen, session, rl, tcpbg, fabbg, closer, rlClosed,
                   lisClosed, cancelled, losses>>

\* Dial the other end; if that does not answer, the connection is left open; else
\* join the two, until the proxy is closed, the first thing a close does.
forwardTCPConn ==
    /\ \/ Take("dial", "joined")
       \/ Take("dial", "open")
       \/ closer # "idle" /\ Take("joined", "forwarded")
    /\ UNCHANGED <<proxied, tcpOpen, session, rl, tcpbg, fabbg, srv, closer, rlClosed,
                   lisClosed, cancelled, losses>>

\* One end of what is joined leaves.
Leave ==
    /\ Take("joined", "forwarded")
    /\ UNCHANGED <<proxied, tcpOpen, session, rl, tcpbg, fabbg, srv, closer, rlClosed,
                   lisClosed, cancelled, losses>>

\* The https server returns when its listener is closed; then serve closes it once
\* more, and a TLS proxy can not be closed twice.
serveReturn ==
    /\ srv = "failed" /\ closer = "done"
    /\ srv' = (IF proxied THEN "panicked" ELSE "returned")
    /\ cancelled' = TRUE
    /\ UNCHANGED <<proxied, at, tcpOpen, session, rl, tcpbg, fabbg, closer, rlClosed,
                   lisClosed, losses>>

-----------------------------------------------------------------------------
ServeNext ==
    \/ Connect \/ HelloInfo \/ Leave \/ LoseSession \/ Cancel
    \/ bgAccept \/ bg \/ tcpAccept \/ fabAccept \/ tcpSend \/ fabSend \/ doClose
    \/ acceptTag \/ Accept \/ forwardTCPConn \/ serveReturn

\* Every goroutine that can go on does.  Clients (HelloInfo among what they do), the
\* network and whoever cancels need not; a dial ends by itself, one way or the other.
ServeFairness ==
    /\ WF_serveVars(bgAccept) /\ WF_serveVars(bg)
    /\ WF_serveVars(tcpAccept) /\ WF_serveVars(fabAccept)
    /\ SF_serveVars(tcpSend) /\ SF_serveVars(fabSend)
    /\ WF_serveVars(doClose) /\ WF_serveVars(acceptTag)
    /\ WF_serveVars(Accept) /\ WF_serveVars(forwardTCPConn) /\ WF_serveVars(serveReturn)

ServeSpec == ServeInit /\ [][ServeNext]_serveVars /\ ServeFairness
-----------------------------------------------------------------------------
(* Properties. *)

Holds(p, busy) == \A c, d \in Conn : at[c] = p => busy /\ (at[d] = p => c = d)

\* A goroutine holds one connection exactly when it is about to hand it over, and
\* no connection is in two hands.
ServeTypeOK ==
    /\ proxied \in BOOLEAN /\ at \in [Conn -> Place]
    /\ tcpOpen \in BOOLEAN /\ session \in BOOLEAN
    /\ rl \in {"accept", "send", "sleep", "dial", "done"}
    /\ tcpbg \in {"accept", "send", "err", "temp", "done"}
    /\ fabbg \in {"accept", "send", "err", "done"}
    /\ srv \in {"accept", "hello", "greeted", "failed", "returned", "panicked"}
    /\ closer \in {"idle", "tunnel", "chan", "wait", "done"}
    /\ rlClosed \in BOOLEAN /\ lisClosed \in BOOLEAN /\ cancelled \in BOOLEAN
    /\ losses \in 0 .. MaxLosses
    /\ Holds("rl", rl = "send") /\ Holds("tcpbg", tcpbg = "send")
    /\ Holds("fabbg", fabbg = "send") /\ Holds("hello", srv \in {"hello", "greeted"})

\* A connection that was taken from the network reaches the https server, or the
\* TLS proxy ends it, unless the doorway is closing: a lost session and all the
\* reconnecting does not drop one that has been handed over already
\* (reconnect_listener.go:140-144, tunnel_listener.go:66-70).
NoneDropped == \A c \in Conn : at[c] = "lost" => closer # "idle"

\* A connection to the TCP port is taken, as long as the doorway serves, unless an
\* accept has failed (the goroutine is gone then, though the https server goes on:
\* tunnel_listener.go:62-63) or a client that says nothing keeps the accept loop
\* for good (tls_proxy.go:110).  Nothing else stops it: no lost session, no tunnel
\* that takes turns with it on the channel, nothing that is being forwarded.
TCPTaken ==
    \A c \in Conn : at[c] = "tcpq" ~>
        \/ at[c] # "tcpq" \/ tcpbg = "done" \/ srv \in {"failed", "returned", "panicked"}
        \/ [](srv = "hello")

\* When serve is cancelled, or an accept has failed, everything it has started ends
\* (listeners, session, forwarded connections) whatever the clients do: the close
\* that waits for the goroutines is never stuck, wherever they are
\* (tunnel_listener.go:75-84, tls_proxy.go:76-95).  And serve returns, unless a
\* client that says nothing keeps the accept loop for good.
ServeEnds ==
    (cancelled \/ srv = "failed") ~>
        /\ closer = "done" /\ tcpbg = "done" /\ fabbg = "done" /\ rl = "done" /\ ~ session
        /\ \A c \in Conn : at[c] \notin {"dial", "joined"}
        /\ srv \in {"returned", "panicked"} \/ [](srv = "hello")
=============================================================================
