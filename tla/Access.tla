------------------------------- MODULE Access -------------------------------
(***************************************************************************)
(* The operator's way in: first-run setup, login, sessions and stream      *)
(* tickets (server/auth), and the browser's side of them, AuthGate and the *)
(* ticketed event streams (ui/components/AuthGate.tsx, ui/lib/api.ts).     *)
(* Requests whose handler never awaits are one step, answer included.      *)
(***************************************************************************)
EXTENDS Naturals, Sequences, FiniteSetsExt

CONSTANTS
    Browsers,
    Watchers,     \* bound: the browsers that open an event stream
    Passwords,
    None,
    MaxSessions,  \* MAX_SESSIONS
    SessionTTL,   \* SESSION_TTL_MS, sliding, in ticks
    TicketTTL,    \* TICKET_TTL_MS
    TicketUses,   \* TICKET_MAX_USES
    MaxTokens,    \* bound: sessions ever created
    MaxTickets,   \* bound: tickets ever issued
    MaxNow        \* bound: ticks

ASSUME AccessAssumption ==
    /\ Watchers \subseteq Browsers /\ None \notin Passwords
    /\ {MaxSessions, TicketUses} \subseteq Nat \ {0}
    /\ {SessionTTL, TicketTTL, MaxTokens, MaxTickets, MaxNow} \subseteq Nat

VARIABLES
    now,
    credential, windowOpen,  \* operator_credential, the setup window
    hashing,    \* [browser |-> password] for setups that await their hash
    verifying,  \* the chain of verifyOperator: <<browser, hash read, password>>
    sessions,   \* live tokens; tokens are numbered as they are issued
    issued, seen,
    tickets,    \* [session, expires, uses] of each ticket, as issued
    ended,      \* history: tokens that were logged out or lost in a restart
    gate, token,      \* AuthGate's screen and the stored token of a browser
    stream, ticketOf  \* TicketedEventSource and the ticket in its URL

server == <<credential, windowOpen, hashing, verifying>>
tokens == <<issued, seen, sessions, ended>>
screen == <<gate, token>>
streams == <<stream, ticketOf>>
avars == <<now, server, tokens, tickets, screen, streams>>

AccessInit ==
    /\ now = 0 /\ credential = None /\ windowOpen = TRUE
    /\ hashing = <<>> /\ verifying = <<>>
    /\ issued = 0 /\ sessions = {} /\ tickets = <<>> /\ ended = {}
    /\ seen = [t \in 1..MaxTokens |-> 0]
    /\ gate = [b \in Browsers |-> "probing"] /\ token = [b \in Browsers |-> 0]
    /\ stream = [b \in Browsers |-> "off"] /\ ticketOf = [b \in Browsers |-> 0]

Complete == credential # None
Alive(t) == t \in sessions /\ now - seen[t] <= SessionTTL

\* Fault: of the earlier ones it evicts who was seen least recently.
EvictIdle(live) ==
    LET older == live \ {Max(live)}
        Idler(t, u) == seen[t] < seen[u] \/ (seen[t] = seen[u] /\ t <= u)
    IN  IF Cardinality(live) <= MaxSessions THEN live
        ELSE live \ {CHOOSE t \in older : \A u \in older : Idler(t, u)}

\* createSession makes room by evicting the oldest.
Evict(live) == IF Cardinality(live) <= MaxSessions THEN live ELSE live \ {Min(live)}

\* A new token, stored by the browser, which reloads.
SignedIn(b) ==
    /\ issued < MaxTokens
    /\ issued' = issued + 1
    /\ seen' = [seen EXCEPT ![issued'] = now]
    /\ sessions' = Evict({t \in sessions : Alive(t)} \cup {issued'})
    /\ token' = [token EXCEPT ![b] = issued'] /\ gate' = [gate EXCEPT ![b] = "probing"]
    /\ stream' = [stream EXCEPT ![b] = "off"]
    /\ UNCHANGED <<ended, ticketOf>>

\* verifySession: prune, then slide the window of a token that is live.
Verified(t) ==
    /\ sessions' = {u \in sessions : Alive(u)}
    /\ seen' = IF Alive(t) THEN [seen EXCEPT ![t] = now] ELSE seen
    /\ UNCHANGED <<issued, ended>>

Busy(b) == b \in DOMAIN hashing \/ \E i \in DOMAIN verifying : verifying[i][1] = b
-----------------------------------------------------------------------------
(* GET /api/auth/session and the screen it selects.                         *)
Probe(b) ==
    /\ gate[b] = "probing"
    /\ IF Complete THEN Verified(token[b]) ELSE UNCHANGED tokens
    /\ gate' = [gate EXCEPT ![b] = IF ~Complete THEN "setup" ELSE IF Alive(token[b]) THEN "open" ELSE "login"]
    /\ UNCHANGED <<now, server, tickets, token, streams>>

\* No answer: the shell is shown rather than a lockout.
ProbeFails(b) ==
    /\ gate[b] = "probing"
    /\ gate' = [gate EXCEPT ![b] = "open"]
    /\ UNCHANGED <<now, server, tokens, tickets, token, streams>>

(* POST /api/auth/setup: refused once there is a credential or the window    *)
(* has closed; then the hash is awaited and written without another look.   *)
SubmitSetup(b) ==
    /\ gate[b] = "setup" /\ ~Busy(b)
    /\ ~Complete /\ windowOpen
    /\ \E p \in Passwords : hashing' = [c \in DOMAIN hashing \cup {b} |-> IF c = b THEN p ELSE hashing[c]]
    /\ UNCHANGED <<now, credential, windowOpen, verifying, tokens, tickets, screen, streams>>

SetupHashed(b) ==
    /\ b \in DOMAIN hashing
    /\ credential' = hashing[b] /\ windowOpen' = FALSE
    /\ hashing' = [c \in DOMAIN hashing \ {b} |-> hashing[c]]
    /\ SignedIn(b)
    /\ UNCHANGED <<now, verifying, tickets>>

(* POST /api/auth/login: the hash is read now, the check waits its turn.     *)
SubmitLogin(b) ==
    /\ gate[b] = "login" /\ ~Busy(b) /\ Complete
    /\ \E p \in Passwords : verifying' = Append(verifying, <<b, credential, p>>)
    /\ UNCHANGED <<now, credential, windowOpen, hashing, tokens, tickets, screen, streams>>

\* "setup-required" sends AuthGate to the other screen.
LoginWithoutSetup(b) ==
    /\ gate[b] = "login" /\ ~Complete
    /\ gate' = [gate EXCEPT ![b] = "setup"]
    /\ UNCHANGED <<now, server, tokens, tickets, token, streams>>

LoginVerified ==
    /\ verifying # <<>>
    /\ verifying' = Tail(verifying)
    /\ LET try == Head(verifying)
       IN  IF try[2] = try[3] THEN SignedIn(try[1]) ELSE UNCHANGED <<tokens, screen, streams>>
    /\ UNCHANGED <<now, credential, windowOpen, hashing, tickets>>

\* A request of the open console; its 401 brings the login screen back.
CallApi(b) ==
    /\ gate[b] = "open"
    /\ IF Complete THEN Verified(token[b]) ELSE UNCHANGED tokens
    /\ gate' = [gate EXCEPT ![b] = IF Complete /\ Alive(token[b]) THEN "open" ELSE "login"]
    /\ UNCHANGED <<now, server, tickets, token, streams>>

\* POST /api/auth/logout, which the interface does not offer yet.
Logout(b) ==
    /\ Alive(token[b])
    /\ sessions' = {u \in sessions : Alive(u)} \ {token[b]}
    /\ ended' = ended \cup {token[b]}
    /\ UNCHANGED <<now, server, issued, seen, tickets, screen, streams>>
-----------------------------------------------------------------------------
(* TicketedEventSource: mint a ticket, connect with it, and again.          *)
OpenStream(b) ==
    /\ b \in Watchers /\ gate[b] = "open" /\ stream[b] = "off"
    /\ stream' = [stream EXCEPT ![b] = "minting"]
    /\ UNCHANGED <<now, server, tokens, tickets, screen, ticketOf>>

\* Fault: it tries again later.
NoTicketYet(b) == stream' = [stream EXCEPT ![b] = "waiting"] /\ UNCHANGED <<tickets, ticketOf>>

\* Without a ticket the stream stays quiet for good.
NoTicket(b) == stream' = [stream EXCEPT ![b] = "quiet"] /\ UNCHANGED <<tickets, ticketOf>>

\* POST /api/auth/ticket by fetchTicket.
Mint(b) ==
    /\ stream[b] = "minting"
    /\ Verified(token[b])
    /\ IF Alive(token[b])
         THEN /\ Len(tickets) < MaxTickets
              /\ tickets' = Append(tickets, [session |-> token[b], expires |-> now + TicketTTL, uses |-> 0])
              /\ ticketOf' = [ticketOf EXCEPT ![b] = Len(tickets')]
              /\ stream' = [stream EXCEPT ![b] = "connecting"]
         ELSE NoTicket(b)
    /\ UNCHANGED <<now, server, screen>>

MintFails(b) ==
    /\ stream[b] = "minting"
    /\ NoTicket(b)
    /\ UNCHANGED <<now, server, tokens, screen>>

\* verifyTicket after its prune; a ticket dies with its session.
Accepts(k) ==
    /\ k \in DOMAIN tickets
    /\ tickets[k].expires > now /\ tickets[k].uses < TicketUses
    /\ Alive(tickets[k].session)

\* A refused stream is closed and tried again with a new ticket.
Connect(b) ==
    /\ stream[b] = "connecting"
    /\ sessions' = {u \in sessions : Alive(u)}
    /\ LET k == ticketOf[b]
       IN  IF Accepts(k)
             THEN /\ tickets' = [tickets EXCEPT ![k].uses = @ + 1]
                  /\ stream' = [stream EXCEPT ![b] = "open"]
             ELSE /\ stream' = [stream EXCEPT ![b] = "waiting"]
                  /\ UNCHANGED tickets
    /\ UNCHANGED <<now, server, issued, seen, ended, screen, ticketOf>>

\* The browser reconnects a broken stream by itself, with the same URL.
StreamBreaks(b) ==
    /\ stream[b] = "open"
    /\ stream' = [stream EXCEPT ![b] = "connecting"]
    /\ UNCHANGED <<now, server, tokens, tickets, screen, ticketOf>>

Reconnect(b) ==
    /\ stream[b] = "waiting"
    /\ stream' = [stream EXCEPT ![b] = "minting"]
    /\ UNCHANGED <<now, server, tokens, tickets, screen, ticketOf>>

CloseStream(b) ==
    /\ stream[b] # "off"
    /\ stream' = [stream EXCEPT ![b] = "off"]
    /\ UNCHANGED <<now, server, tokens, tickets, screen, ticketOf>>
-----------------------------------------------------------------------------
TimePasses ==
    /\ now < MaxNow
    /\ now' = now + 1 /\ windowOpen' \in {windowOpen, FALSE}
    /\ UNCHANGED <<credential, hashing, verifying, tokens, tickets, screen, streams>>

\* Sessions, tickets and requests are memory; the window opens anew.
ServerRestarts ==
    /\ ended # 1..issued
    /\ ended' = 1..issued /\ sessions' = {} /\ tickets' = <<>>
    /\ windowOpen' = TRUE /\ hashing' = <<>> /\ verifying' = <<>>
    /\ stream' = [b \in Browsers |-> IF stream[b] = "open" THEN "connecting" ELSE stream[b]]
    /\ ticketOf' = [b \in Browsers |-> 0]
    /\ UNCHANGED <<now, credential, issued, seen, screen>>

StreamRetries(b) == Mint(b) \/ Connect(b) \/ Reconnect(b)

AccessNext ==
    \/ TimePasses \/ ServerRestarts \/ LoginVerified
    \/ \E b \in Browsers :
        \/ Probe(b) \/ ProbeFails(b) \/ SubmitSetup(b) \/ SetupHashed(b)
        \/ SubmitLogin(b) \/ LoginWithoutSetup(b) \/ CallApi(b) \/ Logout(b)
        \/ OpenStream(b) \/ MintFails(b) \/ StreamRetries(b)
        \/ StreamBreaks(b) \/ CloseStream(b)

\* Requests are answered and the timer of a reconnect fires.
AccessFairness == \A b \in Browsers : WF_avars(StreamRetries(b))

AccessSpec == AccessInit /\ [][AccessNext]_avars
FairAccess == AccessSpec /\ AccessFairness
-----------------------------------------------------------------------------
(* A token that was handed out is good until it is logged out, the server    *)
(* restarts, it has been idle too long or MaxSessions newer ones exist:     *)
(* neither another login nor a prune on anybody's access takes it away.     *)
TokensWork ==
    \A t \in 1..issued :
        \/ t \in sessions \cup ended
        \/ now - seen[t] > SessionTTL
        \/ issued - t >= MaxSessions

(* Whatever happens to its session, a stream comes to rest: it is open or    *)
(* has given up, and a dead session cannot spin a retry loop (api.ts).      *)
StreamsSettle ==
    \A b \in Browsers :
        stream[b] \in {"minting", "connecting", "waiting"}
            ~> stream[b] \in {"open", "quiet", "off"} \/ Len(tickets) = MaxTickets
=============================================================================
