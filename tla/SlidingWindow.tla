----------------------------- MODULE SlidingWindow -----------------------------
(***************************************************************************)
(* What the rate limiter promises each address: of the requests that ask,  *)
(* one passes when fewer than Limit have passed within the last Window     *)
(* ticks and is refused when not.  "recent" holds how many requests of     *)
(* each age still count, "visits" where each client's request is, so that  *)
(* every decision is a step; one that is refused leaves no other trace.    *)
(***************************************************************************)
EXTENDS Naturals, Functions

CONSTANTS
  Ips,      \* client addresses
  Clients,  \* requests in flight at once
  Limit,    \* RATE_LIMIT
  Window,   \* RATE_WINDOW_SECONDS, in ticks
  None      \* no request

VARIABLES recent, visits

WindowInit ==
  /\ recent = [ip \in Ips |-> [a \in 0 .. Window - 1 |-> 0]]
  /\ visits = [c \in Clients |-> None]

\* There is room for one more request of the address.
Free(ip) == SumFunction(recent[ip]) < Limit

Waiting(ip) == [ip |-> ip, inside |-> FALSE]
Inside(ip) == [ip |-> ip, inside |-> TRUE]

Ask(c, ip) ==
  /\ visits[c] = None
  /\ visits' = [visits EXCEPT ![c] = Waiting(ip)]
  /\ UNCHANGED recent

Pass(c, ip) ==
  /\ visits[c] = Waiting(ip)
  /\ Free(ip)
  /\ recent' = [recent EXCEPT ![ip][0] = @ + 1]
  /\ visits' = [visits EXCEPT ![c] = Inside(ip)]

Reject(c, ip) ==
  /\ visits[c] = Waiting(ip)
  /\ ~Free(ip)
  /\ visits' = [visits EXCEPT ![c] = None]
  /\ UNCHANGED recent

Leave(c, ip) ==
  /\ visits[c] = Inside(ip)
  /\ visits' = [visits EXCEPT ![c] = None]
  /\ UNCHANGED recent

\* Every age grows by a tick, and what has reached the window drops out.
Elapse ==
  /\ recent' = [ip \in Ips |->
       [a \in 0 .. Window - 1 |-> IF a = 0 THEN 0 ELSE recent[ip][a - 1]]]
  /\ UNCHANGED visits

WindowNext ==
  \/ Elapse
  \/ \E c \in Clients, ip \in Ips :
       Ask(c, ip) \/ Pass(c, ip) \/ Reject(c, ip) \/ Leave(c, ip)

WindowSpec == WindowInit /\ [][WindowNext]_<<recent, visits>>
===============================================================================
