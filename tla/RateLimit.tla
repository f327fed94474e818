------------------------------ MODULE RateLimit -------------------------------
(***************************************************************************)
(* The request limiter: for each client address, the tokens left and the   *)
(* time it was last seen.  The limiter has no process of its own but the   *)
(* sweep that forgets addresses; its steps are taken by the module that    *)
(* uses it.  Times are ages, in ticks of the clock.                        *)
(***************************************************************************)
EXTENDS Integers, Sequences, FiniteSets

CONSTANTS
    Ip,       \* client addresses
    Rate,     \* requests admitted in a burst
    Window,   \* ticks after which a silent address starts again
    Nil       \* the address is not known

(* Ages above this are not told apart: the sweep forgets the address.       *)
Forgotten == 3 * Window + 1

Visitor == [tokens : 0 .. Rate, seen : 0 .. Forgotten]

ASSUME LimiterAssumption ==
    /\ Rate \in Nat \ {0} /\ Window \in Nat \ {0}
    /\ Nil \notin Visitor

VARIABLES
    visitors,  \* [Ip -> Nil or [tokens, seen: age of lastSeen]]
    admitted   \* history: [Ip -> ages of the requests admitted in the last Window ticks,
               \*           the oldest first]

limiter == <<visitors, admitted>>

LimiterInit ==
    /\ visitors = [ip \in Ip |-> Nil]
    /\ admitted = [ip \in Ip |-> <<>>]

(* Wrong variant: the window is over a tick too early. *)
FreshEarly(ip) == IF visitors[ip] = Nil THEN TRUE ELSE visitors[ip].seen >= Window

Fresh(ip) == IF visitors[ip] = Nil THEN TRUE ELSE visitors[ip].seen > Window

(* lastSeen = now, whether or not the request is admitted. *)
LastSeen(ip, n) == visitors' = [visitors EXCEPT ![ip] = [tokens |-> n, seen |-> 0]]

allow(ip) ==
    /\ \/ Fresh(ip) /\ LastSeen(ip, Rate - 1)
       \/ ~Fresh(ip) /\ visitors[ip].tokens > 0 /\ LastSeen(ip, visitors[ip].tokens - 1)
    /\ admitted' = [admitted EXCEPT ![ip] = Append(@, 0)]

deny(ip) ==
    /\ ~Fresh(ip) /\ visitors[ip].tokens = 0
    /\ LastSeen(ip, 0)
    /\ UNCHANGED admitted

(* The ticker of newRateLimiter. *)
Sweep ==
    /\ \E ip \in Ip : visitors[ip] # Nil /\ visitors[ip].seen > 3 * Window
    /\ visitors' = [ip \in Ip |-> IF visitors[ip] # Nil /\ visitors[ip].seen > 3 * Window
                                  THEN Nil ELSE visitors[ip]]
    /\ UNCHANGED admitted

(* A tick later, the requests that are still within the window: the last    *)
(* ones of the sequence.                                                    *)
StillRecent(ages) == Cardinality({k \in DOMAIN ages : ages[k] < Window})

Aged(ages) == [k \in 1 .. StillRecent(ages) |-> ages[Len(ages) - StillRecent(ages) + k] + 1]

LimiterTick ==
    /\ visitors' = [ip \in Ip |-> IF visitors[ip] = Nil THEN Nil
                                  ELSE [visitors[ip] EXCEPT !.seen = IF @ < Forgotten THEN @ + 1 ELSE @]]
    /\ admitted' = [ip \in Ip |-> Aged(admitted[ip])]

(* The types of the limiter: tokens stay between zero and Rate. *)
LimiterTypeOK ==
    /\ visitors \in [Ip -> Visitor \cup {Nil}]
    /\ admitted \in [Ip -> Seq(0 .. Window)]

(* Whatever the order and the spacing of the requests, no address is        *)
(* admitted more than Rate times within a window of Window ticks.           *)
AtMostRate == \A ip \in Ip : Len(admitted[ip]) <= Rate
=============================================================================
