----------------------------- MODULE TokenPool ------------------------------
(***************************************************************************)
(* The round-robin pool of GitHub tokens of pkg/data/ghutil/tokenpool.go,  *)
(* shared by the event importers of one task, and the way an importer's    *)
(* goroutines use and rotate a token (rotateToken and retryOnRateLimit of  *)
(* pkg/data/postgres/event.go).                                            *)
(***************************************************************************)
EXTENDS Integers

CONSTANTS
  N,          \* tokens in the pool
  exhaustionWindow,  \* time an exhausted token is out of the rotation
  Importers,  \* event importers: the repositories imported at a time
  Listers,    \* goroutines of one importer
  NoToken     \* the empty string

Tokens == 0 .. N - 1

ASSUME PoolAssumption == N \in Nat \ {0} /\ exhaustionWindow \in Nat \ {0} /\ NoToken \notin Int

VARIABLES
  current,   \* where the next scan starts
  left,      \* time until exhaustedUntil, 0 when it has passed or was never set
  phase,     \* by importer: whether it is listing events or pull request sizes
  curToken,  \* by importer: the token to exhaust at the next rotation
  client,    \* by importer: the token its client sends
  call,      \* by importer and goroutine: where it is in retryOnRateLimit
  (* History variables, never read by the program. *)
  refused,   \* tokens GitHub refused at some time
  owed       \* tokens eligible all the time since a token was handed out, not chosen

pool == <<current, left>>
importers == <<phase, curToken, client, call>>
poolVars == <<pool, importers, refused, owed>>

(* ready: between two requests; sent, resent: first and second execution of *)
(* fn, with the token it uses; limited: fn returned a rate limit error;     *)
(* rotating: it holds the importer's lock, the old token exhausted;         *)
(* again: fn is about to be executed again; ended: the goroutine returned.  *)
Calls == [pc : {"ready", "sent", "limited", "rotating", "again", "resent", "ended"},
          tok : Tokens \cup {NoToken}]

Ended == [pc |-> "ended", tok |-> NoToken]
Ready == [pc |-> "ready", tok |-> NoToken]

PoolInit ==
  /\ current = 0
  /\ left = [i \in Tokens |-> 0]
  /\ phase = [m \in Importers |-> "off"]
  /\ curToken = [m \in Importers |-> NoToken]
  /\ client = [m \in Importers |-> NoToken]
  /\ call = [m \in Importers |-> [g \in Listers |-> Ended]]
  /\ refused = {}
  /\ owed = [i \in Tokens |-> {}]

-----------------------------------------------------------------------------
(* TokenPool. *)

(* (idx + 1) % n for an index of the pool. *)
Advance(i) == IF i + 1 = N THEN 0 ELSE i + 1

isExhausted(remaining, i) == remaining[i] > 0

(* How many positions the scan starting at c visits before i. *)
Distance(c, i) == IF c <= i THEN i - c ELSE i - c + N

(* The scan finds i: every position before it is exhausted. *)
Finds(remaining, i) ==
  /\ ~isExhausted(remaining, i)
  /\ \A j \in Tokens : Distance(current, j) < Distance(current, i) => isExhausted(remaining, j)

(* Wrong variant: the scan starts again at the token it returned. *)
TokenStays(remaining, o, tok) ==
  \/ /\ tok \in Tokens /\ Finds(remaining, tok)
     /\ current' = tok
     /\ owed' = [k \in Tokens |-> IF k = tok
                                  THEN {j \in Tokens \ {k} : ~isExhausted(remaining, j)}
                                  ELSE o[k] \ {tok}]
  \/ /\ tok = NoToken /\ \A i \in Tokens : isExhausted(remaining, i)
     /\ current' = current
     /\ owed' = o

(* Wrong variant: with all tokens exhausted the next one is handed out anyway. *)
TokenFallsThrough(remaining, o, tok) ==
  \/ /\ tok \in Tokens /\ Finds(remaining, tok)
     /\ current' = Advance(tok)
     /\ owed' = [k \in Tokens |-> IF k = tok
                                  THEN {j \in Tokens \ {k} : ~isExhausted(remaining, j)}
                                  ELSE o[k] \ {tok}]
  \/ /\ tok = current /\ \A i \in Tokens : isExhausted(remaining, i)
     /\ current' = Advance(current)
     /\ owed' = o

(* Token(): the first token from current on that is not exhausted, or "" if *)
(* there is none, with current back where it was after a full round.        *)
Token(remaining, o, tok) ==
  \/ /\ tok \in Tokens /\ Finds(remaining, tok)
     /\ current' = Advance(tok)
     /\ owed' = [k \in Tokens |-> IF k = tok
                                  THEN {j \in Tokens \ {k} : ~isExhausted(remaining, j)}
                                  ELSE o[k] \ {tok}]
  \/ /\ tok = NoToken /\ \A i \in Tokens : isExhausted(remaining, i)
     /\ current' = current
     /\ owed' = o

(* Exhaust(token): out of the rotation for a whole window; "" is no token. *)
Exhaust(tok) == [i \in Tokens |-> IF i = tok THEN exhaustionWindow ELSE left[i]]

(* Time passes. *)
Tick ==
  /\ left' = [i \in Tokens |-> IF left[i] > 0 THEN left[i] - 1 ELSE 0]
  /\ UNCHANGED <<current, importers, refused, owed>>

(* The metadata, enrichment and post-import phases take a token each. *)
TokenForPhase ==
  /\ \E tok \in Tokens \cup {NoToken} : Token(left, owed, tok)
  /\ UNCHANGED <<left, importers, refused>>

-----------------------------------------------------------------------------
(* An event importer and its goroutines. *)

AllEnded(m) == \A g \in Listers : call[m][g].pc = "ended"

(* ImportEvents: take a token, or return "token pool exhausted". *)
ImportEvents(m) ==
  /\ phase[m] = "off"
  /\ \E tok \in Tokens \cup {NoToken} :
       /\ Token(left, owed, tok)
       /\ IF tok = NoToken THEN UNCHANGED importers
          ELSE /\ phase' = [phase EXCEPT ![m] = "list"]
               /\ curToken' = [curToken EXCEPT ![m] = tok]
               /\ client' = [client EXCEPT ![m] = tok]
               /\ call' = [call EXCEPT ![m] = [g \in Listers |-> Ready]]
  /\ UNCHANGED <<left, refused>>

Becomes(m, g, pc, tok) == call' = [call EXCEPT ![m][g] = [pc |-> pc, tok |-> tok]]

(* fn: a request with the token the importer's client has now. *)
Send(m, g) ==
  /\ call[m][g].pc \in {"ready", "again"}
  /\ Becomes(m, g, IF call[m][g].pc = "ready" THEN "sent" ELSE "resent", client[m])
  /\ UNCHANGED <<pool, phase, curToken, client, refused, owed>>

(* fn succeeds, at once or after CheckRateLimit paused. *)
Answer(m, g) ==
  /\ call[m][g].pc \in {"sent", "resent"}
  /\ Becomes(m, g, "ready", NoToken)
  /\ UNCHANGED <<pool, phase, curToken, client, refused, owed>>

(* GitHub refuses the token, or CheckRateLimit does not wait that long; the *)
(* error of a second execution ends the goroutine.                          *)
Refuse(m, g) ==
  /\ call[m][g].pc \in {"sent", "resent"}
  /\ refused' = refused \cup {call[m][g].tok}
  /\ Becomes(m, g, IF call[m][g].pc = "sent" THEN "limited" ELSE "ended", NoToken)
  /\ UNCHANGED <<pool, phase, curToken, client, owed>>

(* A server error is retried once; any other error, and the end of the      *)
(* listing, ends the goroutine.                                             *)
ServerError(m, g) ==
  /\ call[m][g].pc = "sent"
  /\ Becomes(m, g, "again", NoToken)
  /\ UNCHANGED <<pool, phase, curToken, client, refused, owed>>

End(m, g) ==
  /\ call[m][g].pc \in {"ready", "sent", "resent"}
  /\ call' = [call EXCEPT ![m][g] = Ended]
  /\ UNCHANGED <<pool, phase, curToken, client, refused, owed>>

(* A goroutine of the importer is in rotateToken and has its lock. *)
Rotating(m) == \E g \in Listers : call[m][g].pc = "rotating"

(* rotateToken, under the importer's lock: exhaust the importer's token,    *)
(* whichever token this goroutine was refused with,                         *)
rotateToken(m, g) ==
  /\ call[m][g].pc = "limited" /\ ~Rotating(m)
  /\ left' = Exhaust(curToken[m])
  /\ owed' = [k \in Tokens |-> owed[k] \ {curToken[m]}]
  /\ Becomes(m, g, "rotating", NoToken)
  /\ UNCHANGED <<current, phase, curToken, client, refused>>

(* Wrong variant: the importer keeps its token when there is no other. *)
NextTokenOrSame(m, g) ==
  /\ call[m][g].pc = "rotating"
  /\ \E tok \in Tokens \cup {NoToken} :
       /\ Token(left, owed, tok)
       /\ IF tok = NoToken
          THEN call' = [call EXCEPT ![m][g] = Ended] /\ UNCHANGED <<curToken, client>>
          ELSE /\ Becomes(m, g, "again", NoToken)
               /\ curToken' = [curToken EXCEPT ![m] = tok]
               /\ client' = [client EXCEPT ![m] = tok]
  /\ UNCHANGED <<left, phase, refused>>

(* and, with the pool's lock taken again, get the next.                     *)
NextToken(m, g) ==
  /\ call[m][g].pc = "rotating"
  /\ \E tok \in Tokens \cup {NoToken} :
       /\ Token(left, owed, tok)
       /\ curToken' = [curToken EXCEPT ![m] = tok]
       /\ IF tok = NoToken
          THEN call' = [call EXCEPT ![m][g] = Ended] /\ UNCHANGED client
          ELSE Becomes(m, g, "again", NoToken) /\ client' = [client EXCEPT ![m] = tok]
  /\ UNCHANGED <<left, phase, refused>>

(* All goroutines returned: backfillPRSize runs in one, then ImportEvents   *)
(* returns and the importer is dropped.                                     *)
BackfillPRSize(m) ==
  /\ phase[m] = "list" /\ AllEnded(m)
  /\ phase' = [phase EXCEPT ![m] = "size"]
  /\ \E g \in Listers : call' = [call EXCEPT ![m][g] = Ready]
  /\ UNCHANGED <<pool, curToken, client, refused, owed>>

Return(m) ==
  /\ phase[m] = "size" /\ AllEnded(m)
  /\ phase' = [phase EXCEPT ![m] = "off"]
  /\ curToken' = [curToken EXCEPT ![m] = NoToken]
  /\ client' = [client EXCEPT ![m] = NoToken]
  /\ UNCHANGED <<pool, call, refused, owed>>

Lister(m, g) ==
  Send(m, g) \/ Answer(m, g) \/ Refuse(m, g) \/ ServerError(m, g) \/ End(m, g)
  \/ rotateToken(m, g) \/ NextToken(m, g)

PoolNext ==
  \/ Tick \/ TokenForPhase
  \/ \E m \in Importers : \/ ImportEvents(m) \/ BackfillPRSize(m) \/ Return(m)
                          \/ \E g \in Listers : Lister(m, g)

PoolSpec == PoolInit /\ [][PoolNext]_poolVars

(* Time passes; nothing is assumed of GitHub or of the importers. *)
FairPoolSpec == PoolSpec /\ WF_poolVars(Tick)

-----------------------------------------------------------------------------
(* The position is an index of the pool, and no token is out of the       *)
(* rotation for longer than the window (Token, Exhaust).                    *)
PoolTypeOK ==
  /\ current \in Tokens
  /\ left \in [Tokens -> 0 .. exhaustionWindow]
  /\ phase \in [Importers -> {"off", "list", "size"}]
  /\ curToken \in [Importers -> Tokens \cup {NoToken}]
  /\ client \in [Importers -> Tokens \cup {NoToken}]
  /\ call \in [Importers -> [Listers -> Calls]]
  /\ refused \subseteq Tokens \cup {NoToken}
  /\ owed \in [Tokens -> SUBSET Tokens]

(* Round robin with tokens leaving and entering the rotation at any time    *)
(* (Token): a token is not handed out again while another one, eligible     *)
(* ever since it was handed out, has not been.                              *)
RoundRobinFair == \A i \in Tokens : Finds(left, i) => owed[i] = {}

(* "supports marking individual tokens as exhausted (e.g. after hitting a   *)
(* rate limit)" (TokenPool): no token is out of the rotation that GitHub    *)
(* never refused.  It does not hold: two goroutines refused with one token  *)
(* both call rotateToken, and the second exhausts the token the first got.  *)
OnlyRefusedExhausted == \A i \in Tokens : isExhausted(left, i) => i \in refused

(* "the pool degrades temporarily rather than monotonically" (TokenPool):   *)
(* however often GitHub refuses and whatever importers do with the tokens   *)
(* they hold, there is always again a token to hand out.                    *)
PoolRecovers == []<>(\E i \in Tokens : ~isExhausted(left, i))

AllExhausted == \A i \in Tokens : isExhausted(left, i)

(* The importers that have a token and are not giving it up. *)
Holders == {m \in Importers : curToken[m] # NoToken /\ ~Rotating(m)}

(* While all tokens are exhausted no importer comes by one, and whoever     *)
(* lengthens a token's time once more gives up its own: the requests still  *)
(* under way can only do so once for each importer (rotateToken, Token).    *)
DroughtOnlyDrains ==
  [][AllExhausted =>
       /\ Holders' \subseteq Holders
       /\ (\E i \in Tokens : left'[i] > left[i]) => Holders' # Holders]_poolVars

-----------------------------------------------------------------------------
(* The inductive invariant behind RoundRobinFair: the tokens a token is     *)
(* ahead of are eligible and lie before it on the scan's way.               *)
OwedInv ==
  \A i \in Tokens : \A j \in owed[i] :
    left[j] = 0 /\ Distance(current, j) < Distance(current, i)

=============================================================================
