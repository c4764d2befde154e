--------------------------- MODULE PasswordReset ---------------------------
(***************************************************************************)
(* Password reset by mailed link (#133): the handlers forgot_password and  *)
(* reset_password of app/auth.py over the tables password_reset_tokens and *)
(* users.  Every call on the store is a transaction of its own, so between *)
(* any two of them the requests of other threads may run.                  *)
(*                                                                         *)
(* Abstracted: a token stands for its hash; rate limits, the form and its  *)
(* GET (a read that decides nothing for the POST) are left out.            *)
(***************************************************************************)
EXTENDS Naturals, Sequences, Functions

CONSTANTS
  User,         \* registered users
  Token,        \* the reset tokens that get minted
  Nobody,       \* no user
  Handler       \* HTTP worker threads

ASSUME ConstantsAssumption == Nobody \notin User /\ Token # {}

VARIABLES
  token,        \* table password_reset_tokens
  password,     \* the links the password of each user was set with, last last
  request,      \* the local state of each worker thread
  mailed,       \* tokens whose mail was delivered
  minted,       \* the tokens of each user in the order of their INSERTs
  superseded,   \* tokens minted before a change of their user's password
  overlapped,   \* two requests have been at work at once
  died          \* a request has died half way

flags == <<overlapped, died>>
history == <<mailed, minted, superseded, flags>>
vars == <<token, password, request, history>>

TokenRow == [state: {"free", "active", "used", "expired"},
             user: User \cup {Nobody}]
Request  == [pc: {"idle", "forgetting", "minting", "mailing",
                  "resetting", "updating", "invalidating"},
             user: User \cup {Nobody},
             token: Token]

AnyToken == CHOOSE t \in Token : TRUE
Idle == [pc |-> "idle", user |-> Nobody, token |-> AnyToken]

Init ==
  /\ token = [t \in Token |-> [state |-> "free", user |-> Nobody]]
  /\ password = [u \in User |-> <<>>]
  /\ request = [h \in Handler |-> Idle]
  /\ mailed = {}
  /\ minted = [u \in User |-> <<>>]
  /\ superseded = {}
  /\ overlapped = FALSE
  /\ died = FALSE

At(h, pc)   == request[h].pc = pc
Goto(h, pc) == request' = [request EXCEPT ![h].pc = pc]
Respond(h)  == request' = [request EXCEPT ![h] = Idle]

\* A thread without a request accepts one.
Accept(h, pc, u, t) ==
  /\ At(h, "idle")
  /\ request' = [request EXCEPT ![h] = [pc |-> pc, user |-> u, token |-> t]]
  /\ overlapped' = (overlapped \/ \E g \in Handler : ~At(g, "idle"))
  /\ UNCHANGED <<token, password, mailed, minted, superseded, died>>

Active(u) == {t \in Token : token[t] = [state |-> "active", user |-> u]}

\* Mutant: the UPDATE forgets whose tokens it is to end.
InvalidateEverybodys(u) ==
  token' = [t \in Token |-> IF token[t].state = "active"
                            THEN [token[t] EXCEPT !.state = "used"]
                            ELSE token[t]]

\* invalidate_password_reset_tokens.  (It also marks the expired ones, which
\* nothing can tell.)
Invalidate(u) ==
  token' = [t \in Token |-> IF t \in Active(u)
                            THEN [token[t] EXCEPT !.state = "used"]
                            ELSE token[t]]

(***************************************************************************)
(* forgot_password.  An address that is not registered changes nothing.    *)
(***************************************************************************)
Forgot(h, u) == Accept(h, "forgetting", u, AnyToken)

InvalidateEarlier(h) ==
  /\ At(h, "forgetting")
  /\ Invalidate(request[h].user)
  /\ Goto(h, "minting")
  /\ UNCHANGED <<password, history>>

Mint(h, t) ==
  LET u == request[h].user
  IN /\ At(h, "minting")
     /\ token[t].state = "free"
     /\ token' = [token EXCEPT ![t] = [state |-> "active", user |-> u]]
     /\ request' = [request EXCEPT ![h].pc = "mailing", ![h].token = t]
     /\ minted' = [minted EXCEPT ![u] = Append(@, t)]
     /\ UNCHANGED <<password, mailed, superseded, flags>>

\* A failure of SMTP is swallowed: the response is the same.
Mail(h, delivered) ==
  /\ At(h, "mailing")
  /\ mailed' = IF delivered THEN mailed \cup {request[h].token} ELSE mailed
  /\ Respond(h)
  /\ UNCHANGED <<token, password, minted, superseded, flags>>

(***************************************************************************)
(* reset_password.  The token is claimed by one conditional UPDATE; then   *)
(* the password is replaced, then the user's other tokens are ended.       *)
(***************************************************************************)
\* The POST of somebody who was mailed the link.
Submit(h, t) == t \in mailed /\ Accept(h, "resetting", Nobody, t)

\* Mutant: the UPDATE asks only whether the link has expired.
ConsumeAgain(h) ==
  LET t == request[h].token
  IN /\ At(h, "resetting")
     /\ token[t].state \in {"active", "used"}
     /\ token' = [token EXCEPT ![t].state = "used"]
     /\ request' = [request EXCEPT ![h].pc = "updating",
                                   ![h].user = token[t].user]
     /\ UNCHANGED <<password, history>>

\* Mutant: the POST, like the GET, reads whether the link is good.
ConsumeByReading(h) ==
  LET t == request[h].token
  IN /\ At(h, "resetting")
     /\ token[t].state = "active"
     /\ request' = [request EXCEPT ![h].pc = "updating",
                                   ![h].user = token[t].user]
     /\ UNCHANGED <<token, password, history>>

Consume(h) ==
  LET t == request[h].token
  IN /\ At(h, "resetting")
     /\ token[t].state = "active"
     /\ token' = [token EXCEPT ![t].state = "used"]
     /\ request' = [request EXCEPT ![h].pc = "updating",
                                   ![h].user = token[t].user]
     /\ UNCHANGED <<password, history>>

\* No row was updated: "the link is invalid or has expired".
Refuse(h) ==
  /\ At(h, "resetting")
  /\ token[request[h].token].state # "active"
  /\ Respond(h)
  /\ UNCHANGED <<token, password, history>>

UpdatePassword(h) ==
  LET u == request[h].user
  IN /\ At(h, "updating")
     /\ password' = [password EXCEPT ![u] = Append(@, request[h].token)]
     /\ superseded' = superseded \cup {t \in Token : token[t].user = u}
     /\ Goto(h, "invalidating")
     /\ UNCHANGED <<token, mailed, minted, flags>>

\* Mutant: the other links stay valid.
InvalidateNothing(h) ==
  /\ At(h, "invalidating")
  /\ Respond(h)
  /\ UNCHANGED <<token, password, history>>

InvalidateRest(h) ==
  /\ At(h, "invalidating")
  /\ Invalidate(request[h].user)
  /\ Respond(h)
  /\ UNCHANGED <<password, history>>

\* The TTL of a token runs out.
Expire(t) ==
  /\ token[t].state = "active"
  /\ token' = [token EXCEPT ![t].state = "expired"]
  /\ UNCHANGED <<password, request, history>>

\* The store fails: the request ends with a 500, what it wrote stays.
Die(h) ==
  /\ ~At(h, "idle")
  /\ Respond(h)
  /\ died' = TRUE
  /\ UNCHANGED <<token, password, mailed, minted, superseded, overlapped>>

Next ==
  \/ \E h \in Handler, u \in User : Forgot(h, u)
  \/ \E h \in Handler, t \in Token : Mint(h, t) \/ Submit(h, t)
  \/ \E h \in Handler, delivered \in BOOLEAN : Mail(h, delivered)
  \/ \E h \in Handler :
       \/ InvalidateEarlier(h)
       \/ Consume(h) \/ Refuse(h) \/ UpdatePassword(h) \/ InvalidateRest(h)
       \/ Die(h)
  \/ \E t \in Token : Expire(t)

Spec == Init /\ [][Next]_vars

(***************************************************************************)
(* Properties.                                                             *)
(***************************************************************************)
\* Types; a token belongs to a user from its INSERT on; and a request that
\* works on a reset has claimed its token.
TypeOK ==
  /\ token \in [Token -> TokenRow]
  /\ \A t \in Token : token[t].state = "free" <=> token[t].user = Nobody
  /\ password \in [User -> Seq(Token)]
  /\ request \in [Handler -> Request]
  /\ \A h \in Handler :
       /\ request[h].pc \in {"forgetting", "minting", "mailing"}
            => request[h].user \in User
       /\ request[h].pc \in {"updating", "invalidating"}
            => token[request[h].token] = [state |-> "used",
                                          user |-> request[h].user]

Settled == \A h \in Handler : At(h, "idle")
Final(s) == s[Len(s)]

\* A link sets a password at most once, whatever else runs, expires or
\* fails: consume_password_reset_token is what makes the token one-time.
LinkResetsOnce ==
  \A u \in User : IsInjective(password[u])

\* Between requests, no link that was minted before a change of its user's
\* password can still change it, unless the request that changed it died:
\* "the consumed one wins, the rest die".
OlderLinksDie ==
  Settled /\ ~died => \A t \in superseded : token[t].state # "active"

\* Between requests that do not overlap, whatever died or was not delivered,
\* at most one link of a user resolves, and it is the latest: "only the latest
\* email should resolve".  And unless a request died it does, until it expires
\* or sets the password: no request of somebody else, and no earlier link,
\* ends it.
LatestLinkWorks ==
  Settled /\ ~overlapped => \A u \in User :
    /\ Active(u) # {} => Active(u) = {Final(minted[u])}
    /\ ~died /\ minted[u] # <<>> /\ token[Final(minted[u])].state = "used"
         => password[u] # <<>> /\ Final(password[u]) = Final(minted[u])

\* A link is a key to its user's account once, and the latest is the only one.
LinksAreSound == LinkResetsOnce /\ OlderLinksDie /\ LatestLinkWorks
=============================================================================
