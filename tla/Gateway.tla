------------------------------- MODULE Gateway -------------------------------
(***************************************************************************)
(* The API gateway: an HTTP request passes the rate limit and, on most     *)
(* routes, the JWT check; its handler checks the body, calls a service     *)
(* with a deadline and turns the answer or the error into a status.  A     *)
(* client that got no answer, or one that says so, tries again, and a      *)
(* service may still do the work of a call nobody waits for any more.      *)
(*                                                                         *)
(* The services are external here: a call changes something or is refused. *)
(***************************************************************************)
EXTENDS Naturals, FiniteSets

CONSTANTS Operations,    \* what clients want done, each on one route
          MaxAttempts,   \* bound on the requests for an operation
          Limit          \* RateLimitRequests of a window

ASSUME GatewayAssumption == MaxAttempts \in Nat \ {0} /\ Limit \in Nat \ {0}

-----------------------------------------------------------------------------
(* The services, by the codes their errors have.  An interceptor refuses a  *)
(* call that names no user; otherwise MapError of each service chooses.      *)

NoUser == {"Unauthenticated"}

AuthErrors         == {"Unauthenticated", "NotFound", "AlreadyExists", "Internal"}
ProfileErrors      == {"NotFound", "InvalidArgument", "Internal"}
ConversationErrors == NoUser \cup {"NotFound", "PermissionDenied", "InvalidArgument",
                                   "FailedPrecondition", "Internal"}
MessageErrors      == NoUser \cup {"NotFound", "PermissionDenied", "InvalidArgument",
                                   "Internal"}
PresenceErrors     == {}   \* a failed lookup is answered as offline

-----------------------------------------------------------------------------
(* The handlers.  body: what the request carries can be unusable; ok: the    *)
(* status of success; repeat: what becomes of a second call for the same     *)
(* operation.  "new": it has an effect of its own (a session, or one more    *)
(* event in the outbox); "same": none; "key": none if the client gave the    *)
(* key, else one of its own; "conflict": refused; "read": no call has an     *)
(* effect.  names: profiles are looked up after it.                          *)

Handler(errors, body, ok, repeat) ==
    [errors |-> errors, body |-> body, ok |-> ok, repeat |-> repeat, names |-> FALSE]

WithNames(h) == [h EXCEPT !.names = TRUE]

Login              == Handler(AuthErrors, TRUE, 200, "new")
RegisterUser       == Handler(AuthErrors, TRUE, 201, "conflict")
Refresh            == Handler(AuthErrors, TRUE, 200, "new")
Logout             == Handler(AuthErrors, TRUE, 204, "same")
GetProfile         == Handler(ProfileErrors, FALSE, 200, "read")
UpdateProfile      == Handler(ProfileErrors, TRUE, 200, "new")
CreateConversation == WithNames(Handler(ConversationErrors, TRUE, 201, "key"))
ListConversations  == WithNames(Handler(ConversationErrors, FALSE, 200, "read"))
GetConversation    == WithNames(Handler(ConversationErrors, TRUE, 200, "read"))
AddParticipant     == Handler(ConversationErrors, TRUE, 200, "same")
RemoveParticipant  == Handler(ConversationErrors, TRUE, 200, "same")
ReadReceipt        == Handler(ConversationErrors, TRUE, 200, "new")
SendMessage        == Handler(MessageErrors, TRUE, 200, "key")
SyncMessages       == Handler(MessageErrors, TRUE, 200, "read")
DeleteMessage      == Handler(MessageErrors, TRUE, 200, "same")
GetPresence        == Handler(PresenceErrors, TRUE, 200, "read")

Public == {"Login", "Register", "Refresh", "Logout"}

\* The routes of the group that uses the JWT middleware.
InGroup(r) == r \notin Public

Route ==
    [Login |-> Login, Register |-> RegisterUser, Refresh |-> Refresh, Logout |-> Logout,
     GetProfile |-> GetProfile, UpdateProfile |-> UpdateProfile,
     CreateConversation |-> CreateConversation, ListConversations |-> ListConversations,
     GetConversation |-> GetConversation, AddParticipant |-> AddParticipant,
     RemoveParticipant |-> RemoveParticipant, ReadReceipt |-> ReadReceipt,
     SendMessage |-> SendMessage, SyncMessages |-> SyncMessages,
     DeleteMessage |-> DeleteMessage, GetPresence |-> GetPresence]

Routes == DOMAIN Route

\* Mutant of StatusOf: a code without a case is answered as success.
StatusOrOK(code) ==
    CASE code = "NotFound"         -> 404  [] code = "InvalidArgument"  -> 400
      [] code = "Unauthenticated"  -> 401  [] code = "PermissionDenied" -> 403
      [] code = "AlreadyExists"    -> 409  [] code = "Unavailable"      -> 503
      [] code = "DeadlineExceeded" -> 504  [] OTHER                     -> 200

\* GRPCError.
StatusOf(code) ==
    CASE code = "NotFound"         -> 404  [] code = "InvalidArgument"  -> 400
      [] code = "Unauthenticated"  -> 401  [] code = "PermissionDenied" -> 403
      [] code = "AlreadyExists"    -> 409  [] code = "Unavailable"      -> 503
      [] code = "DeadlineExceeded" -> 504  [] OTHER                     -> 500

Codes == AuthErrors \cup ProfileErrors \cup ConversationErrors \cup MessageErrors
         \cup PresenceErrors \cup {"Unavailable"}

-----------------------------------------------------------------------------
VARIABLES
    ask,      \* the operations: their route, and what their requests carry
    http,     \* the requests, by operation and attempt
    rpc,      \* the call a handler made to its service
    applied,  \* the effects of an operation
    window    \* requests the limiter has counted in this window

gatewayVars == <<ask, http, rpc, applied, window>>

Attempts == 1 .. MaxAttempts

\* own: the client gave the idempotency key or the conversation id, or the
\* conversation is direct and known by its two members.  A status is 0 before
\* the answer.
GatewayTypeOK ==
    /\ ask \in [Operations -> [route : Routes, good : BOOLEAN, token : BOOLEAN,
                               own : BOOLEAN]]
    /\ http \in [Operations -> [Attempts ->
          [pc : {"none", "calling", "names", "answered", "gone"}, status : Nat]]]
    /\ rpc \in [Operations -> [Attempts ->
          {"none", "sent", "applied"} \cup Codes]]
    /\ applied \in [Operations -> SUBSET (Attempts \cup {0})]
    /\ window \in 0 .. Limit

GatewayInit ==
    /\ ask \in [Operations -> {a \in [route : Routes, good : BOOLEAN, token : BOOLEAN,
                                      own : BOOLEAN] :
                                  /\ ~a.good => Route[a.route].body
                                  /\ a.own => Route[a.route].repeat = "key"}]
    /\ http = [o \in Operations |-> [n \in Attempts |-> [pc |-> "none", status |-> 0]]]
    /\ rpc = [o \in Operations |-> [n \in Attempts |-> "none"]]
    /\ applied = [o \in Operations |-> {}]
    /\ window = 0

HandlerOf(o) == Route[ask[o].route]

Answered(o, n, status) ==
    http' = [http EXCEPT ![o][n] = [pc |-> "answered", status |-> status]]

\* The client asks for the first time, or again after no answer or one that
\* promises nothing.
MayAsk(o, n) ==
    /\ http[o][n].pc = "none"
    /\ n > 1 => \/ http[o][n - 1].pc = "gone"
                \/ http[o][n - 1].pc = "answered" /\ http[o][n - 1].status \in {429, 500, 503, 504}

-----------------------------------------------------------------------------
(* The middlewares and the handler, up to the call *)

\* RateLimit, the first that can refuse a request.
TooMany(o, n) ==
    /\ MayAsk(o, n) /\ window = Limit
    /\ Answered(o, n, 429)
    /\ UNCHANGED <<ask, rpc, applied, window>>

Unauthorized(o) == InGroup(ask[o].route) /\ ~ask[o].token

\* JWT, and then the handler: a bad body, or the call to the service.
Serve(o, n) ==
    /\ MayAsk(o, n) /\ window < Limit /\ window' = window + 1
    /\ CASE Unauthorized(o) -> Answered(o, n, 401) /\ UNCHANGED rpc
         [] ~Unauthorized(o) /\ ~ask[o].good -> Answered(o, n, 400) /\ UNCHANGED rpc
         [] OTHER -> /\ http' = [http EXCEPT ![o][n].pc = "calling"]
                     /\ rpc' = [rpc EXCEPT ![o][n] = "sent"]
    /\ UNCHANGED <<ask, applied>>

\* A new window of the limiter.
NewWindow == window > 0 /\ window' = 0 /\ UNCHANGED <<ask, http, rpc, applied>>

-----------------------------------------------------------------------------
(* The services *)

\* What tells the effect of a request from that of another one: the key of the
\* client, or the one the gateway makes when there is none; a registration makes
\* a new id.
KeyOf(o, n) ==
    IF \/ HandlerOf(o).repeat \in {"new", "conflict"}
       \/ HandlerOf(o).repeat = "key" /\ ~ask[o].own
    THEN n ELSE 0

\* The call is executed, perhaps after the gateway has given it up.
Execute(o, n) ==
    /\ rpc[o][n] = "sent"
    /\ IF HandlerOf(o).repeat = "conflict" /\ applied[o] # {}
       THEN rpc' = [rpc EXCEPT ![o][n] = "AlreadyExists"] /\ UNCHANGED applied
       ELSE /\ rpc' = [rpc EXCEPT ![o][n] = "applied"]
            /\ applied' = IF HandlerOf(o).repeat = "read" THEN applied
                          ELSE [applied EXCEPT ![o] = @ \cup {KeyOf(o, n)}]
    /\ UNCHANGED <<ask, http, window>>

\* The call is refused, or the service cannot be reached.
RefuseCall(o, n, code) ==
    /\ rpc[o][n] = "sent" /\ code \in HandlerOf(o).errors \cup {"Unavailable"}
    /\ rpc' = [rpc EXCEPT ![o][n] = code]
    /\ UNCHANGED <<ask, http, applied, window>>

-----------------------------------------------------------------------------
(* The handler, after the call *)

\* The service answered: the handler does too, or looks up names first.
Answer(o, n) ==
    /\ http[o][n].pc = "calling" /\ rpc[o][n] = "applied"
    /\ IF HandlerOf(o).names THEN http' = [http EXCEPT ![o][n].pc = "names"]
       ELSE Answered(o, n, HandlerOf(o).ok)
    /\ UNCHANGED <<ask, rpc, applied, window>>

\* The error of the service.
AnswerError(o, n) ==
    /\ http[o][n].pc = "calling" /\ rpc[o][n] \in Codes
    /\ Answered(o, n, StatusOf(rpc[o][n]))
    /\ UNCHANGED <<ask, rpc, applied, window>>

\* resolveConversations: BatchGetProfiles answered, or failed, which is only
\* logged.
NamesResolved(o, n) ==
    /\ http[o][n].pc = "names"
    /\ Answered(o, n, HandlerOf(o).ok)
    /\ UNCHANGED <<ask, rpc, applied, window>>

\* Mutant of Deadline: the handlers of the conversations have none.
DeadlineNotForNames(o, n) ==
    /\ http[o][n].pc = "calling" /\ ~HandlerOf(o).names
    /\ Answered(o, n, StatusOf("DeadlineExceeded"))
    /\ UNCHANGED <<ask, rpc, applied, window>>

\* The deadline of the call is over.
Deadline(o, n) ==
    /\ http[o][n].pc = "calling"
    /\ Answered(o, n, StatusOf("DeadlineExceeded"))
    /\ UNCHANGED <<ask, rpc, applied, window>>

\* The client is gone: nobody gets the answer.
ClientGone(o, n) ==
    /\ http[o][n].pc \in {"calling", "names"}
    /\ http' = [http EXCEPT ![o][n].pc = "gone"]
    /\ UNCHANGED <<ask, rpc, applied, window>>

-----------------------------------------------------------------------------
HandlerStep(o, n) ==
    Answer(o, n) \/ AnswerError(o, n) \/ NamesResolved(o, n) \/ Deadline(o, n)

GatewayNext ==
    \/ NewWindow
    \/ \E o \in Operations, n \in Attempts :
          \/ TooMany(o, n) \/ Serve(o, n) \/ Execute(o, n) \/ HandlerStep(o, n)
          \/ ClientGone(o, n) \/ \E code \in Codes : RefuseCall(o, n, code)

GatewaySpec == GatewayInit /\ [][GatewayNext]_gatewayVars

\* A handler goes on; the deadline comes even if its service is silent.
FairGatewaySpec ==
    GatewaySpec /\ \A o \in Operations, n \in Attempts : WF_gatewayVars(HandlerStep(o, n))
-----------------------------------------------------------------------------
(* Properties *)

\* What src/README.md says of the APIs that change state: they handle retries
\* safely.  A message that is sent again after no answer is stored once, and a
\* conversation is made once, whether or not the client gave a key.
RetriesAreSafe ==
    \A o \in Operations :
        ask[o].route \in {"SendMessage", "CreateConversation"}
            => Cardinality(applied[o]) <= 1

\* A client that is told its operation succeeded can count on its effect, with
\* whatever error a service refused it: no code becomes a status of success.
\* (That a service which answers OK has done its work is assumed here.)
SuccessIsApplied ==
    \A o \in Operations, n \in Attempts :
        /\ http[o][n].pc = "answered" /\ http[o][n].status \in 200 .. 299
        /\ HandlerOf(o).repeat # "read"
        => applied[o] # {}

\* A request that was admitted is answered, or its client leaves: no silent
\* service keeps a handler.
EveryRequestAnswered ==
    \A o \in Operations, n \in Attempts :
        http[o][n].pc = "calling" ~> http[o][n].pc \in {"answered", "gone"}
=============================================================================
