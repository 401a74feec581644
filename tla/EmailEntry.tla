----------------------------- MODULE EmailEntry -----------------------------
(***************************************************************************)
(* POST /v1/ai/generate-email up to the usage check: JwtOptionalGuard, the *)
(* IP guard, the ValidationPipe, the lookup of the user, and the           *)
(* sanitising of draft and custom inputs, which is one synchronous block.  *)
(* Between the awaits the requests under way share the guard's Map and the *)
(* lastIndex of the patterns, which the process keeps between them; both   *)
(* are lost when it restarts.  What follows is Generation.                 *)
(***************************************************************************)
EXTENDS IpRateLimit, TierCalculator, HttpLayer, SanitizeInput

CONSTANTS Users,      \* account ids
          Handlers,   \* request slots
          Bodies,     \* the bodies requests carry
          MaxRefusals \* bound: so often does a pattern refuse an input

MIN_DRAFT == 10
MAX_DRAFT == 600

Optional(S) == {T \in SUBSET S : \A x, y \in T : x = y}

(* The fields that the checks read.                                        *)
GenerateEmailDto ==
  [draft : Text, relationship : Optional(Text), purpose : Optional(Text),
   tone : Optional(Text), length : Optional({"short", "medium", "long"})]

ASSUME EntryAssumption ==
  /\ Bodies \subseteq GenerateEmailDto
  /\ None \notin Users \cup Bodies
  /\ MaxRefusals \in Nat

VARIABLES
  lastIndex, \* lastIndex[p] of the p-th of the FORBIDDEN_PATTERNS
  req,       \* req[h]: program counter and locals of the request in slot h
  refusals,  \* history: refusals[p], the custom inputs pattern p refused
  misses     \* history: misses[p], the drafts in which p left a match

sanitizerVars == <<lastIndex, refusals, misses>>
vars == <<guardVars, sanitizerVars, req>>

(* No refusal (yet).                                                       *)
NoReply == [status |-> 0, code |-> "none"]

Request == [pc : {"idle", "guard", "body", "lookup", "accepted", "refused"},
            user : Users \cup {None}, body : Bodies \cup {None},
            max : {0, 150, 300, 600}, reply : {NoReply, ErrorReply(400), ErrorReply(429)}]

Slot(label, u, dto, max, reply) ==
  [pc |-> label, user |-> u, body |-> dto, max |-> max, reply |-> reply]

Idle == Slot("idle", None, None, 0, NoReply)

Unread == [p \in Patterns |-> 0]

Init == /\ GuardInit
        /\ lastIndex = Unread /\ refusals = Unread /\ misses = Unread
        /\ req = [h \in Handlers |-> Idle]

-----------------------------------------------------------------------------
Becomes(h, slot) == req' = [req EXCEPT ![h] = slot]

(* A request goes on under a new label, with the locals it has.            *)
Proceed(h, label) ==
  LET r == req[h] IN Becomes(h, Slot(label, r.user, r.body, r.max, r.reply))

(* Variant: the exception is swallowed.                                    *)
RefuseSilently(h, status) == Proceed(h, "refused")

Refuse(h, status) ==
  LET r == req[h] IN Becomes(h, Slot("refused", r.user, r.body, r.max, ErrorReply(status)))

(* JwtOptionalGuard waits for verifyAsync.                                 *)
Receive(h) ==
  /\ req[h].pc = "idle"
  /\ \E bearer \in Bearer(Users) :
       Becomes(h, Slot("guard", OptionalUser(bearer), None, 0, NoReply))
  /\ UNCHANGED <<guardVars, sanitizerVars>>

(* A request with a sub is not counted by the IP guard.                    *)
SkipIpGuard(h) ==
  /\ req[h].pc = "guard" /\ req[h].user # None
  /\ Proceed(h, "body")
  /\ UNCHANGED <<guardVars, sanitizerVars>>

PassIpGuard(h, ip) ==
  /\ req[h].pc = "guard" /\ req[h].user = None
  /\ CanActivate(ip)
  /\ Proceed(h, "body")
  /\ UNCHANGED sanitizerVars

(* No address can be found, or its calls are used up.                      *)
RefusedByIpGuard(h) ==
  /\ req[h].pc = "guard" /\ req[h].user = None
  /\ \/ Refuse(h, 400)
     \/ (\E ip \in Ips : LimitReached(ip)) /\ Refuse(h, 429)
  /\ UNCHANGED <<guardVars, sanitizerVars>>

Valid(dto) ==
  /\ MIN_DRAFT <= dto.draft.sent /\ dto.draft.sent <= MAX_DRAFT
  /\ \A text \in dto.relationship \cup dto.purpose \cup dto.tone :
       text.sent <= MAX_CUSTOM_INPUT_LENGTH

(* The ValidationPipe comes after the guards: what it refuses is counted.  *)
Validate(h) ==
  /\ req[h].pc = "body"
  /\ \E dto \in Bodies :
       IF Valid(dto) THEN Becomes(h, Slot("lookup", req[h].user, dto, 0, NoReply))
       ELSE Refuse(h, 400)
  /\ UNCHANGED <<guardVars, sanitizerVars>>

(* The option length replaces the limit of the tier, whatever the tier.    *)
InputLimit(tier, length) ==
  CASE length = {"short"}  -> 150
    [] length = {"medium"} -> 300
    [] length = {"long"}   -> 600
    [] OTHER               -> getInputLimitByTier(tier)

(* Variant: the draft is checked after the custom inputs.                  *)
SanitizedDraftLast(index, dto, max) ==
  LET r == CheckOptional(index, dto.relationship)
      p == CheckOptional(r.index, dto.purpose)
      t == CheckOptional(p.index, dto.tone)
      last == IF ~r.ok THEN r ELSE IF ~p.ok THEN p ELSE t
      draft == CheckDraft(last.index, dto.draft, max)
  IN IF ~last.ok
     THEN [index |-> last.index, refusedBy |-> last.refusedBy, ok |-> FALSE, missed |-> {}]
     ELSE [index |-> draft.index, refusedBy |-> {}, ok |-> draft.ok, missed |-> draft.missed]

(* What the checks of a body come to, from the given lastIndex on: the     *)
(* draft, then relationship, purpose and tone, until one is refused.       *)
Sanitized(index, dto, max) ==
  LET draft == CheckDraft(index, dto.draft, max)
      r == CheckOptional(draft.index, dto.relationship)
      p == CheckOptional(r.index, dto.purpose)
      t == CheckOptional(p.index, dto.tone)
      last == IF ~draft.ok THEN [Skipped(draft.index) EXCEPT !.ok = FALSE]
              ELSE IF ~r.ok THEN r
              ELSE IF ~p.ok THEN p ELSE t
  IN [index |-> last.index, refusedBy |-> last.refusedBy, ok |-> last.ok,
      missed |-> draft.missed]

Counting(history, who) == [p \in Patterns |-> history[p] + IF p \in who THEN 1 ELSE 0]

(* A user whose row is not found is treated as a guest.                    *)
Sanitize(h) ==
  LET r == req[h] IN
  /\ r.pc = "lookup"
  /\ \E tier \in UserTier \cup {"guest"} :
       LET max  == InputLimit(tier, r.body.length)
           done == Sanitized(lastIndex, r.body, max)
       IN /\ r.user = None => tier = "guest"
          /\ \A p \in done.refusedBy : refusals[p] < MaxRefusals
          /\ lastIndex' = done.index
          /\ refusals' = Counting(refusals, done.refusedBy)
          /\ misses' = Counting(misses, done.missed)
          /\ Becomes(h, IF done.ok THEN Slot("accepted", r.user, r.body, max, NoReply)
                        ELSE Slot("refused", r.user, r.body, max, ErrorReply(400)))
  /\ UNCHANGED guardVars

(* The usage check takes over, or the filter has sent the refusal.         *)
Leave(h) ==
  /\ req[h].pc \in {"accepted", "refused"}
  /\ Becomes(h, Idle)
  /\ UNCHANGED <<guardVars, sanitizerVars>>

(* The lookup rejects, which generateEmail turns into a 400.               *)
Fail(h) ==
  /\ req[h].pc = "lookup"
  /\ Refuse(h, 400)
  /\ UNCHANGED <<guardVars, sanitizerVars>>

(* The modules are loaded anew and every request under way is dropped.     *)
ProcessRestarts ==
  /\ Restart
  /\ lastIndex' = Unread
  /\ req' = [h \in Handlers |-> Idle]
  /\ UNCHANGED <<refusals, misses>>

Next ==
  \/ \E h \in Handlers :
       \/ Receive(h) \/ SkipIpGuard(h) \/ RefusedByIpGuard(h) \/ Validate(h)
       \/ Sanitize(h) \/ Leave(h) \/ Fail(h)
       \/ \E ip \in Ips : PassIpGuard(h, ip)
  \/ (ClearExpiredRecords \/ Tick) /\ UNCHANGED <<sanitizerVars, req>>
  \/ ProcessRestarts

Spec == Init /\ [][Next]_vars

-----------------------------------------------------------------------------
TypeOK ==
  /\ GuardTypeOK
  /\ lastIndex \in [Patterns -> Nat]
  /\ refusals \in [Patterns -> Nat] /\ misses \in [Patterns -> Nat]
  /\ req \in [Handlers -> Request]
  /\ \A h \in Handlers :
       /\ req[h].pc \in {"lookup", "accepted"} => req[h].body # None
       /\ req[h].max # 0 => req[h].body # None /\ req[h].pc \in {"accepted", "refused"}
       /\ req[h].pc = "refused" <=> req[h].reply # NoReply

(* What a body is accepted for, if nothing else were asked of the process. *)
Acceptable(dto, max) ==
  /\ MIN_DRAFT <= dto.draft.size /\ dto.draft.size <= max
  /\ \A text \in dto.relationship \cup dto.purpose \cup dto.tone :
       text.size # 0 => /\ text.size <= MAX_CUSTOM_INPUT_LENGTH
                        /\ text.plain /\ ~Forbidden(text)

(* ai.service.ts:72-78 share the patterns' lastIndex with every other      *)
(* request; still a body that has been sanitised was accepted or refused   *)
(* for what it holds alone.  It is so because the draft is checked first,  *)
(* which leaves every lastIndex at 0, and nothing is awaited until the     *)
(* last input has been checked.                                            *)
VerdictsAreExact ==
  \A h \in Handlers : req[h].max # 0 =>
    (req[h].pc = "accepted" <=> Acceptable(req[h].body, req[h].max))

(* sanitize-input.util.ts:93: a draft keeps a match only because a custom  *)
(* input was refused before it by the same pattern, and each refusal       *)
(* explains one such draft at most, of whatever user.                      *)
MissesFollowRefusals == \A p \in Patterns : misses[p] <= refusals[p]
=============================================================================
