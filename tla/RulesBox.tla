------------------------------ MODULE RulesBox ------------------------------
(***************************************************************************)
(* The rules agreement: a document that is fetched, or taken from the      *)
(* cache, shown, and agreed to after a countdown or once its end has been  *)
(* scrolled to.  A state of the box is a record, and an operation maps the *)
(* record before a call to the one after it.                               *)
(***************************************************************************)
EXTENDS Naturals

CONSTANTS
  Documents,   \* what the server may publish: "long" has a scroll bar, "short" has none
  Cooldown     \* the countdown, in ticks of its timer

ASSUME DocumentsAssumption == Documents \subseteq {"long", "short"} /\ Documents # {}
ASSUME CooldownAssumption == Cooldown \in Nat \ {0}

NoDocument == "none"

\* elapsed is history: for how long the document that is shown has been on the screen, or
\* Cooldown when its end has been seen.
Boxes == [doc : Documents \cup {NoDocument}, ready : BOOLEAN, request : BOOLEAN,
          left : 0 .. Cooldown, ticking : BOOLEAN, scrolled : BOOLEAN,
          elapsed : 0 .. Cooldown]

NewBox == [doc |-> NoDocument, ready |-> FALSE, request |-> FALSE, left |-> Cooldown,
           ticking |-> FALSE, scrolled |-> FALSE, elapsed |-> 0]

(***************************************************************************)
(* The request                                                             *)
(***************************************************************************)
Responses == [lost : BOOLEAN, redirect : {"none", "secure", "insecure", "sign-in"},
              status : {200, 404}, body : {"empty", "fits", "huge"}, document : Documents]

\* unrestrictedSafeRedirect(): anywhere, but not away from HTTPS.
SafeRedirect(r) == r.redirect # "insecure"

\* What the HTTP client hands on: no body above the limit.
Completed(r) == ~r.lost /\ SafeRedirect(r) /\ r.body # "huge"

\* finish_rules_request(): a page that is no public document is not shown, and the cache
\* is asked when nothing has come.
Outcome(r) ==
  CASE ~Completed(r) \/ r.status # 200                                     -> "unreachable"
    [] Completed(r) /\ r.status = 200 /\ (r.body = "empty" \/ r.redirect = "sign-in") -> "rejected"
    [] Completed(r) /\ r.status = 200 /\ r.body = "fits" /\ r.redirect # "sign-in"    -> r.document

Outcomes == {Outcome(r) : r \in Responses}

(***************************************************************************)
(* The document                                                            *)
(***************************************************************************)
\* start_cooldown(), which makes the timer run.
StartCooldown(b) ==
  [b EXCEPT !.left = Cooldown, !.ticking = TRUE, !.scrolled = b.doc = "short",
            !.elapsed = IF b.doc = "short" THEN Cooldown ELSE 0]

Display(b, doc) == StartCooldown([b EXCEPT !.doc = doc, !.ready = TRUE])

\* show_load_failure(): the text goes, document_html stays.
ShowFailure(b) == [b EXCEPT !.ready = FALSE]

\* SwiftHttpClient::get(): the callback waits under the request's number.
Requested(b) == [b EXCEPT !.request = TRUE]

\* load_rules(): a request that cannot be begun is one that fails soon (ShowFailure).
LoadRules(b) == Requested(b)

\* (mutant of ShowBox: the countdown of the last time counts)
ShowBoxCountedDown(b, cached) ==
  LET shown == [b EXCEPT !.elapsed = 0]
  IN  LoadRules(IF b.doc = NoDocument /\ cached # NoDocument THEN Display(shown, cached) ELSE shown)

\* showEvent(): the box is shown, for the first time or again; the timer is left alone
\* unless the cache has a document and the box has none.
ShowBox(b, cached) ==
  LET shown == [b EXCEPT !.left = Cooldown, !.scrolled = FALSE, !.elapsed = 0]
  IN  LoadRules(IF b.doc = NoDocument /\ cached # NoDocument THEN Display(shown, cached) ELSE shown)

\* What may be in the cache after an answer: a document that was shown is written, if it can be.
Caches(outcome, cached) == {cached} \cup ({outcome} \cap Documents)

\* finish_rules_request() with the cache as it is.
Answered(b, outcome, cached) ==
  LET idle == [b EXCEPT !.request = FALSE]
  IN  CASE outcome \in Documents                                 -> Display(idle, outcome)
        [] outcome = "unreachable" /\ ~b.ready /\ cached # NoDocument -> Display(idle, cached)
        [] outcome = "unreachable" /\ ~b.ready /\ cached = NoDocument -> ShowFailure(idle)
        [] outcome = "rejected" /\ ~b.ready                      -> ShowFailure(idle)
        [] outcome \in {"unreachable", "rejected"} /\ b.ready    -> idle

Tick(b, visible) ==
  LET left == IF b.left = 0 THEN 0 ELSE b.left - 1
  IN  [b EXCEPT !.left = left, !.ticking = left > 0,
                !.elapsed = IF visible /\ @ < Cooldown THEN @ + 1 ELSE @]

CanScroll(b) == b.ready /\ b.doc = "long" /\ ~b.scrolled

ScrollToEnd(b) == [b EXCEPT !.scrolled = TRUE, !.elapsed = Cooldown]

\* What the button of the box does: ask again, nothing yet, or agree.
CanRetry(b) == ~b.ready /\ ~b.request
CanAgree(b) == b.ready /\ (b.left = 0 \/ b.scrolled)

HasRead(b) == b.ready /\ b.elapsed = Cooldown

\* A short document that is shown again after its countdown has run out, while the server
\* does not answer: the countdown stands still, and there is nothing to scroll.
Frozen(b) == b.ready /\ ~b.ticking /\ ~CanAgree(b) /\ ~CanScroll(b)
=============================================================================
