------------------------------- MODULE Fetch -------------------------------
(***************************************************************************)
(* The requests of one command (encar_parser/fetchers/ and the part of     *)
(* cli.py that opens and closes them).  A command opens the HTTP client    *)
(* and tries to start the browser; each request is attempted up to         *)
(* MaxAttempts times through the client and, if the error it ends in asks  *)
(* for it, once through the browser.  What is done with a page of the list *)
(* is ListWalk's and RunSession's; here a model is one list request and    *)
(* some detail requests.                                                   *)
(*                                                                         *)
(* An answer is a status with a body, or NoStatus when nothing came back.  *)
(* The browser's body is page.content(), the markup of the page: the JSON  *)
(* of the API arrives wrapped in HTML.                                     *)
(***************************************************************************)
EXTENDS Integers, Sequences, SequencesExt

CONSTANTS MaxAttempts,  \* settings.retry_max_attempts
          NumModels,    \* models of the day
          MaxCars       \* bound: cars in a list

ASSUME FetchAssumption == /\ MaxAttempts \in Nat \ {0}
                          /\ NumModels \in Nat /\ MaxCars \in Nat

NoStatus == "none"                        \* FetcherError.status is None
Refusals == {"403", "404", "429", "500"}  \* one for each way they are handled
Answers  == {"json", "html", NoStatus} \cup Refusals

VARIABLES at,       \* where the command is
          browser,  \* the browser started: the fetcher is a FallbackFetcher
          open,     \* resources of the process
          models,   \* models still to walk
          cars,     \* detail requests left for the current model
          req,      \* the request under way, or Idle
          last,     \* history: how the request before ended
          leaks     \* history: a step of starting or closing has raised

fetchVars == <<at, browser, open, models, cars, req, last, leaks>>

Idle == [via |-> "nobody"]
BrowserParts == <<"playwright", "chromium", "context">>
Resources == {"client", "page", "stray"} \cup {BrowserParts[k] : k \in DOMAIN BrowserParts}

FetchInit == /\ at = "off"
             /\ browser = FALSE
             /\ open = {}
             /\ models = 0 /\ cars = 0
             /\ req = Idle /\ last = Idle
             /\ leaks = FALSE

-----------------------------------------------------------------------------
(* Opening: the client, then the browser in three steps.  If one of them   *)
(* raises the command goes on without a browser; what was started before   *)
(* is no longer referred to by anybody.                                    *)

Start ==
    /\ at = "off"
    /\ at' = "start"
    /\ open' = {"client"}
    /\ models' = NumModels
    /\ UNCHANGED <<browser, cars, req, last, leaks>>

StartPart ==
    /\ at = "start"
    /\ \E k \in DOMAIN BrowserParts :
          /\ open \cap Range(BrowserParts) = {BrowserParts[j] : j \in 1 .. k - 1}
          /\ open' = open \cup {BrowserParts[k]}
          /\ browser' = (k = Len(BrowserParts))
    /\ at' = IF browser' THEN "ready" ELSE at
    /\ UNCHANGED <<models, cars, req, last, leaks>>

StartFails ==
    /\ at = "start"
    /\ at' = "ready"
    /\ browser' = FALSE
    /\ leaks' = TRUE
    /\ UNCHANGED <<open, models, cars, req, last>>

-----------------------------------------------------------------------------
(* Requests.                                                               *)

Ask == /\ at = "ready"
       /\ req = Idle
       /\ models > 0
       /\ \E what \in {"list", "detail"} :
             /\ what = "detail" <=> cars > 0
             /\ req' = [via |-> "api", what |-> what, tries |-> <<>>]
       /\ UNCHANGED <<at, browser, open, models, cars, last, leaks>>

(* resp.json() of the caller raises on anything but JSON.  A detail that   *)
(* fails is skipped, a list that fails is the end of its model.            *)
Settle(r, answered, body) ==
    LET payload == answered /\ body = "json" IN
    /\ req' = Idle
    /\ last' = [via |-> r.via, tries |-> r.tries, answered |-> answered,
                payload |-> payload]
    /\ cars' \in IF r.what = "detail" THEN {cars - 1}
                 ELSE IF payload THEN 0 .. MaxCars ELSE {0}
    /\ models' = IF cars' = 0 THEN models - 1 ELSE models
    /\ UNCHANGED <<at, browser, leaks>>

(* RetryableError: rate limit, server error, timeout and network errors.   *)
Retryable(a) == a \in {"429", "500", NoStatus}
BugFallsBack(a) == a \in {"403", "429", "500", NoStatus}
FallsBack(a) == a \in {"403", "429", NoStatus}

BugApiAnswers(a) ==                     \* the attempts are not counted on 429
    /\ req.via = "api"
    /\ LET tries == IF a = "429" THEN <<>> ELSE Append(req.tries, a)
           r == [req EXCEPT !.tries = tries] IN
       IF a \notin {"json", "html"} /\ Retryable(a) /\ Len(tries) < MaxAttempts
       THEN /\ req' = r
            /\ UNCHANGED <<at, browser, models, cars, last, leaks>>
       ELSE Settle(r, a \in {"json", "html"}, a)
    /\ UNCHANGED open

BugOneMore(a) ==                        \* attempts counted from zero
    /\ req.via = "api"
    /\ LET r == [req EXCEPT !.tries = Append(@, a)] IN
       IF Retryable(a) /\ Len(r.tries) <= MaxAttempts
       THEN /\ req' = r
            /\ UNCHANGED <<at, browser, models, cars, last, leaks>>
       ELSE Settle(r, a \in {"json", "html"}, a)
    /\ UNCHANGED open

(* One attempt.  The error that reaches FallbackFetcher is the one of the  *)
(* last attempt.                                                           *)
ApiAnswers(a) ==
    /\ req.via = "api"
    /\ LET r == [req EXCEPT !.tries = Append(@, a)] IN
       \/ /\ a \in {"json", "html"}
          /\ Settle(r, TRUE, a)
       \/ /\ Retryable(a) /\ Len(r.tries) < MaxAttempts
          /\ req' = r
          /\ UNCHANGED <<at, browser, models, cars, last, leaks>>
       \/ /\ a \in Refusals \cup {NoStatus}
          /\ ~Retryable(a) \/ Len(r.tries) = MaxAttempts
          /\ IF browser /\ FallsBack(a)
             THEN /\ req' = [r EXCEPT !.via = "browser"]
                  /\ UNCHANGED <<at, browser, models, cars, last, leaks>>
             ELSE Settle(r, FALSE, a)
    /\ UNCHANGED open

(* The browser: a page is opened, loaded and closed whatever happens.  If  *)
(* closing it raises, the request fails and the page stays, a "stray" one, *)
(* until its context is closed.                                            *)
NewPage ==
    /\ req.via = "browser"
    /\ "page" \notin open
    /\ open' = open \cup {"page"}
    /\ UNCHANGED <<at, browser, models, cars, req, last, leaks>>

BugPageAnswers(a) ==                    \* no finally: an error leaves the page
    /\ req.via = "browser"
    /\ "page" \in open
    /\ a # "json"
    /\ open' = IF a = NoStatus THEN open ELSE open \ {"page"}
    /\ Settle(req, a = "html", a)

PageAnswers(a) ==
    /\ req.via = "browser"
    /\ "page" \in open \/ a = NoStatus  \* new_page itself may raise
    /\ a # "json"
    /\ open' = open \ {"page"}
    /\ Settle(req, a = "html", a)

PageStays ==
    /\ req.via = "browser"
    /\ "page" \in open
    /\ open' = (open \ {"page"}) \cup {"stray"}
    /\ Settle(req, FALSE, NoStatus)

-----------------------------------------------------------------------------
(* Closing: the browser in the finally clause, then the client by the      *)
(* async with around it, which is closed too when closing the browser      *)
(* raises.  The process ends later (a dedup pass comes first).             *)

Finish ==
    /\ at = "ready"
    /\ req = Idle
    /\ models = 0
    /\ at' = IF browser THEN "close" ELSE "closeClient"
    /\ UNCHANGED <<browser, open, models, cars, req, last, leaks>>

(* A context takes its pages with it.                                      *)
Within(part) == IF part = "context" THEN {"context", "stray"} ELSE {part}

BugClosePart ==                         \* playwright is not stopped
    /\ at = "close"
    /\ \E k \in {2, 3} :
          /\ BrowserParts[k] \in open
          /\ \A j \in k + 1 .. Len(BrowserParts) : BrowserParts[j] \notin open
          /\ open' = open \ Within(BrowserParts[k])
          /\ at' = IF k = 2 THEN "closeClient" ELSE at
    /\ UNCHANGED <<browser, models, cars, req, last, leaks>>

ClosePart ==
    /\ at = "close"
    /\ \E k \in DOMAIN BrowserParts :
          /\ BrowserParts[k] \in open
          /\ \A j \in k + 1 .. Len(BrowserParts) : BrowserParts[j] \notin open
          /\ open' = open \ Within(BrowserParts[k])
          /\ at' = IF k = 1 THEN "closeClient" ELSE at
    /\ UNCHANGED <<browser, models, cars, req, last, leaks>>

CloseFails ==
    /\ at = "close"
    /\ at' = "closeClient"
    /\ leaks' = TRUE
    /\ UNCHANGED <<browser, open, models, cars, req, last>>

CloseClient ==
    /\ at = "closeClient"
    /\ at' = "closed"
    /\ open' = open \ {"client"}
    /\ UNCHANGED <<browser, models, cars, req, last, leaks>>

Exit == /\ at = "closed"
        /\ at' = "off"
        /\ browser' = FALSE
        /\ open' = {}
        /\ last' = Idle
        /\ leaks' = FALSE
        /\ UNCHANGED <<models, cars, req>>

FetchStep == \/ StartPart \/ StartFails
             \/ Ask
             \/ \E a \in Answers : ApiAnswers(a) \/ PageAnswers(a)
             \/ NewPage \/ PageStays
             \/ Finish \/ ClosePart \/ CloseFails \/ CloseClient \/ Exit

FetchNext == Start \/ FetchStep

FetchSpec == FetchInit /\ [][FetchNext]_fetchVars

(* Every await of a step is bounded by a timeout of httpx or Playwright.   *)
FairFetchSpec == FetchSpec /\ WF_fetchVars(FetchStep)

-----------------------------------------------------------------------------
Tries == {tries \in Seq(Answers) : Len(tries) <= MaxAttempts}

FetchTypeOK ==
    /\ at \in {"off", "start", "ready", "close", "closeClient", "closed"}
    /\ browser \in BOOLEAN /\ leaks \in BOOLEAN
    /\ open \subseteq Resources
    /\ models \in 0 .. NumModels /\ cars \in 0 .. MaxCars
    /\ req = Idle \/ req \in [via : {"api", "browser"}, what : {"list", "detail"},
                              tries : Tries]
    /\ last = Idle \/ last \in [via : {"api", "browser"}, tries : Tries,
                                answered : BOOLEAN, payload : BOOLEAN]

(* The attempts after which the browser is due: a block is not retried,    *)
(* the rest is given up after MaxAttempts, and the last error decides.     *)
Due(tries) ==
    /\ tries # <<>>
    /\ \A k \in 1 .. Len(tries) - 1 : Retryable(tries[k])
    /\ \/ tries[Len(tries)] = "403"
       \/ /\ Len(tries) = MaxAttempts
          /\ tries[Len(tries)] \in {"429", NoStatus}

(* The browser is used exactly for the requests that were blocked, or that *)
(* were rate limited or unanswered to the last attempt, as factory.py:9-11 *)
(* has it: never for a 404 or for exhausted server errors, and never past  *)
(* a browser that is there for a request that is due.                      *)
FallbackEarned ==
    /\ req.via = "browser" => browser /\ Due(req.tries)
    /\ last.via = "browser" => browser /\ Due(last.tries)
    /\ last.via = "api" /\ browser /\ ~last.answered => ~Due(last.tries)

(* Whatever requests fail on the way, a command holds nothing when its     *)
(* fetchers are closed, unless starting or closing the browser raised: a   *)
(* page outlives its request only if closing it raised, and then not the   *)
(* browser (browser.py:40-49 and 63-64, cli.py:456-458).                   *)
NothingLeftOpen ==
    /\ at = "closed" /\ ~leaks => open = {}
    /\ "page" \in open => req.via = "browser"

(* A command gets through all of its requests, whatever they answer.       *)
CommandEnds == at = "start" ~> at = "closed"

(* browser.py:1 and 15 say that the browser is used as fallback when       *)
(* ApiFetcher is blocked, and bypasses many bot checks: a request the      *)
(* browser answers gives its caller a payload.  It fails: the body is the  *)
(* HTML of the rendered page, and resp.json() of the pipeline raises.      *)
FallbackHelps == last.via = "browser" /\ last.answered => last.payload
=============================================================================
