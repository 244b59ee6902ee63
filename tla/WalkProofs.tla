----------------------------- MODULE WalkProofs -----------------------------
(***************************************************************************)
(* Proofs about the walk of a model and about the requests it makes.       *)
(*                                                                         *)
(* Requests (Fetch), for any number of attempts, models and cars: the      *)
(* browser is asked about exactly the requests due to it, and a command    *)
(* that started and closed without an error holds nothing in the end.      *)
(*                                                                         *)
(* The walk (ListWalk), for any models, overlaps, page sizes, depths and   *)
(* feeds: a full walk that nothing disturbs and that gets sound answers    *)
(* about a list that fits has linked all of it when it ends, and so has an *)
(* incremental one after a calm history.                                   *)
(***************************************************************************)
EXTENDS ListWalk, Fetch, DataLemmas, FiniteSetTheorems

(* What one more attempt does to the attempts so far.                      *)
LEMMA OneMoreTry ==
    ASSUME NEW tries \in Tries, NEW a \in Answers, Len(tries) < MaxAttempts
    PROVE  /\ Append(tries, a) \in Tries
           /\ Append(tries, a) # <<>>
           /\ Len(Append(tries, a)) = Len(tries) + 1
           /\ Append(tries, a)[Len(tries) + 1] = a
           /\ \A k \in 1 .. Len(tries) : Append(tries, a)[k] = tries[k]
BY FetchAssumption DEF Tries

-----------------------------------------------------------------------------
(* A request is under way only while there is a model, and under the       *)
(* client it has attempts left and met nothing but errors to be retried.   *)
RequestSound ==
    /\ req # Idle => /\ at = "ready" /\ models > 0
                     /\ req.what = "detail" => cars > 0
    /\ req.via = "api" => /\ Len(req.tries) < MaxAttempts
                          /\ \A k \in 1 .. Len(req.tries) : Retryable(req.tries[k])
    /\ at \in {"off", "start"} => last = Idle

(* Parts of the browser are given back one by one, and what a page has     *)
(* left behind goes with the context; a command that goes on without a     *)
(* browser has met an error when it started it.                            *)
ResourcesSound ==
    /\ at = "start" => "stray" \notin open
    /\ at = "ready" /\ browser => "context" \in open
    /\ at \in {"ready", "close"} /\ "stray" \in open => "context" \in open
    /\ at = "ready" /\ ~browser => leaks
    /\ at = "closeClient" /\ ~leaks => open \subseteq {"client"}

FetchIInv == /\ FetchTypeOK /\ RequestSound /\ FallbackEarned
             /\ ResourcesSound /\ NothingLeftOpen

(* Nobody answers when there is no request.                                *)
LEMMA IdleVia == Idle.via = "nobody"
BY DEF Idle

(* Nothing is open and nothing is asked.                                   *)
LEMMA InitFetchIInv == FetchInit => FetchIInv
<1> SUFFICES ASSUME FetchInit PROVE FetchIInv
  OBVIOUS
<1>1. req = Idle /\ last = Idle /\ open = {} /\ at = "off"
  BY DEF FetchInit
<1>2. FetchTypeOK
  <2>1. 0 \in 0 .. NumModels /\ 0 \in 0 .. MaxCars
    BY FetchAssumption
  <2>2. browser \in BOOLEAN /\ leaks \in BOOLEAN
    BY Zenon DEF FetchInit
  <2> QED  BY <1>1, <2>1, <2>2 DEF FetchInit, FetchTypeOK
<1>3. RequestSound /\ FallbackEarned
  BY <1>1, IdleVia DEF RequestSound, FallbackEarned
<1> QED  BY <1>1, <1>2, <1>3 DEF FetchIInv, ResourcesSound, NothingLeftOpen

(* The end of a request: r is the request with its last attempt.  Its      *)
(* error has not earned the browser if it is the client's.                 *)
LEMMA SettleStep ==
    ASSUME FetchIInv, req # Idle,
           NEW r \in [via : {"api", "browser"}, what : {"list", "detail"}, tries : Tries],
           r.what = req.what,
           NEW answered \in BOOLEAN, NEW body \in Answers,
           Settle(r, answered, body),
           r.via = "browser" => browser /\ Due(r.tries),
           r.via = "api" /\ browser /\ ~answered => ~Due(r.tries),
           "page" \notin open', open' \subseteq open \cup {"stray"},
           "stray" \in open' => "stray" \in open \/ browser,
           "context" \in open => "context" \in open'
    PROVE  FetchIInv'
<1> DEFINE payload == answered /\ body = "json"
<1>1. /\ at = "ready" /\ models \in 1 .. NumModels
      /\ r.what = "detail" => cars \in 1 .. MaxCars
  BY FetchAssumption DEF FetchIInv, FetchTypeOK, RequestSound
<1>2. req' = Idle
      /\ last' = [via |-> r.via, tries |-> r.tries, answered |-> answered,
                  payload |-> payload]
      /\ UNCHANGED <<at, browser, leaks>>
  BY DEF Settle
<1>3. cars' \in 0 .. MaxCars
  BY <1>1, FetchAssumption DEF Settle
<1>4. models' \in 0 .. NumModels
  BY <1>1, FetchAssumption DEF Settle
<1>5. last' \in [via : {"api", "browser"}, tries : Tries,
                 answered : BOOLEAN, payload : BOOLEAN]
  BY <1>2
<1>6. FetchTypeOK'
  BY <1>2, <1>3, <1>4, <1>5 DEF FetchIInv, FetchTypeOK, Resources
<1>7. RequestSound'
  BY <1>1, <1>2 DEF RequestSound, Idle
<1>8. FallbackEarned'
  BY <1>2 DEF FallbackEarned, Idle, Due, Retryable
<1>9. ResourcesSound' /\ NothingLeftOpen'
  BY <1>1, <1>2 DEF FetchIInv, ResourcesSound, NothingLeftOpen
<1> QED  BY <1>6, <1>7, <1>8, <1>9 DEF FetchIInv

(* One attempt through the client: it is answered, tried again, handed to  *)
(* the browser, or given up.                                               *)
LEMMA ApiStep ==
    ASSUME FetchIInv, NEW a \in Answers, ApiAnswers(a)
    PROVE  FetchIInv'
<1> DEFINE r == [req EXCEPT !.tries = Append(@, a)]
<1>1. req \in [via : {"api", "browser"}, what : {"list", "detail"}, tries : Tries]
      /\ req # Idle /\ req.via = "api"
  BY DEF ApiAnswers, FetchIInv, FetchTypeOK, Idle
<1>2. Len(req.tries) < MaxAttempts /\ \A k \in 1 .. Len(req.tries) : Retryable(req.tries[k])
  BY <1>1 DEF FetchIInv, RequestSound
<1>3. Len(req.tries) \in Nat
  BY <1>1 DEF Tries
<1>4. /\ r.tries \in Tries /\ r.tries # <<>>
      /\ Len(r.tries) = Len(req.tries) + 1
      /\ r.tries[Len(req.tries) + 1] = a
      /\ \A k \in 1 .. Len(req.tries) : r.tries[k] = req.tries[k]
  <2>1. r.tries = Append(req.tries, a)
    BY <1>1
  <2> QED  BY <1>1, <1>2, <2>1, OneMoreTry
<1>5. r \in [via : {"api", "browser"}, what : {"list", "detail"}, tries : Tries]
      /\ r.via = "api" /\ r.what = req.what
  BY <1>1, <1>4
<1>6. open' = open /\ "page" \notin open
  BY <1>1 DEF ApiAnswers, FetchIInv, NothingLeftOpen
<1>7. r.tries[Len(r.tries)] = a /\ \A k \in 1 .. Len(r.tries) - 1 : Retryable(r.tries[k])
  BY <1>2, <1>3, <1>4
<1>8. (/\ a \in {"json", "html"}
       /\ Settle(r, TRUE, a))
      \/ (/\ Retryable(a) /\ Len(r.tries) < MaxAttempts
          /\ req' = r
          /\ UNCHANGED <<at, browser, models, cars, last, leaks>>)
      \/ (/\ a \in Refusals \cup {NoStatus}
          /\ ~Retryable(a) \/ Len(r.tries) = MaxAttempts
          /\ IF browser /\ FallsBack(a)
             THEN /\ req' = [r EXCEPT !.via = "browser"]
                  /\ UNCHANGED <<at, browser, models, cars, last, leaks>>
             ELSE Settle(r, FALSE, a))
  BY DEF ApiAnswers
<1> HIDE DEF r
<1>9. CASE a \in {"json", "html"} /\ Settle(r, TRUE, a)
  BY <1>1, <1>5, <1>6, <1>9, SettleStep
<1>10. CASE /\ Retryable(a) /\ Len(r.tries) < MaxAttempts
            /\ req' = r
            /\ UNCHANGED <<at, browser, models, cars, last, leaks>>
  <2>1. FetchTypeOK'
    BY <1>5, <1>6, <1>10 DEF FetchIInv, FetchTypeOK
  <2>2. RequestSound'
    <3>1. \A k \in 1 .. Len(r.tries) : Retryable(r.tries[k])
      BY <1>2, <1>3, <1>4, <1>10
    <3> QED  BY <1>1, <1>5, <1>10, <3>1 DEF FetchIInv, RequestSound, Retryable
  <2>3. FallbackEarned'
    BY <1>5, <1>10 DEF FetchIInv, FallbackEarned, Due, Retryable
  <2>4. ResourcesSound' /\ NothingLeftOpen'
    BY <1>6, <1>10 DEF FetchIInv, ResourcesSound, NothingLeftOpen
  <2> QED  BY <2>1, <2>2, <2>3, <2>4 DEF FetchIInv
<1>11. CASE /\ a \in Refusals \cup {NoStatus}
            /\ ~Retryable(a) \/ Len(r.tries) = MaxAttempts
            /\ browser /\ FallsBack(a)
            /\ req' = [r EXCEPT !.via = "browser"]
            /\ UNCHANGED <<at, browser, models, cars, last, leaks>>
  <2>1. Due(r.tries)
    BY <1>4, <1>7, <1>11 DEF Due, Retryable, FallsBack, NoStatus
  <2>2. req' \in [via : {"api", "browser"}, what : {"list", "detail"}, tries : Tries]
        /\ req'.via = "browser" /\ req'.what = req.what /\ req'.tries = r.tries
    BY <1>5, <1>11
  <2>3. FetchTypeOK'
    BY <1>6, <1>11, <2>2 DEF FetchIInv, FetchTypeOK
  <2>4. RequestSound'
    BY <1>1, <1>11, <2>2 DEF FetchIInv, RequestSound, Retryable
  <2>5. FallbackEarned'
    BY <1>11, <2>1, <2>2 DEF FetchIInv, FallbackEarned, Due, Retryable
  <2>6. ResourcesSound' /\ NothingLeftOpen'
    BY <1>6, <1>11, <2>2 DEF FetchIInv, ResourcesSound, NothingLeftOpen
  <2> QED  BY <2>3, <2>4, <2>5, <2>6 DEF FetchIInv
<1>12. CASE /\ a \in Refusals \cup {NoStatus}
            /\ ~Retryable(a) \/ Len(r.tries) = MaxAttempts
            /\ ~(browser /\ FallsBack(a))
            /\ Settle(r, FALSE, a)
  <2>1. browser => ~Due(r.tries)
    BY <1>7, <1>12 DEF Due, FallsBack, NoStatus
  <2> QED  BY <1>1, <1>5, <1>6, <1>12, <2>1, SettleStep
<1> QED  BY <1>8, <1>9, <1>10, <1>11, <1>12

(* The browser answers or not, and the page is closed or left.             *)
LEMMA PageStep ==
    ASSUME FetchIInv, PageStays \/ \E a \in Answers : PageAnswers(a)
    PROVE  FetchIInv'
<1>1. req \in [via : {"api", "browser"}, what : {"list", "detail"}, tries : Tries]
      /\ req # Idle /\ req.via = "browser"
  <2>1. req.via = "browser"
    BY DEF PageAnswers, PageStays
  <2> QED  BY <2>1 DEF FetchIInv, FetchTypeOK, Idle
<1>2. browser /\ Due(req.tries)
  BY <1>1 DEF FetchIInv, FallbackEarned
<1>3. ASSUME NEW a \in Answers, PageAnswers(a)
      PROVE  FetchIInv'
  <2>1. Settle(req, a = "html", a) /\ open' = open \ {"page"}
    BY <1>3 DEF PageAnswers
  <2> QED  BY <1>1, <1>2, <2>1, SettleStep
<1>4. CASE PageStays
  <2>1. Settle(req, FALSE, NoStatus) /\ open' = (open \ {"page"}) \cup {"stray"}
    BY <1>4 DEF PageStays
  <2>2. NoStatus \in Answers
    BY DEF Answers
  <2> QED  BY <1>1, <1>2, <2>1, <2>2, SettleStep
<1> QED  BY <1>3, <1>4

-----------------------------------------------------------------------------
(* The steps that leave the request alone.                                 *)
LEMMA OtherStep ==
    ASSUME FetchIInv,
           \/ Start \/ StartPart \/ StartFails \/ Ask \/ NewPage
           \/ Finish \/ ClosePart \/ CloseFails \/ CloseClient \/ Exit
    PROVE  FetchIInv'
<1>1. CASE Start
  BY <1>1, FetchAssumption DEF Start, FetchIInv, FetchTypeOK, RequestSound,
     FallbackEarned, ResourcesSound, NothingLeftOpen, Resources, Idle, Due, Retryable
<1>2. CASE StartPart
  <2>1. req = Idle /\ last = Idle /\ "page" \notin open
    BY <1>2 DEF StartPart, FetchIInv, RequestSound, NothingLeftOpen, Idle
  <2>2. PICK k \in DOMAIN BrowserParts :
            open' = open \cup {BrowserParts[k]} /\ browser' = (k = Len(BrowserParts))
    BY <1>2 DEF StartPart
  <2>3. Len(BrowserParts) = 3 /\ BrowserParts[3] = "context"
    BY DEF BrowserParts
  <2>4. browser' \in BOOLEAN /\ at' = IF browser' THEN "ready" ELSE "start"
    BY <1>2, <2>2 DEF StartPart
  <2>5. BrowserParts[k] \in Resources /\ BrowserParts[k] \notin {"page", "stray"}
    BY <2>2 DEF Resources, BrowserParts
  <2>6. browser' \in BOOLEAN /\ at' \in {"start", "ready"}
        /\ (at' = "ready" => browser' /\ BrowserParts[k] = "context")
    BY <2>2, <2>3, <2>4
  <2>7. at = "start" /\ "stray" \notin open
    BY <1>2 DEF StartPart, FetchIInv, ResourcesSound
  <2>8. UNCHANGED <<models, cars, req, last, leaks>>
    BY <1>2 DEF StartPart
  <2> QED  BY <2>1, <2>2, <2>5, <2>6, <2>7, <2>8 DEF FetchIInv, FetchTypeOK, RequestSound,
     FallbackEarned, ResourcesSound, NothingLeftOpen, Idle
<1>3. CASE StartFails
  <2>1. req = Idle /\ last = Idle
    BY <1>3 DEF StartFails, FetchIInv, RequestSound
  <2> QED  BY <1>3, <2>1 DEF StartFails, FetchIInv, FetchTypeOK, RequestSound,
     FallbackEarned, ResourcesSound, NothingLeftOpen, Idle
<1>4. CASE Ask
  <2>1. PICK what \in {"list", "detail"} :
            /\ what = "detail" <=> cars > 0
            /\ req' = [via |-> "api", what |-> what, tries |-> <<>>]
    BY <1>4 DEF Ask
  <2>2. <<>> \in Tries
    BY FetchAssumption DEF Tries
  <2>3. FetchTypeOK'
    BY <1>4, <2>1, <2>2 DEF Ask, FetchIInv, FetchTypeOK
  <2>4. RequestSound'
    BY <1>4, <2>1, FetchAssumption DEF Ask, FetchIInv, RequestSound, Idle
  <2>5. FallbackEarned' /\ ResourcesSound' /\ NothingLeftOpen'
    BY <1>4, <2>1 DEF Ask, FetchIInv, FallbackEarned, ResourcesSound, NothingLeftOpen, Idle,
       Due, Retryable
  <2> QED  BY <2>3, <2>4, <2>5 DEF FetchIInv
<1>5. CASE NewPage
  <2>1. at = "ready" /\ req # Idle
    BY <1>5 DEF NewPage, FetchIInv, RequestSound, Idle
  <2> QED  BY <1>5, <2>1 DEF NewPage, FetchIInv, FetchTypeOK, RequestSound,
     FallbackEarned, ResourcesSound, NothingLeftOpen, Resources, Due, Retryable
<1>6. CASE Finish
  BY <1>6 DEF Finish, FetchIInv, FetchTypeOK, RequestSound,
     FallbackEarned, ResourcesSound, NothingLeftOpen, Idle, Due, Retryable
<1>7. CASE ClosePart
  <2>1. PICK k \in DOMAIN BrowserParts :
            /\ \A j \in k + 1 .. Len(BrowserParts) : BrowserParts[j] \notin open
            /\ open' = open \ Within(BrowserParts[k])
            /\ at' = IF k = 1 THEN "closeClient" ELSE at
    BY <1>7 DEF ClosePart
  <2>2. at = "close" /\ req = Idle /\ UNCHANGED <<browser, models, cars, req, last, leaks>>
    BY <1>7 DEF ClosePart, FetchIInv, RequestSound
  <2>3. "page" \notin open
    BY <2>2 DEF FetchIInv, NothingLeftOpen, Idle
  <2>4. k = 1 => open' \subseteq {"client"}
    BY <2>1, <2>2, <2>3 DEF FetchIInv, FetchTypeOK, ResourcesSound, Resources,
       BrowserParts, Within
  <2>5. "stray" \in open' /\ "context" \in open => "context" \in open'
    BY <2>1 DEF BrowserParts, Within
  <2>6. at' \in {"close", "closeClient"} /\ (at' = "closeClient" => k = 1)
    BY <2>1, <2>2
  <2> QED  BY <2>1, <2>2, <2>3, <2>4, <2>5, <2>6 DEF FetchIInv, FetchTypeOK, RequestSound,
     FallbackEarned, ResourcesSound, NothingLeftOpen, Idle, Due, Retryable
<1>8. CASE CloseFails
  BY <1>8 DEF CloseFails, FetchIInv, FetchTypeOK, RequestSound,
     FallbackEarned, ResourcesSound, NothingLeftOpen, Idle, Due, Retryable
<1>9. CASE CloseClient
  BY <1>9 DEF CloseClient, FetchIInv, FetchTypeOK, RequestSound,
     FallbackEarned, ResourcesSound, NothingLeftOpen, Idle, Due, Retryable
<1>10. CASE Exit
  <2>1. req' = Idle /\ last' = Idle /\ open' = {} /\ at' = "off"
    BY <1>10 DEF Exit, FetchIInv, RequestSound
  <2>2. FetchTypeOK'
    BY <1>10, <2>1 DEF Exit, FetchIInv, FetchTypeOK
  <2>3. RequestSound' /\ FallbackEarned'
    BY <2>1, IdleVia DEF RequestSound, FallbackEarned
  <2> QED  BY <2>1, <2>2, <2>3 DEF FetchIInv, ResourcesSound, NothingLeftOpen
<1> QED  BY <1>1, <1>2, <1>3, <1>4, <1>5, <1>6, <1>7, <1>8, <1>9, <1>10

(* A step in which nothing changes.                                        *)
LEMMA FetchStutter == FetchIInv /\ UNCHANGED fetchVars => FetchIInv'
BY DEF fetchVars, FetchIInv, FetchTypeOK, RequestSound, FallbackEarned,
   ResourcesSound, NothingLeftOpen, Due, Retryable, Tries

THEOREM FetchInvariant == FetchSpec => []FetchIInv
<1>1. FetchIInv /\ [FetchNext]_fetchVars => FetchIInv'
  BY ApiStep, PageStep, OtherStep, FetchStutter DEF FetchNext, FetchStep
<1> QED  BY InitFetchIInv, <1>1, PTL DEF FetchSpec

(* The types of Fetch, for any MaxAttempts, NumModels and MaxCars.         *)
THEOREM FetchTypes == FetchSpec => []FetchTypeOK
<1>1. FetchIInv => FetchTypeOK
  BY DEF FetchIInv
<1> QED  BY FetchInvariant, <1>1, PTL

(* While there is a browser it is asked about exactly the requests that    *)
(* ended in a block, or in a rate limit or silence after MaxAttempts       *)
(* attempts (FallbackFetcher.get, factory.py:8-26).                        *)
THEOREM FetchFallbackEarned == FetchSpec => []FallbackEarned
<1>1. FetchIInv => FallbackEarned
  BY DEF FetchIInv
<1> QED  BY FetchInvariant, <1>1, PTL

(* After starting and closing without an error nothing is left open, and   *)
(* a page whose closing raised goes with its context (BrowserFetcher.get   *)
(* and close).                                                             *)
THEOREM FetchNothingLeftOpen == FetchSpec => []NothingLeftOpen
<1>1. FetchIInv => NothingLeftOpen
  BY DEF FetchIInv
<1> QED  BY FetchInvariant, <1>1, PTL

-----------------------------------------------------------------------------
(* The walk.                                                               *)

(* Ages and Never are told apart, and growing older keeps them apart.      *)
LEMMA OlderAge ==
    /\ Never \notin Ages
    /\ \A a \in Ages \cup {Never} : /\ Older(a) \in Ages \cup {Never}
                                    /\ Older(a) = Never <=> a = Never
BY WalkAssumption DEF Ages, Older

(* No walk and a walk are told apart.                                      *)
LEMMA OffIsNoWalk == Off \notin Walk /\ Off.at = "off"
<1>1. Off.at = "off"
  BY DEF Off
<1>2. \A w \in Walk : w.at # "off"
  BY DEF Walk
<1> QED  BY <1>1, <1>2

(* The end of a page is the least of three numbers.                        *)
LEMMA LeastOfThree ==
    ASSUME NEW a \in Nat, NEW b \in Nat, NEW c \in Nat
    PROVE  LET least == Min({a, b, c}) IN
           least \in Nat /\ least <= a /\ least <= b /\ least <= c
             /\ least \in {a, b, c}
<1>1. \E x \in {a, b, c} : \A y \in {a, b, c} : x <= y
  <2>1. CASE a <= b /\ a <= c
    BY <2>1
  <2>2. CASE b <= a /\ b <= c
    BY <2>2
  <2>3. CASE c <= a /\ c <= b
    BY <2>3
  <2> QED  BY <2>1, <2>2, <2>3
<1> QED  BY <1>1 DEF Min

(* What a page of the list holds: at most PageSize cars, and, of a list    *)
(* that fits, the cars behind the pages before it.                         *)
LEMMA PageProperties ==
    ASSUME NEW m \in Models, feed[m] \in Seq(Ids), depth \in Nat,
           NEW p \in 1 .. MaxPages
    PROVE  LET start == (p - 1) * PageSize
               page == Page(m, p) IN
           /\ start \in Nat
           /\ p * PageSize = start + PageSize
           /\ page \in Seq(Ids) /\ Len(page) \in 0 .. PageSize
           /\ Fits(feed[m]) =>
                 Len(page) = IF start >= Len(feed[m]) THEN 0
                             ELSE IF start + PageSize < Len(feed[m]) THEN PageSize
                             ELSE Len(feed[m]) - start
           /\ \A k \in 1 .. Len(page) : page[k] = feed[m][start + k]
<1> DEFINE start == (p - 1) * PageSize
           list == feed[m]
           end == Min({p * PageSize, Len(list), depth})
<1>1. PageSize \in Nat /\ PageSize > 0 /\ p \in Nat /\ p - 1 \in Nat
  BY WalkAssumption
<1>2. start \in Nat
  BY <1>1
<1>3. p * PageSize = start + PageSize
  BY <1>1
<1>4. /\ Len(list) \in Nat
      /\ end \in Nat /\ end <= start + PageSize /\ end <= Len(list) /\ end <= depth
      /\ end = start + PageSize \/ end = Len(list) \/ end = depth
  <2>1. start + PageSize \in Nat /\ Len(list) \in Nat
    BY <1>1, <1>2
  <2> HIDE DEF start, list
  <2>2. end = Min({start + PageSize, Len(list), depth})
    BY <1>3
  <2> HIDE DEF end
  <2> QED  BY <2>1, <2>2, LeastOfThree
<1>5. Page(m, p) = SubSeq(list, start + 1, end)
  BY DEF Page
<1> HIDE DEF start, end
<1>6. \A i \in start + 1 .. end : list[i] \in Ids
  BY <1>2, <1>4
<1>7. /\ SubSeq(list, start + 1, end) \in Seq(Ids)
      /\ Len(SubSeq(list, start + 1, end)) =
           IF start + 1 <= end THEN end - (start + 1) + 1 ELSE 0
      /\ \A i \in 1 .. end - (start + 1) + 1 :
            SubSeq(list, start + 1, end)[i] = list[start + 1 + i - 1]
  <2>1. start + 1 \in Int
    BY <1>2
  <2> QED  BY <2>1, <1>4, <1>6, SubSeqProperties
<1>8. Len(Page(m, p)) = IF start < end THEN end - start ELSE 0
  BY <1>2, <1>4, <1>5, <1>7
<1>9. Len(Page(m, p)) \in 0 .. PageSize
  BY <1>1, <1>2, <1>4, <1>8
<1>10. ASSUME Fits(list)
       PROVE  Len(Page(m, p)) = IF start >= Len(list) THEN 0
                                ELSE IF start + PageSize < Len(list) THEN PageSize
                                ELSE Len(list) - start
  <2>1. Len(list) <= depth
    BY <1>10 DEF Fits
  <2> QED  BY <1>1, <1>2, <1>4, <1>8, <2>1
<1>11. \A k \in 1 .. Len(Page(m, p)) : Page(m, p)[k] = list[start + k]
  BY <1>2, <1>4, <1>5, <1>7
<1> QED  BY <1>2, <1>3, <1>5, <1>7, <1>9, <1>10, <1>11 DEF start

(* What is left of a page without its malformed entries.                   *)
LEMMA ParsedPage ==
    ASSUME NEW page \in Seq(Ids), NEW items \in Parsed(page)
    PROVE  items \in Seq(Ids) /\ Len(items) \in 0 .. Len(page)
<1>1. PICK f \in Kept(Len(page)) : items = [k \in DOMAIN f |-> page[f[k]]]
  BY DEF Parsed
<1>2. PICK n \in 0 .. Len(page) : f \in [1 .. n -> 1 .. Len(page)]
  BY <1>1 DEF Kept
<1>3. items \in [1 .. n -> Ids]
  BY <1>1, <1>2
<1>4. n \in Nat
  BY <1>2
<1> QED  BY <1>2, <1>3, <1>4

-----------------------------------------------------------------------------
(***************************************************************************)
(* Where a walk stands, as long as its list fits, the feed is stable and   *)
(* the answers are sound: the list it reads is the one it began with, the  *)
(* cars on its page are the last of those it has collected, and it has     *)
(* stored and linked all cars before them.                                 *)
(***************************************************************************)
LinkedUpTo(m, n) == \A k \in 1 .. n : <<m, feed[m][k]>> \in linked

PageHeld(w, list) ==
    /\ w.reported = None \/ Len(list) <= w.reported
    /\ w.collected <= Len(list) /\ Len(w.items) <= w.collected
    /\ \/ w.collected = w.page * PageSize
       \/ w.collected = Len(list) /\ Len(list) < w.page * PageSize
    /\ w.got < PageSize => w.collected = Len(list)
    /\ \A k \in 1 .. Len(w.items) :
          w.items[k] = list[w.collected - Len(w.items) + k]

(* The next page begins right behind the cars that were collected, or the  *)
(* end of the list was not noticed and it begins behind that.              *)
BetweenPages(w, list) ==
    /\ w.items = <<>>
    /\ \/ w.collected = (w.page - 1) * PageSize
       \/ w.collected = Len(list) /\ Len(list) < (w.page - 1) * PageSize
    /\ w.collected <= Len(list)
    /\ w.page > 1 => w.reported = None \/ Len(list) <= w.reported

(* A walk that ends has come to the end of its list, or to a car that it   *)
(* knew before.                                                            *)
Arrived(w, list) ==
    /\ w.items = <<>>
    /\ w.collected <= Len(list)
    /\ \/ w.collected = Len(list)
       \/ w.mode = "incremental" /\ seen[list[w.collected + 1]] # Never

Steady(w) == w.calm /\ Fits(feed[w.model])

OnCourse ==
    walk # Off /\ Steady(walk) =>
      LET list == feed[walk.model] IN
      /\ walk.stayed = Range(list)
      /\ walk.at = "list" => BetweenPages(walk, list)
      /\ walk.at \in {"items", "link"} => PageHeld(walk, list)
      /\ walk.at = "done" => Arrived(walk, list)
      /\ LinkedUpTo(walk.model, walk.collected - Len(walk.items))

(* The car being linked has just been stored.                              *)
LinkingStored ==
    walk.at = "link" => walk.items # <<>> /\ seen[Head(walk.items)] # Never

(* The feed lists a car under the models it matches.                       *)
FeedMatches == \A m \in Models : \A i \in Range(feed[m]) : m \in Matches[i]

(* What a calm history leaves between and during walks: behind a car that  *)
(* is stored every car is linked, except that a walk under way has stored  *)
(* cars whose followers it has yet to reach.                               *)
Frontier(m) ==
    IF walk # Off /\ walk.model = m
    THEN walk.collected - Len(walk.items) + (IF walk.at = "link" THEN 1 ELSE 0)
    ELSE 0

BehindStored(m) ==
    \A j, k \in DOMAIN feed[m] :
        Frontier(m) < j /\ j <= k /\ seen[feed[m][j]] # Never
            => <<m, feed[m][k]>> \in linked

CalmHistory ==
    calm => /\ walk # Off => walk.calm
            /\ \A m \in Models : Fits(feed[m])
            /\ \A m \in Models : ~OverlapsAnother(m) => BehindStored(m)

WalkIInv == TypeOK /\ LinkingStored /\ FeedMatches /\ OnCourse /\ CalmHistory

LEMMA InitWalkIInv == Init => WalkIInv
<1> SUFFICES ASSUME Init PROVE WalkIInv
  OBVIOUS
<1>1. \A m \in Models : feed[m] \in Lists(m)
  BY DEF Init
<1>2. ASSUME NEW m \in Models
      PROVE  /\ feed[m] \in Seq(Ids) /\ IsInjective(feed[m])
             /\ \A i \in Range(feed[m]) : m \in Matches[i]
  <2>1. PICK S \in SUBSET {i \in Ids : m \in Matches[i]} : feed[m] \in SetToSeqs(S)
    BY <1>1 DEF Lists, SetToAllKPermutations
  <2>2. Cardinality(S) \in Nat
    BY WalkAssumption, FS_Subset, FS_CardinalityType
  <2>3. /\ feed[m] \in [1 .. Cardinality(S) -> S]
        /\ \A j, k \in 1 .. Cardinality(S) : j # k => feed[m][j] # feed[m][k]
    BY <2>1 DEF SetToSeqs
  <2>4. feed[m] \in Seq(Ids) /\ Range(feed[m]) \subseteq S
    BY <2>2, <2>3 DEF Range
  <2> QED  BY <2>3, <2>4 DEF IsInjective
<1>3. TypeOK
  <2>1. feed \in [Models -> Seq(Ids)]
    BY <1>2 DEF Init
  <2>2. /\ linked = {} /\ walk = Off /\ calm \in BOOLEAN /\ depth \in DepthCaps
        /\ events \in 0 .. MaxEvents
        /\ seen \in [Ids -> {Never}] /\ lastRun \in [Models -> {Never}]
    BY WalkAssumption DEF Init
  <2> QED  BY <1>2, <2>1, <2>2 DEF TypeOK
<1>4. LinkingStored /\ OnCourse
  BY OffIsNoWalk DEF Init, LinkingStored, OnCourse
<1>5. FeedMatches
  BY <1>2 DEF FeedMatches
<1>6. CalmHistory
  <2>1. ASSUME NEW m \in Models, NEW j \in DOMAIN feed[m] PROVE seen[feed[m][j]] = Never
    <3>1. feed[m][j] \in Ids
      BY <1>2
    <3> QED  BY <3>1 DEF Init
  <2> QED  BY <2>1 DEF Init, CalmHistory, BehindStored
<1> QED  BY <1>3, <1>4, <1>5, <1>6 DEF WalkIInv

(* Time passes, or nothing changes: who was ever seen stays the same.      *)
LEMMA SameSeen ==
    ASSUME WalkIInv, UNCHANGED <<feed, depth, linked, walk, calm>>,
           \A i \in Ids : seen'[i] = Never <=> seen[i] = Never
    PROVE  LinkingStored' /\ FeedMatches' /\ OnCourse' /\ CalmHistory'
<1> USE DEF WalkIInv
<1>1. \A m \in Models : feed[m] \in Seq(Ids)
  BY DEF TypeOK
<1>2. LinkingStored'
  <2>1. walk.at = "link" => Head(walk.items) \in Ids
    <3>1. walk.at = "link" => walk \in Walk
      BY OffIsNoWalk DEF TypeOK
    <3>2. walk.at = "link" => walk.items \in Seq(Ids) /\ walk.items # <<>>
      BY <3>1 DEF Walk, LinkingStored
    <3> QED  BY <3>2, HeadTailProperties
  <2> QED  BY <2>1 DEF LinkingStored
<1>3. FeedMatches'
  BY DEF FeedMatches
<1>4. OnCourse'
  <2> SUFFICES ASSUME walk # Off, Steady(walk) PROVE OnCourse'
    BY DEF OnCourse, Steady, Fits
  <2> DEFINE list == feed[walk.model]
  <2>1. walk \in Walk /\ walk.model \in Models
    BY DEF TypeOK, Walk
  <2>2. list \in Seq(Ids) /\ walk.collected \in Nat
    BY <1>1, <2>1 DEF Walk
  <2>3. Arrived(walk, list) => Arrived(walk, list)'
    <3> SUFFICES ASSUME Arrived(walk, list), walk.collected # Len(list)
                 PROVE  seen'[list[walk.collected + 1]] # Never \/ ~Arrived(walk, list)
      BY DEF Arrived
    <3>1. walk.collected < Len(list)
      BY <2>2 DEF Arrived
    <3>2. list[walk.collected + 1] \in Ids
      BY <3>1, <2>2
    <3> QED  BY <3>2 DEF Arrived
  <2>4. BetweenPages(walk, list) <=> BetweenPages(walk, list)'
    BY DEF BetweenPages
  <2>5. PageHeld(walk, list) <=> PageHeld(walk, list)'
    BY DEF PageHeld
  <2>6. LinkedUpTo(walk.model, walk.collected - Len(walk.items))
          <=> LinkedUpTo(walk.model, walk.collected - Len(walk.items))'
    BY DEF LinkedUpTo
  <2> QED  BY <2>3, <2>4, <2>5, <2>6 DEF OnCourse, Steady
<1>5. CalmHistory'
  <2>1. \A m \in Models : Frontier(m)' = Frontier(m)
    BY DEF Frontier
  <2>2. \A m \in Models : BehindStored(m) => BehindStored(m)'
    <3> SUFFICES ASSUME NEW m \in Models, BehindStored(m),
                        NEW j \in DOMAIN feed[m], NEW k \in DOMAIN feed[m],
                        Frontier(m) < j, j <= k, seen'[feed[m][j]] # Never
                 PROVE  <<m, feed[m][k]>> \in linked
      BY <2>1 DEF BehindStored
    <3>1. seen[feed[m][j]] # Never
      BY <1>1
    <3> QED  BY <3>1 DEF BehindStored
  <2>3. \A m \in Models : OverlapsAnother(m)' <=> OverlapsAnother(m)
    BY DEF OverlapsAnother
  <2>4. \A m \in Models : Fits(feed[m])' <=> Fits(feed[m])
    BY DEF Fits
  <2> QED  BY <2>2, <2>3, <2>4 DEF CalmHistory
<1> QED  BY <1>2, <1>3, <1>4, <1>5

LEMMA TickStep ==
    ASSUME WalkIInv, Tick
    PROVE  WalkIInv'
<1>1. \A i \in Ids : seen[i] \in Ages \cup {Never}
  BY DEF WalkIInv, TypeOK
<1>2. \A i \in Ids : /\ seen'[i] \in Ages \cup {Never}
                     /\ seen'[i] = Never <=> seen[i] = Never
  BY <1>1, OlderAge DEF Tick
<1>3. TypeOK'
  <2>1. lastRun' \in [Models -> Ages \cup {Never}]
    BY OlderAge DEF Tick, WalkIInv, TypeOK
  <2>2. seen' \in [Ids -> Ages \cup {Never}]
    BY <1>2 DEF Tick
  <2>3. {i \in Ids : seen'[i] # Never} = {i \in Ids : seen[i] # Never}
    BY <1>2
  <2> QED  BY <2>1, <2>2, <2>3 DEF Tick, WalkIInv, TypeOK
<1> QED  BY <1>2, <1>3, SameSeen DEF Tick, WalkIInv

(* The feed changes under a walk: the walk goes on, but not calmly.        *)
LEMMA DisturbedWalk ==
    ASSUME TypeOK, LinkingStored, NEW X, walk' = Disturbed(walk, X), UNCHANGED seen
    PROVE  /\ walk' = Off \/ walk' \in Walk
           /\ walk' = Off <=> walk = Off
           /\ walk' # Off => ~walk'.calm
           /\ LinkingStored' /\ OnCourse'
<1>1. CASE walk = Off
  BY <1>1, OffIsNoWalk DEF Disturbed, LinkingStored, OnCourse, Steady
<1>2. CASE walk # Off
  <2>1. walk \in Walk
    BY <1>2 DEF TypeOK
  <2>2. walk' = [walk EXCEPT !.stayed = @ \ X, !.calm = FALSE]
    BY <1>2 DEF Disturbed
  <2>3. walk' \in Walk /\ walk'.calm = FALSE
        /\ walk'.at = walk.at /\ walk'.items = walk.items
    BY <2>1, <2>2 DEF Walk
  <2>4. walk' # Off
    BY <2>3, OffIsNoWalk
  <2> QED  BY <1>2, <2>3, <2>4 DEF LinkingStored, OnCourse, Steady
<1> QED  BY <1>1, <1>2

(* The list of one model after i was withdrawn: the others are in the      *)
(* order they were in.                                                     *)
LEMMA WithdrawnList ==
    ASSUME NEW list \in Seq(Ids), IsInjective(list), NEW i
    PROVE  LET new == RemoveFirst(list, i) IN
           /\ new \in Seq(Ids) /\ IsInjective(new)
           /\ Range(new) = Range(list) \ {i}
           /\ Len(new) <= Len(list)
           /\ \A j, k \in DOMAIN new :
                 j <= k => \E a, b \in DOMAIN list :
                              a <= b /\ list[a] = new[j] /\ list[b] = new[k]
<1> DEFINE new == RemoveFirst(list, i)
<1>1. /\ new \in Seq(Ids) /\ IsInjective(new)
      /\ Range(new) = Range(list) \ {i}
      /\ Len(new) <= Len(list)
      /\ \A j, k \in 1 .. Len(new) :
            j < k => \E a, b \in 1 .. Len(list) :
                        a < b /\ list[a] = new[j] /\ list[b] = new[k]
  BY RemoveFirstProperties
<1> HIDE DEF new
<1>2. DOMAIN new = 1 .. Len(new) /\ DOMAIN list = 1 .. Len(list)
  BY <1>1
<1>3. ASSUME NEW j \in DOMAIN new, NEW k \in DOMAIN new, j <= k
      PROVE  \E a, b \in DOMAIN list : a <= b /\ list[a] = new[j] /\ list[b] = new[k]
  <2>1. CASE j < k
    <3>1. PICK a \in 1 .. Len(list), b \in 1 .. Len(list) :
             a < b /\ list[a] = new[j] /\ list[b] = new[k]
      BY <1>1, <1>2, <2>1
    <3> QED  BY <1>2, <3>1
  <2>2. CASE j = k
    <3>1. new[j] \in Range(list)
      BY <1>1 DEF Range
    <3> QED  BY <1>2, <2>2, <3>1 DEF Range
  <2> QED  BY <1>2, <1>3, <2>1, <2>2
<1> QED  BY <1>1, <1>3 DEF new

(* The list of one model after a publication: i comes first, the others    *)
(* follow in the order they were in.                                       *)
LEMMA PublishedList ==
    ASSUME NEW list \in Seq(Ids), IsInjective(list), NEW i \in Ids
    PROVE  LET new == <<i>> \o RemoveFirst(list, i) IN
           /\ new \in Seq(Ids) /\ IsInjective(new)
           /\ Range(new) = Range(list) \cup {i}
           /\ new[1] = i
           /\ \A j, k \in DOMAIN new :
                 1 < j /\ j <= k => \E a, b \in DOMAIN list :
                                       a <= b /\ list[a] = new[j] /\ list[b] = new[k]
<1> DEFINE r == RemoveFirst(list, i)
           new == <<i>> \o r
<1>1. /\ r \in Seq(Ids) /\ IsInjective(r)
      /\ Range(r) = Range(list) \ {i}
      /\ \A j, k \in DOMAIN r :
            j <= k => \E a, b \in DOMAIN list :
                         a <= b /\ list[a] = r[j] /\ list[b] = r[k]
  BY WithdrawnList
<1> HIDE DEF r
<1>2. /\ new \in Seq(Ids)
      /\ Len(new) = 1 + Len(r)
      /\ new[1] = i
      /\ \A k \in 2 .. Len(new) : new[k] = r[k - 1]
  BY <1>1
<1> HIDE DEF new
<1>3. \A k \in 1 .. Len(r) : r[k] # i /\ r[k] \in Range(list)
  <2>1. \A k \in 1 .. Len(r) : r[k] \in Range(r)
    BY <1>1 DEF Range
  <2> QED  BY <2>1, <1>1
<1>4. IsInjective(new)
  <2> SUFFICES ASSUME NEW j \in 1 .. Len(new), NEW k \in 1 .. Len(new), new[j] = new[k]
               PROVE  j = k
    BY <1>2 DEF IsInjective
  <2>0. \A x \in 1 .. Len(new) : x # 1 => /\ x - 1 \in 1 .. Len(r)
                                          /\ new[x] = r[x - 1]
    <3>1. Len(r) \in Nat /\ Len(new) = 1 + Len(r)
      BY <1>1, <1>2
    <3>2. \A x \in 1 .. 1 + Len(r) : x # 1 => x \in 2 .. 1 + Len(r)
                                              /\ x - 1 \in 1 .. Len(r)
      BY <3>1
    <3> QED  BY <1>2, <3>1, <3>2
  <2>1. CASE j = 1 \/ k = 1
    BY <1>2, <1>3, <2>0, <2>1
  <2>2. CASE j # 1 /\ k # 1
    <3>1. j - 1 \in 1 .. Len(r) /\ k - 1 \in 1 .. Len(r) /\ r[j - 1] = r[k - 1]
      BY <2>0, <2>2
    <3>2. j - 1 = k - 1
      BY <1>1, <3>1 DEF IsInjective
    <3> QED  BY <3>2
  <2> QED  BY <2>1, <2>2
<1>5. Range(new) = Range(list) \cup {i}
  <2>1. \A k \in 1 .. Len(new) : new[k] \in Range(list) \cup {i}
    <3> SUFFICES ASSUME NEW k \in 1 .. Len(new) PROVE new[k] \in Range(list) \cup {i}
      OBVIOUS
    <3>1. CASE k = 1
      BY <1>2, <3>1
    <3>2. CASE k # 1
      BY <1>1, <1>2, <1>3, <3>2
    <3> QED  BY <3>1, <3>2
  <2>2. ASSUME NEW x \in Range(list) \cup {i} PROVE x \in Range(new)
    <3>1. DOMAIN new = 1 .. Len(new) /\ Len(r) \in Nat
      BY <1>1, <1>2
    <3>2. CASE x = i
      BY <1>1, <1>2, <3>1, <3>2 DEF Range
    <3>3. CASE x # i
      <4>1. x \in Range(r) /\ DOMAIN r = 1 .. Len(r)
        BY <1>1, <2>2, <3>3
      <4>2. PICK k \in 1 .. Len(r) : r[k] = x
        BY <4>1 DEF Range
      <4>3. k + 1 \in 1 .. Len(new) /\ new[k + 1] = x
        BY <1>2, <3>1, <4>2
      <4> QED  BY <3>1, <4>3 DEF Range
    <3> QED  BY <3>2, <3>3
  <2>3. DOMAIN new = 1 .. Len(new)
    BY <1>2
  <2> QED  BY <2>1, <2>2, <2>3 DEF Range
<1>6. ASSUME NEW j \in DOMAIN new, NEW k \in DOMAIN new, 1 < j, j <= k
      PROVE  \E a, b \in DOMAIN list : a <= b /\ list[a] = new[j] /\ list[b] = new[k]
  <2>1. /\ j - 1 \in DOMAIN r /\ k - 1 \in DOMAIN r /\ j - 1 <= k - 1
        /\ new[j] = r[j - 1] /\ new[k] = r[k - 1]
    BY <1>1, <1>2, <1>6
  <2> QED  BY <1>1, <2>1
<1> QED  BY <1>2, <1>4, <1>5, <1>6 DEF new, r

LEMMA PublishStep ==
    ASSUME WalkIInv, NEW i \in Ids, Publish(i)
    PROVE  WalkIInv'
<1> DEFINE new(m) == <<i>> \o RemoveFirst(feed[m], i)
<1>1. \A m \in Models : feed[m] \in Seq(Ids) /\ IsInjective(feed[m])
  BY DEF WalkIInv, TypeOK
<1>2. \A m \in Models : feed'[m] = IF m \in Matches[i] THEN new(m) ELSE feed[m]
  BY DEF Publish
<1>3. \A m \in Models :
         /\ new(m) \in Seq(Ids) /\ IsInjective(new(m))
         /\ Range(new(m)) = Range(feed[m]) \cup {i}
         /\ new(m)[1] = i
         /\ \A j, k \in DOMAIN new(m) :
               1 < j /\ j <= k =>
                  \E a, b \in DOMAIN feed[m] :
                     a <= b /\ feed[m][a] = new(m)[j] /\ feed[m][b] = new(m)[k]
  BY <1>1, PublishedList
<1> HIDE DEF new
<1>4. /\ walk' = Off \/ walk' \in Walk
      /\ walk' = Off <=> walk = Off
      /\ LinkingStored' /\ OnCourse'
  BY DisturbedWalk DEF Publish, WalkIInv
<1>5. TypeOK'
  <2>1. feed' \in [Models -> Seq(Ids)] /\ \A m \in Models : IsInjective(feed'[m])
    BY <1>1, <1>2, <1>3 DEF Publish
  <2>2. events' \in 0 .. MaxEvents /\ calm' \in BOOLEAN
    BY WalkAssumption DEF Publish, Event, WalkIInv, TypeOK
  <2> QED  BY <1>4, <2>1, <2>2 DEF Publish, WalkIInv, TypeOK
<1>6. FeedMatches'
  <2> SUFFICES ASSUME NEW m \in Models, NEW x \in Range(feed'[m])
               PROVE  m \in Matches[x]
    BY DEF FeedMatches
  <2>1. CASE m \in Matches[i]
    BY <1>2, <1>3, <2>1 DEF WalkIInv, FeedMatches
  <2>2. CASE m \notin Matches[i]
    BY <1>2, <2>2 DEF WalkIInv, FeedMatches
  <2> QED  BY <2>1, <2>2
<1>7. CalmHistory'
  <2> SUFFICES ASSUME calm' PROVE CalmHistory'
    BY DEF CalmHistory
  <2>1. calm /\ walk = Off /\ seen[i] = Never
        /\ \A m \in Matches[i] : Fits(feed'[m])
    BY DEF Publish
  <2>2. walk' = Off
    BY <1>4, <2>1
  <2>3. ASSUME NEW m \in Models PROVE Fits(feed'[m])
    BY <1>2, <2>1 DEF WalkIInv, CalmHistory
  <2>4. ASSUME NEW m \in Models, ~OverlapsAnother(m) PROVE BehindStored(m)'
    <3>1. Frontier(m) = 0 /\ Frontier(m)' = 0
      BY <2>1, <2>2 DEF Frontier
    <3>2. BehindStored(m)
      BY <2>1, <2>4 DEF WalkIInv, CalmHistory
    <3>3. CASE m \notin Matches[i]
      BY <1>2, <3>1, <3>2, <3>3 DEF BehindStored, Publish
    <3>4. CASE m \in Matches[i]
      <4> SUFFICES ASSUME NEW j \in DOMAIN new(m), NEW k \in DOMAIN new(m),
                          j <= k, seen[new(m)[j]] # Never
                   PROVE  <<m, new(m)[k]>> \in linked
        BY <1>2, <3>4 DEF BehindStored, Publish
      <4>1. j \in Nat /\ j # 0 /\ j # 1
        BY <1>3, <2>1
      <4>2. PICK a \in DOMAIN feed[m], b \in DOMAIN feed[m] :
               a <= b /\ feed[m][a] = new(m)[j] /\ feed[m][b] = new(m)[k]
        BY <1>3, <4>1
      <4>3. 0 < a
        BY <1>1
      <4> QED  BY <3>1, <3>2, <4>2, <4>3 DEF BehindStored
    <3> QED  BY <3>3, <3>4
  <2>5. \A m \in Models : OverlapsAnother(m)' <=> OverlapsAnother(m)
    BY DEF OverlapsAnother
  <2>6. depth' = depth
    BY DEF Publish
  <2> QED  BY <2>2, <2>3, <2>4, <2>5, <2>6 DEF CalmHistory, Fits
<1> QED  BY <1>4, <1>5, <1>6, <1>7 DEF WalkIInv

LEMMA WithdrawStep ==
    ASSUME WalkIInv, NEW i \in Ids, Withdraw(i)
    PROVE  WalkIInv'
<1> DEFINE new(m) == RemoveFirst(feed[m], i)
<1>1. \A m \in Models : feed[m] \in Seq(Ids) /\ IsInjective(feed[m])
  BY DEF WalkIInv, TypeOK
<1>2. \A m \in Models : feed'[m] = new(m)
  BY DEF Withdraw
<1>3. \A m \in Models :
         /\ new(m) \in Seq(Ids) /\ IsInjective(new(m))
         /\ Range(new(m)) = Range(feed[m]) \ {i}
         /\ Len(new(m)) <= Len(feed[m])
         /\ \A j, k \in DOMAIN new(m) :
               j <= k => \E a, b \in DOMAIN feed[m] :
                            a <= b /\ feed[m][a] = new(m)[j] /\ feed[m][b] = new(m)[k]
  BY <1>1, WithdrawnList
<1> HIDE DEF new
<1>4. /\ walk' = Off \/ walk' \in Walk
      /\ walk' = Off <=> walk = Off
      /\ LinkingStored' /\ OnCourse'
  BY DisturbedWalk DEF Withdraw, WalkIInv
<1>5. TypeOK'
  <2>1. feed' \in [Models -> Seq(Ids)] /\ \A m \in Models : IsInjective(feed'[m])
    BY <1>2, <1>3 DEF Withdraw
  <2>2. events' \in 0 .. MaxEvents /\ calm' \in BOOLEAN
    BY WalkAssumption DEF Withdraw, Event, WalkIInv, TypeOK
  <2> QED  BY <1>4, <2>1, <2>2 DEF Withdraw, WalkIInv, TypeOK
<1>6. FeedMatches'
  BY <1>2, <1>3 DEF WalkIInv, FeedMatches
<1>7. CalmHistory'
  <2> SUFFICES ASSUME calm' PROVE CalmHistory'
    BY DEF CalmHistory
  <2>1. calm /\ walk = Off /\ walk' = Off
    BY <1>4 DEF Withdraw
  <2>2. ASSUME NEW m \in Models PROVE Fits(feed'[m])
    <3>1. Len(new(m)) \in Nat /\ Len(feed[m]) \in Nat /\ Len(new(m)) <= Len(feed[m])
      BY <1>1, <1>3
    <3>2. MaxPages * PageSize \in Nat /\ depth \in Nat
      BY WalkAssumption DEF WalkIInv, TypeOK
    <3>3. Fits(feed[m])
      BY <2>1 DEF WalkIInv, CalmHistory
    <3> QED  BY <1>2, <3>1, <3>2, <3>3 DEF Fits
  <2>3. ASSUME NEW m \in Models, ~OverlapsAnother(m) PROVE BehindStored(m)'
    <3>1. Frontier(m) = 0 /\ Frontier(m)' = 0
      BY <2>1 DEF Frontier
    <3>2. BehindStored(m)
      BY <2>1, <2>3 DEF WalkIInv, CalmHistory
    <3> SUFFICES ASSUME NEW j \in DOMAIN new(m), NEW k \in DOMAIN new(m),
                        j <= k, seen[new(m)[j]] # Never
                 PROVE  <<m, new(m)[k]>> \in linked
      BY <1>2 DEF BehindStored, Withdraw
    <3>3. PICK a \in DOMAIN feed[m], b \in DOMAIN feed[m] :
             a <= b /\ feed[m][a] = new(m)[j] /\ feed[m][b] = new(m)[k]
      BY <1>3
    <3>4. 0 < a
      BY <1>1
    <3> QED  BY <3>1, <3>2, <3>3, <3>4 DEF BehindStored
  <2>4. \A m \in Models : OverlapsAnother(m)' <=> OverlapsAnother(m)
    BY DEF OverlapsAnother
  <2>5. depth' = depth
    BY DEF Withdraw
  <2> QED  BY <2>1, <2>2, <2>3, <2>4, <2>5 DEF CalmHistory, Fits
<1> QED  BY <1>4, <1>5, <1>6, <1>7 DEF WalkIInv

(* A walk that is given up: nothing is left of it but what it stored.      *)
LEMMA GivenUp ==
    ASSUME WalkIInv, Kill \/ ListFails
    PROVE  WalkIInv'
<1>1. walk' = Off /\ calm' = FALSE /\ UNCHANGED <<feed, depth, seen, linked, lastRun>>
  BY DEF Kill, ListFails
<1>2. events' \in 0 .. MaxEvents
  BY WalkAssumption DEF Kill, ListFails, Event, WalkIInv, TypeOK
<1>3. TypeOK' /\ FeedMatches'
  BY <1>1, <1>2 DEF WalkIInv, TypeOK, FeedMatches
<1>4. LinkingStored' /\ OnCourse' /\ CalmHistory'
  BY <1>1, OffIsNoWalk DEF LinkingStored, OnCourse, CalmHistory
<1> QED  BY <1>3, <1>4 DEF WalkIInv

-----------------------------------------------------------------------------
(* What is known while a walk is under way.                                *)
LEMMA UnderWay ==
    ASSUME WalkIInv, walk # Off
    PROVE  /\ walk \in Walk /\ walk.model \in Models
           /\ feed[walk.model] \in Seq(Ids) /\ IsInjective(feed[walk.model])
           /\ walk.items \in Seq(Ids) /\ walk.collected \in Nat
           /\ walk.page \in 1 .. MaxPages
BY DEF WalkIInv, TypeOK, Walk

(* The next car of the page.                                               *)
LEMMA NextCar ==
    ASSUME WalkIInv, walk # Off, walk.items # <<>>
    PROVE  /\ Len(walk.items) \in Nat \ {0}
           /\ Head(walk.items) = walk.items[1] /\ Head(walk.items) \in Ids
           /\ Tail(walk.items) \in Seq(Ids)
           /\ Len(Tail(walk.items)) = Len(walk.items) - 1
           /\ \A k \in 1 .. Len(walk.items) - 1 : Tail(walk.items)[k] = walk.items[k + 1]
<1>1. walk.items \in Seq(Ids)
  BY UnderWay
<1>2. Len(walk.items) \in Nat \ {0}
  BY <1>1
<1> QED  BY <1>1, <1>2, HeadTailProperties

(* On a calm walk it is the first car of the list that is not linked yet.  *)
LEMMA NextOnList ==
    ASSUME WalkIInv, walk # Off, Steady(walk), walk.at \in {"items", "link"},
           walk.items # <<>>
    PROVE  LET done == walk.collected - Len(walk.items) IN
           /\ done \in Nat /\ done + 1 \in 1 .. Len(feed[walk.model])
           /\ Head(walk.items) = feed[walk.model][done + 1]
<1>1. PageHeld(walk, feed[walk.model])
  BY DEF WalkIInv, OnCourse
<1>2. walk.collected \in Nat /\ Len(feed[walk.model]) \in Nat
  BY UnderWay
<1>3. Len(walk.items) \in Nat \ {0} /\ Head(walk.items) = walk.items[1]
  BY NextCar
<1>4. /\ walk.collected <= Len(feed[walk.model]) /\ Len(walk.items) <= walk.collected
      /\ walk.items[1] = feed[walk.model][walk.collected - Len(walk.items) + 1]
  BY <1>1, <1>3 DEF PageHeld
<1>5. \A c, n, len \in Nat :
         n # 0 /\ c <= len /\ n <= c => c - n \in Nat /\ c - n + 1 \in 1 .. len
  OBVIOUS
<1>6. LET done == walk.collected - Len(walk.items) IN
      done \in Nat /\ done + 1 \in 1 .. Len(feed[walk.model])
  BY <1>2, <1>3, <1>4, <1>5
<1> QED  BY <1>3, <1>4, <1>6

LEMMA StartStep ==
    ASSUME WalkIInv, NEW m \in Models, NEW mode \in Modes, StartWalk(m, mode)
    PROVE  WalkIInv'
<1>1. /\ walk = Off
      /\ walk' = [at |-> "list", model |-> m, mode |-> mode, page |-> 1,
                  items |-> <<>>, got |-> 0, reported |-> None, collected |-> 0,
                  fetched |-> 0, stayed |-> Range(feed[m]), calm |-> TRUE]
      /\ UNCHANGED <<feed, depth, seen, linked, lastRun, calm, events>>
  BY DEF StartWalk
<1>2. walk' \in Walk /\ walk' # Off
  <2>1. feed[m] \in Seq(Ids)
    BY DEF WalkIInv, TypeOK
  <2>2. Range(feed[m]) \subseteq Ids
    BY <2>1 DEF Range
  <2>3. 1 \in 1 .. MaxPages /\ 0 \in 0 .. PageSize
    BY WalkAssumption
  <2>4. walk' \in Walk
    BY <1>1, <2>2, <2>3 DEF Walk
  <2> QED  BY <2>4, OffIsNoWalk
<1>3. TypeOK' /\ FeedMatches'
  BY <1>1, <1>2 DEF WalkIInv, TypeOK, FeedMatches
<1>4. LinkingStored'
  BY <1>1 DEF LinkingStored
<1>5. walk'.collected - Len(walk'.items) = 0
  BY <1>1
<1>6. OnCourse'
  <2>1. Len(feed[m]) \in Nat /\ PageSize \in Nat
    BY WalkAssumption DEF WalkIInv, TypeOK
  <2>2. BetweenPages(walk', feed[m])
    BY <1>1, <2>1 DEF BetweenPages
  <2>3. LinkedUpTo(m, 0)'
    BY DEF LinkedUpTo
  <2> QED  BY <1>1, <1>5, <2>2, <2>3 DEF OnCourse, BetweenPages, Steady
<1>7. CalmHistory'
  <2>1. \A k \in Models : Frontier(k)' = 0 /\ Frontier(k) = 0
    BY <1>1, <1>5 DEF Frontier
  <2>2. \A k \in Models : BehindStored(k) => BehindStored(k)'
    BY <1>1, <2>1 DEF BehindStored
  <2>3. \A k \in Models : OverlapsAnother(k)' <=> OverlapsAnother(k)
    BY DEF OverlapsAnother
  <2> QED  BY <1>1, <2>2, <2>3 DEF WalkIInv, CalmHistory, Fits
<1> QED  BY <1>3, <1>4, <1>6, <1>7 DEF WalkIInv

(* A step of the walk that stores nothing keeps what a calm history has    *)
(* left, as long as it does not move its frontier.                         *)
LEMMA SameFrontier ==
    ASSUME WalkIInv, walk # Off, walk' # Off, walk'.calm = walk.calm,
           UNCHANGED <<feed, depth, seen, calm>>, linked \subseteq linked',
           \A m \in Models : Frontier(m)' = Frontier(m)
    PROVE  CalmHistory'
<1>1. \A m \in Models : BehindStored(m) => BehindStored(m)'
  BY DEF BehindStored
<1>2. \A m \in Models : OverlapsAnother(m)' <=> OverlapsAnother(m)
  BY DEF OverlapsAnother
<1> QED  BY <1>1, <1>2 DEF WalkIInv, CalmHistory, Fits

(* Staying on course, said of the walk after the step.                     *)
LEMMA OnCourseNext ==
    ASSUME UNCHANGED feed, walk'.model = walk.model,
           UNCHANGED depth,
           walk'.calm /\ Fits(feed[walk.model]) =>
             LET list == feed[walk.model] IN
             /\ walk'.stayed = Range(list)
             /\ walk'.at = "list" => BetweenPages(walk', list)
             /\ walk'.at \in {"items", "link"} => PageHeld(walk', list)
             /\ walk'.at = "done" => UNCHANGED seen /\ Arrived(walk', list)
             /\ \A k \in 1 .. walk'.collected - Len(walk'.items) :
                   <<walk.model, list[k]>> \in linked'
    PROVE  OnCourse'
<1> SUFFICES ASSUME walk'.calm, Fits(feed[walk.model]) PROVE OnCourse'
  BY DEF OnCourse, Steady, Fits
<1> DEFINE list == feed[walk.model]
<1>1. list' = list
  OBVIOUS
<1>2. BetweenPages(walk', list) => BetweenPages(walk, list)'
  BY <1>1 DEF BetweenPages
<1>3. PageHeld(walk', list) => PageHeld(walk, list)'
  BY <1>1 DEF PageHeld
<1>4. UNCHANGED seen /\ Arrived(walk', list) => Arrived(walk, list)'
  BY <1>1 DEF Arrived
<1>5. LinkedUpTo(walk.model, walk.collected - Len(walk.items))'
  BY DEF LinkedUpTo
<1> HIDE DEF list
<1>6. /\ walk'.stayed = Range(list)
      /\ walk'.at = "list" => BetweenPages(walk, list)'
      /\ walk'.at \in {"items", "link"} => PageHeld(walk, list)'
      /\ walk'.at = "done" => Arrived(walk, list)'
  BY <1>2, <1>3, <1>4 DEF list
<1> QED  BY <1>1, <1>5, <1>6 DEF OnCourse, list

LEMMA FetchPageStep ==
    ASSUME WalkIInv, FetchPage
    PROVE  WalkIInv'
<1> DEFINE list == feed[walk.model]
           page == Page(walk.model, walk.page)
           start == (walk.page - 1) * PageSize
           Sound(count, items) ==
               /\ items = page
               /\ walk.page = 1 => ~TooLow(count, list)
           stops(items) == StopsBefore(walk.mode, items)
<1>1. walk.at = "list" /\ walk # Off
  BY OffIsNoWalk DEF FetchPage
<1>2. /\ walk \in Walk /\ walk.model \in Models /\ list \in Seq(Ids)
      /\ walk.items \in Seq(Ids) /\ walk.collected \in Nat /\ walk.page \in 1 .. MaxPages
  BY <1>1, UnderWay
<1>3. /\ start \in Nat
      /\ walk.page * PageSize = start + PageSize
      /\ page \in Seq(Ids) /\ Len(page) \in 0 .. PageSize
      /\ Fits(list) => Len(page) = IF start >= Len(list) THEN 0
                                   ELSE IF start + PageSize < Len(list) THEN PageSize
                                   ELSE Len(list) - start
      /\ \A k \in 1 .. Len(page) : page[k] = list[start + k]
  <2>1. depth \in Nat
    BY WalkAssumption DEF WalkIInv, TypeOK
  <2> QED  BY <1>2, <2>1, PageProperties
<1>4. PICK count \in Counts \cup {None}, items \in Parsed(page) :
        /\ walk' = [walk EXCEPT
                      !.reported = IF walk.page = 1 THEN count ELSE @,
                      !.at = IF stops(items) THEN "done" ELSE "items",
                      !.items = IF stops(items) THEN <<>> ELSE items,
                      !.got = Len(items),
                      !.collected = IF stops(items) THEN @ ELSE @ + Len(items),
                      !.calm = @ /\ Sound(count, items)]
        /\ calm' = (calm /\ Sound(count, items))
  BY DEF FetchPage
<1>5. UNCHANGED <<feed, depth, seen, linked, lastRun, events>>
  BY DEF FetchPage
<1>6. stops(items) <=> \/ items = <<>>
                       \/ walk.mode = "incremental" /\ SeenRecently(items[1])
  BY DEF StopsBefore
<1>7. /\ items \in Seq(Ids) /\ Len(items) \in 0 .. PageSize /\ Len(items) \in Nat
      /\ Len(list) \in Nat /\ PageSize \in Nat /\ count \in Nat \cup {None}
  <2>1. items \in Seq(Ids) /\ Len(items) \in 0 .. Len(page)
    BY <1>3, ParsedPage
  <2> QED  BY <1>2, <1>3, <2>1, WalkAssumption
<1> HIDE DEF list, page, start, stops, Sound
<1>8. /\ walk' \in Walk /\ walk'.model = walk.model
      /\ walk'.calm = (walk.calm /\ Sound(count, items))
      /\ walk'.stayed = walk.stayed /\ walk'.page = walk.page /\ walk'.mode = walk.mode
      /\ walk'.got = Len(items)
      /\ walk'.reported = IF walk.page = 1 THEN count ELSE walk.reported
      /\ walk'.at = IF stops(items) THEN "done" ELSE "items"
      /\ walk'.items = IF stops(items) THEN <<>> ELSE items
      /\ walk'.collected = IF stops(items) THEN walk.collected
                                           ELSE walk.collected + Len(items)
  <2> DEFINE reported == IF walk.page = 1 THEN count ELSE walk.reported
             place == IF stops(items) THEN "done" ELSE "items"
             held == IF stops(items) THEN <<>> ELSE items
             collected == IF stops(items) THEN walk.collected
                                          ELSE walk.collected + Len(items)
             steady == walk.calm /\ Sound(count, items)
  <2>1. /\ reported \in Nat \cup {None} /\ place \in {"list", "items", "link", "done"}
        /\ held \in Seq(Ids) /\ collected \in Nat /\ steady \in BOOLEAN
    BY <1>2, <1>7 DEF Walk
  <2>2. walk' = [walk EXCEPT !.reported = reported, !.at = place, !.items = held,
                             !.got = Len(items), !.collected = collected,
                             !.calm = steady]
    BY <1>4
  <2> HIDE DEF reported, place, held, collected, steady
  <2>3. /\ walk' \in Walk /\ walk'.model = walk.model /\ walk'.calm = steady
        /\ walk'.stayed = walk.stayed /\ walk'.page = walk.page
        /\ walk'.mode = walk.mode
        /\ walk'.got = Len(items) /\ walk'.reported = reported /\ walk'.at = place
        /\ walk'.items = held /\ walk'.collected = collected
    BY <1>2, <1>7, <2>1, <2>2 DEF Walk
  <2> QED  BY <2>3 DEF reported, place, held, collected, steady
<1>9. walk' # Off
  BY <1>8, OffIsNoWalk
<1>10. TypeOK' /\ FeedMatches' /\ LinkingStored'
  <2>1. calm' \in BOOLEAN
    BY <1>4
  <2> QED  BY <1>5, <1>8, <2>1 DEF WalkIInv, TypeOK, FeedMatches, LinkingStored
<1>11. Steady(walk) => /\ walk.items = <<>> /\ walk.collected <= Len(list)
                       /\ \/ walk.collected = start
                          \/ walk.collected = Len(list) /\ Len(list) < start
                       /\ walk.page > 1 => \/ walk.reported = None
                                           \/ Len(list) <= walk.reported
                       /\ walk.stayed = Range(list)
                       /\ LinkedUpTo(walk.model, walk.collected)
  <2>1. Steady(walk) => /\ BetweenPages(walk, list) /\ walk.stayed = Range(list)
                        /\ LinkedUpTo(walk.model, walk.collected - Len(walk.items))
    BY <1>1 DEF WalkIInv, OnCourse, list
  <2>2. walk.items = <<>> => walk.collected - Len(walk.items) = walk.collected
    BY <1>2
  <2> QED  BY <2>1, <2>2 DEF BetweenPages, start
<1>12. walk'.collected - Len(walk'.items) = walk.collected
  <2>1. CASE stops(items)
    BY <1>2, <1>8, <2>1
  <2>2. CASE ~stops(items)
    <3>1. walk'.collected = walk.collected + Len(items) /\ walk'.items = items
      BY <1>8, <2>2
    <3> QED  BY <1>2, <1>7, <3>1
  <2> QED  BY <2>1, <2>2
<1>13. OnCourse'
  <2> SUFFICES ASSUME walk.calm, Sound(count, items), Fits(list)
               PROVE  /\ walk'.stayed = Range(list)
                      /\ walk'.at = "items" => PageHeld(walk', list)
                      /\ walk'.at = "done" => Arrived(walk', list)
                      /\ \A k \in 1 .. walk.collected : <<walk.model, list[k]>> \in linked'
    <3>1. Steady(walk) <=> walk.calm /\ Fits(list)
      BY DEF Steady, list
    <3> QED  BY <1>5, <1>8, <1>12, <3>1, OnCourseNext DEF list
  <2>1. Steady(walk) /\ items = page
    BY DEF Steady, Sound, list
  <2>2. /\ Len(items) = IF start >= Len(list) THEN 0
                        ELSE IF start + PageSize < Len(list) THEN PageSize
                        ELSE Len(list) - start
        /\ \A k \in 1 .. Len(items) : items[k] = list[start + k]
    BY <1>3, <2>1
  <2>3. ASSUME ~stops(items) PROVE PageHeld(walk', list)
    <3>1. walk'.reported = None \/ Len(list) <= walk'.reported
      <4>1. CASE walk.page = 1
        BY <1>7, <1>8, <4>1 DEF Sound, TooLow
      <4>2. CASE walk.page # 1
        BY <1>2, <1>8, <1>11, <2>1, <4>2
      <4> QED  BY <4>1, <4>2
    <3>2. items # <<>> /\ Len(items) # 0
      BY <1>6, <1>7, <2>3
    <3>3. /\ start < Len(list)
          /\ Len(items) = IF start + PageSize < Len(list)
                           THEN PageSize ELSE Len(list) - start
      BY <1>3, <1>7, <2>2, <3>2
    <3>4. walk'.collected = start + Len(items) /\ walk'.items = items
          /\ walk'.got = Len(items) /\ walk'.page = walk.page
      <4>1. walk.collected = start
        BY <1>3, <1>7, <1>11, <2>1, <3>3
      <4> QED  BY <1>8, <2>3, <4>1
    <3>5. /\ walk'.collected <= Len(list) /\ Len(items) <= walk'.collected
          /\ \/ walk'.collected = walk'.page * PageSize
             \/ walk'.collected = Len(list) /\ Len(list) < walk'.page * PageSize
          /\ walk'.got < PageSize => walk'.collected = Len(list)
      <4>1. walk'.page * PageSize = start + PageSize
        BY <1>3, <3>4
      <4>2. CASE start + PageSize < Len(list)
        <5>1. walk'.collected = start + PageSize
          BY <3>3, <3>4, <4>2
        <5> QED  BY <1>3, <1>7, <3>3, <3>4, <4>1, <4>2, <5>1
      <4>3. CASE ~(start + PageSize < Len(list))
        <5>1. Len(items) = Len(list) - start
          BY <3>3, <4>3
        <5>2. walk'.collected = Len(list)
          BY <1>3, <1>7, <3>4, <5>1
        <5>3. Len(items) <= Len(list)
          BY <1>3, <1>7, <5>1
        <5>4. Len(list) = start + PageSize \/ Len(list) < start + PageSize
          BY <1>3, <1>7, <4>3
        <5> QED  BY <1>7, <4>1, <5>2, <5>3, <5>4
      <4> QED  BY <4>2, <4>3
    <3>6. \A k \in 1 .. Len(items) : items[k] = list[walk'.collected - Len(items) + k]
      <4>1. walk'.collected - Len(items) = start
        BY <1>3, <1>7, <3>4
      <4> QED  BY <2>2, <4>1
    <3> QED  BY <3>1, <3>4, <3>5, <3>6 DEF PageHeld
  <2>4. ASSUME stops(items) PROVE Arrived(walk', list)
    <3>1. walk'.items = <<>> /\ walk'.collected = walk.collected /\ walk'.mode = walk.mode
      BY <1>8, <2>4
    <3>2. CASE items = <<>>
      <4>1. start >= Len(list)
        BY <1>3, <1>7, <2>2, <3>2, WalkAssumption
      <4> QED  BY <1>3, <1>7, <1>11, <2>1, <3>1, <4>1 DEF Arrived
    <3>3. CASE items # <<>>
      <4>1. Len(items) # 0
        BY <1>7, <3>3
      <4>2. 1 \in 1 .. Len(items)
        BY <1>7, <4>1
      <4>3. items[1] = list[start + 1]
        BY <2>2, <4>2
      <4>4. start < Len(list)
        BY <1>3, <1>7, <2>2, <4>1
      <4>5. walk.collected = start
        BY <1>3, <1>7, <1>11, <2>1, <4>4
      <4>6. walk.mode = "incremental" /\ seen[list[start + 1]] # Never
        BY <1>6, <2>4, <3>3, <4>3 DEF SeenRecently
      <4> QED  BY <1>11, <2>1, <3>1, <4>5, <4>6 DEF Arrived
    <3> QED  BY <3>2, <3>3
  <2>5. \A k \in 1 .. walk.collected : <<walk.model, list[k]>> \in linked'
    BY <1>5, <1>11, <2>1 DEF LinkedUpTo, list
  <2> QED  BY <1>8, <1>11, <2>1, <2>3, <2>4, <2>5
<1>14. CalmHistory'
  <2> SUFFICES ASSUME calm, Sound(count, items) PROVE CalmHistory'
    BY <1>4 DEF CalmHistory
  <2>1. Steady(walk)
    BY <1>1, <1>2 DEF WalkIInv, CalmHistory, Steady
  <2>2. walk.collected - Len(walk.items) = walk.collected
    BY <1>2, <1>11, <2>1
  <2>3. \A m \in Models : Frontier(m)' = Frontier(m)
    BY <1>1, <1>2, <1>8, <1>9, <1>12, <2>2 DEF Frontier
  <2>4. calm' = calm /\ walk'.calm = walk.calm
    BY <1>4, <1>8, <2>1 DEF Steady
  <2> QED  BY <1>1, <1>5, <1>9, <2>3, <2>4, SameFrontier
<1> QED  BY <1>10, <1>13, <1>14 DEF WalkIInv

LEMMA StoreStep ==
    ASSUME WalkIInv, Store
    PROVE  WalkIInv'
<1> DEFINE list == feed[walk.model]
           h == Head(walk.items)
           done == walk.collected - Len(walk.items)
<1>1. /\ walk.at = "items" /\ walk.items # <<>> /\ walk # Off
      /\ seen' = [seen EXCEPT ![h] = 0]
      /\ walk' = [walk EXCEPT !.at = "link"]
      /\ UNCHANGED <<feed, depth, linked, lastRun, calm, events>>
  BY OffIsNoWalk DEF Store
<1>2. walk \in Walk /\ walk.model \in Models /\ list \in Seq(Ids) /\ IsInjective(list)
  BY <1>1, UnderWay
<1>3. h \in Ids
  BY <1>1, NextCar
<1>4. walk' \in Walk /\ walk' # Off /\ walk'.at = "link"
      /\ walk'.items = walk.items /\ walk'.model = walk.model
      /\ walk'.collected = walk.collected /\ walk'.calm = walk.calm
      /\ walk'.stayed = walk.stayed
  <2>1. walk' \in Walk /\ walk'.at = "link"
        /\ walk'.items = walk.items /\ walk'.model = walk.model
        /\ walk'.collected = walk.collected /\ walk'.calm = walk.calm
        /\ walk'.stayed = walk.stayed
    BY <1>1, <1>2 DEF Walk
  <2> QED  BY <2>1, OffIsNoWalk
<1>5. /\ \A i \in Ids : seen'[i] = IF i = h THEN 0 ELSE seen[i]
      /\ seen' \in [Ids -> Ages \cup {Never}] /\ seen'[h] # Never
  <2>1. seen \in [Ids -> Ages \cup {Never}]
    BY DEF WalkIInv, TypeOK
  <2>2. 0 \in Ages /\ 0 # Never
    BY WalkAssumption DEF Ages
  <2> QED  BY <1>1, <1>3, <2>1, <2>2
<1>6. TypeOK'
  <2>1. \A i \in Ids : seen[i] # Never => seen'[i] # Never
    BY <1>5
  <2>2. {i \in Ids : seen[i] # Never} \subseteq {i \in Ids : seen'[i] # Never}
    BY <2>1
  <2> QED  BY <1>1, <1>4, <1>5, <2>2 DEF WalkIInv, TypeOK
<1>7. LinkingStored' /\ FeedMatches'
  BY <1>1, <1>4, <1>5 DEF WalkIInv, LinkingStored, FeedMatches
<1>8. OnCourse'
  <2>1. walk.calm /\ Fits(list) =>
           /\ PageHeld(walk, list) /\ walk.stayed = Range(list)
           /\ LinkedUpTo(walk.model, walk.collected - Len(walk.items))
    BY <1>1 DEF WalkIInv, OnCourse, Steady
  <2>2. PageHeld(walk, list) => PageHeld(walk', list)
    BY <1>1, <1>2 DEF PageHeld, Walk
  <2> QED  BY <1>1, <1>4, <2>1, <2>2, OnCourseNext DEF LinkedUpTo
<1>9. CalmHistory'
  <2> SUFFICES ASSUME calm PROVE CalmHistory'
    BY <1>1 DEF CalmHistory
  <2>1. Steady(walk)
    BY <1>1, <1>2 DEF WalkIInv, CalmHistory, Steady
  <2>2. done \in Nat /\ done + 1 \in 1 .. Len(list) /\ h = list[done + 1]
    BY <1>1, <2>1, NextOnList
  <2>3. walk.model \in Matches[h]
    BY <1>2, <2>2 DEF WalkIInv, FeedMatches, Range
  <2>4. ASSUME NEW m \in Models, ~OverlapsAnother(m) PROVE BehindStored(m)'
    <3>1. BehindStored(m)
      BY <2>4 DEF WalkIInv, CalmHistory
    <3>2. feed[m] \in Seq(Ids)
      BY DEF WalkIInv, TypeOK
    <3> SUFFICES ASSUME NEW j \in DOMAIN feed[m], NEW k \in DOMAIN feed[m],
                        Frontier(m)' < j, j <= k, seen'[feed[m][j]] # Never
                 PROVE  <<m, feed[m][k]>> \in linked
      BY <1>1 DEF BehindStored
    <3>3. feed[m][j] \in Ids
      BY <3>2
    <3>4. CASE m = walk.model
      <4>1. Frontier(m) = done /\ Frontier(m)' = done + 1
        BY <1>1, <1>4, <2>2, <3>4 DEF Frontier
      <4>2. j \in 1 .. Len(list) /\ done + 1 < j
        BY <1>2, <3>4, <4>1
      <4>3. list[j] # h
        BY <1>2, <2>2, <4>2 DEF IsInjective
      <4>4. seen[feed[m][j]] # Never
        BY <1>5, <3>3, <3>4, <4>3
      <4>5. Frontier(m) < j
        BY <2>2, <4>1, <4>2
      <4> QED  BY <3>1, <4>4, <4>5 DEF BehindStored
    <3>5. CASE m # walk.model
      <4>1. Frontier(m) = 0 /\ Frontier(m)' = 0
        BY <1>4, <3>5 DEF Frontier
      <4>2. m \in Matches[feed[m][j]]
        BY DEF WalkIInv, FeedMatches, Range
      <4>3. feed[m][j] # h
        BY <1>3, <2>3, <2>4, <3>5, <4>2 DEF OverlapsAnother
      <4>4. seen[feed[m][j]] # Never
        BY <1>5, <3>3, <4>3
      <4> QED  BY <3>1, <4>1, <4>4 DEF BehindStored
    <3> QED  BY <3>4, <3>5
  <2>5. \A m \in Models : OverlapsAnother(m)' <=> OverlapsAnother(m)
    BY DEF OverlapsAnother
  <2> QED  BY <1>1, <1>4, <2>1, <2>4, <2>5 DEF WalkIInv, CalmHistory, Fits
<1> QED  BY <1>6, <1>7, <1>8, <1>9 DEF WalkIInv

LEMMA LinkStep ==
    ASSUME WalkIInv, Link
    PROVE  WalkIInv'
<1> DEFINE list == feed[walk.model]
           h == Head(walk.items)
           n == Len(walk.items)
           done == walk.collected - n
<1>1. /\ walk.at = "link" /\ walk.items # <<>> /\ walk # Off
      /\ linked' = linked \cup {<<walk.model, h>>}
      /\ walk' = [walk EXCEPT !.at = "items", !.items = Tail(@), !.fetched = @ + 1]
      /\ UNCHANGED <<feed, depth, seen, lastRun, calm, events>>
  BY OffIsNoWalk DEF Link, WalkIInv, LinkingStored
<1>2. walk \in Walk /\ walk.model \in Models /\ list \in Seq(Ids)
      /\ walk.collected \in Nat
  BY <1>1, UnderWay
<1>3. /\ n \in Nat \ {0} /\ h = walk.items[1] /\ h \in Ids
      /\ Tail(walk.items) \in Seq(Ids) /\ Len(Tail(walk.items)) = n - 1
      /\ \A k \in 1 .. n - 1 : Tail(walk.items)[k] = walk.items[k + 1]
  BY <1>1, NextCar
<1>4. walk' \in Walk /\ walk' # Off /\ walk'.at = "items"
      /\ walk'.items = Tail(walk.items) /\ walk'.model = walk.model
      /\ walk'.collected = walk.collected /\ walk'.calm = walk.calm
      /\ walk'.stayed = walk.stayed /\ walk'.reported = walk.reported
      /\ walk'.page = walk.page /\ walk'.got = walk.got
  <2>1. walk' \in Walk /\ walk'.at = "items"
        /\ walk'.items = Tail(walk.items) /\ walk'.model = walk.model
        /\ walk'.collected = walk.collected /\ walk'.calm = walk.calm
        /\ walk'.stayed = walk.stayed /\ walk'.reported = walk.reported
        /\ walk'.page = walk.page /\ walk'.got = walk.got
    <3> DEFINE rest == Tail(walk.items)
               fetched == walk.fetched + 1
    <3>1. rest \in Seq(Ids) /\ fetched \in Nat
      BY <1>2, <1>3 DEF Walk
    <3>2. walk' = [walk EXCEPT !.at = "items", !.items = rest, !.fetched = fetched]
      BY <1>1
    <3> HIDE DEF rest, fetched
    <3>3. walk' \in Walk /\ walk'.at = "items"
          /\ walk'.items = rest /\ walk'.model = walk.model
          /\ walk'.collected = walk.collected /\ walk'.calm = walk.calm
          /\ walk'.stayed = walk.stayed /\ walk'.reported = walk.reported
          /\ walk'.page = walk.page /\ walk'.got = walk.got
      BY <1>2, <3>1, <3>2 DEF Walk
    <3> QED  BY <3>3 DEF rest
  <2> QED  BY <2>1, OffIsNoWalk
<1>5. TypeOK'
  <2>1. seen[h] # Never
    BY <1>1 DEF WalkIInv, LinkingStored
  <2>2. linked' \subseteq Models \X {i \in Ids : seen[i] # Never}
    BY <1>1, <1>2, <1>3, <2>1 DEF WalkIInv, TypeOK
  <2> QED  BY <1>1, <1>4, <2>2 DEF WalkIInv, TypeOK
<1>6. LinkingStored' /\ FeedMatches'
  BY <1>1, <1>4 DEF WalkIInv, LinkingStored, FeedMatches
<1>7. walk'.collected - Len(walk'.items) = done + 1
  BY <1>2, <1>3, <1>4
<1>8. OnCourse'
  <2> SUFFICES ASSUME walk.calm, Fits(list)
               PROVE  /\ walk.stayed = Range(list)
                      /\ PageHeld(walk', list)
                      /\ \A k \in 1 .. done + 1 : <<walk.model, list[k]>> \in linked'
    BY <1>1, <1>4, <1>7, OnCourseNext
  <2>1. /\ PageHeld(walk, list) /\ walk.stayed = Range(list)
        /\ LinkedUpTo(walk.model, done)
    BY <1>1 DEF WalkIInv, OnCourse, Steady
  <2>2. done \in Nat /\ h = list[done + 1]
    BY <1>1, NextOnList DEF Steady
  <2>3. Len(list) \in Nat
    BY <1>2
  <2>4. ASSUME NEW k \in 1 .. n - 1
        PROVE  Tail(walk.items)[k] = list[walk.collected - (n - 1) + k]
    <3>1. k + 1 \in 1 .. n
      BY <1>3
    <3>2. walk.items[k + 1] = list[walk.collected - n + (k + 1)]
      BY <2>1, <3>1 DEF PageHeld
    <3>3. walk.collected - n + (k + 1) = walk.collected - (n - 1) + k
      <4>1. n \in Int /\ k \in Int /\ walk.collected \in Int
        BY <1>2, <1>3
      <4> HIDE DEF n
      <4> QED  BY <4>1
    <3> QED  BY <1>3, <3>2, <3>3
  <2>5. PageHeld(walk', list)
    BY <1>2, <1>3, <1>4, <2>1, <2>3, <2>4 DEF PageHeld
  <2>6. ASSUME NEW k \in 1 .. done + 1 PROVE <<walk.model, list[k]>> \in linked'
    <3>1. CASE k = done + 1
      BY <1>1, <2>2, <3>1
    <3>2. CASE k # done + 1
      BY <1>1, <2>1, <2>2, <3>2 DEF LinkedUpTo
    <3> QED  BY <3>1, <3>2
  <2> QED  BY <2>1, <2>5, <2>6
<1>9. CalmHistory'
  <2>1. done \in Int
    BY <1>2, <1>3
  <2>2. \A m \in Models : Frontier(m)' = Frontier(m)
    BY <1>1, <1>4, <1>7, <2>1 DEF Frontier
  <2> QED  BY <1>1, <1>4, <2>2, SameFrontier
<1> QED  BY <1>5, <1>6, <1>8, <1>9 DEF WalkIInv

LEMMA CarFailsStep ==
    ASSUME WalkIInv, CarFails
    PROVE  WalkIInv'
<1>1. /\ walk.items # <<>> /\ walk # Off
      /\ walk' = [walk EXCEPT !.at = "items", !.items = Tail(@), !.calm = FALSE]
      /\ calm' = FALSE
      /\ UNCHANGED <<feed, depth, seen, linked, lastRun>>
  BY OffIsNoWalk DEF CarFails
<1>2. walk \in Walk /\ Tail(walk.items) \in Seq(Ids)
  BY <1>1, UnderWay, NextCar
<1>3. walk' \in Walk /\ walk'.at = "items" /\ walk'.calm = FALSE
  BY <1>1, <1>2 DEF Walk
<1>4. events' \in 0 .. MaxEvents
  BY WalkAssumption DEF CarFails, Event, WalkIInv, TypeOK
<1>5. TypeOK' /\ FeedMatches'
  BY <1>1, <1>3, <1>4 DEF WalkIInv, TypeOK, FeedMatches
<1>6. LinkingStored' /\ OnCourse' /\ CalmHistory'
  BY <1>1, <1>3 DEF LinkingStored, OnCourse, Steady, CalmHistory
<1> QED  BY <1>5, <1>6 DEF WalkIInv

LEMMA PageEndStep ==
    ASSUME WalkIInv, PageEnd
    PROVE  WalkIInv'
<1> DEFINE list == feed[walk.model]
<1>1. /\ walk.at = "items" /\ walk.items = <<>> /\ walk # Off
      /\ walk' = IF StopsAfter(walk) THEN [walk EXCEPT !.at = "done"]
                 ELSE [walk EXCEPT !.at = "list", !.page = @ + 1]
      /\ UNCHANGED <<feed, depth, seen, linked, lastRun, calm, events>>
  BY OffIsNoWalk DEF PageEnd
<1>2. walk \in Walk /\ walk.model \in Models /\ list \in Seq(Ids)
      /\ walk.collected \in Nat /\ walk.page \in 1 .. MaxPages
      /\ walk.got \in 0 .. PageSize /\ walk.reported \in Nat \cup {None}
  BY <1>1, UnderWay DEF Walk
<1>3. {PageSize, AssumedPageSize, MaxPages} \subseteq Nat \ {0}
  BY WalkAssumption
<1>4. /\ walk' \in Walk /\ walk'.items = walk.items /\ walk'.model = walk.model
      /\ walk'.collected = walk.collected /\ walk'.calm = walk.calm
      /\ walk'.stayed = walk.stayed /\ walk'.reported = walk.reported
      /\ walk'.mode = walk.mode
      /\ walk'.at = IF StopsAfter(walk) THEN "done" ELSE "list"
      /\ walk'.page = IF StopsAfter(walk) THEN walk.page ELSE walk.page + 1
  <2>1. CASE StopsAfter(walk)
    BY <1>1, <1>2, <2>1 DEF Walk
  <2>2. CASE ~StopsAfter(walk)
    <3>1. walk.page + 1 \in 1 .. MaxPages
      BY <1>2, <1>3, <2>2 DEF StopsAfter
    <3> QED  BY <1>1, <1>2, <2>2, <3>1 DEF Walk
  <2> QED  BY <2>1, <2>2
<1>5. walk' # Off
  BY <1>4, OffIsNoWalk
<1>6. TypeOK' /\ FeedMatches' /\ LinkingStored'
  BY <1>1, <1>4 DEF WalkIInv, TypeOK, FeedMatches, LinkingStored
<1>7. OnCourse'
  <2> SUFFICES ASSUME walk.calm, Fits(list)
               PROVE  /\ walk'.stayed = Range(list)
                      /\ walk'.at = "list" => BetweenPages(walk', list)
                      /\ walk'.at = "done" => Arrived(walk', list)
                      /\ \A k \in 1 .. walk'.collected - Len(walk'.items) :
                            <<walk.model, list[k]>> \in linked'
    BY <1>1, <1>4, OnCourseNext
  <2>1. /\ PageHeld(walk, list) /\ walk.stayed = Range(list)
        /\ LinkedUpTo(walk.model, walk.collected - Len(walk.items))
    BY <1>1 DEF WalkIInv, OnCourse, Steady
  <2>2. Len(list) \in Nat
    BY <1>2
  <2>3. CASE StopsAfter(walk)
    <3>1. walk.collected = Len(list)
      <4>1. CASE walk.reported # None /\ walk.collected >= walk.reported
        BY <1>2, <2>1, <2>2, <4>1 DEF PageHeld
      <4>2. CASE walk.got < AssumedPageSize
        BY <1>2, <1>3, <2>1, <4>2 DEF PageHeld, Fits
      <4>3. CASE walk.page = MaxPages
        <5>1. MaxPages * PageSize \in Nat
          BY <1>3
        <5> QED  BY <1>2, <2>1, <2>2, <4>3, <5>1 DEF PageHeld, Fits
      <4> QED  BY <2>3, <4>1, <4>2, <4>3 DEF StopsAfter
    <3>2. Arrived(walk', list)
      BY <1>1, <1>4, <2>1, <3>1 DEF Arrived, PageHeld
    <3> QED  BY <1>1, <1>4, <2>1, <2>3, <3>2 DEF LinkedUpTo
  <2>4. CASE ~StopsAfter(walk)
    <3>1. \/ walk.collected = walk.page * PageSize
          \/ walk.collected = Len(list) /\ Len(list) < walk.page * PageSize
      BY <2>1 DEF PageHeld
    <3>2. (walk.page + 1) - 1 = walk.page
      BY <1>2
    <3>3. BetweenPages(walk', list)
      BY <1>1, <1>4, <2>1, <2>4, <3>1, <3>2 DEF BetweenPages, PageHeld
    <3> QED  BY <1>1, <1>4, <2>1, <2>4, <3>3 DEF LinkedUpTo
  <2> QED  BY <2>3, <2>4
<1>8. CalmHistory'
  <2>1. \A m \in Models : Frontier(m)' = Frontier(m)
    BY <1>1, <1>4, <1>5 DEF Frontier
  <2> QED  BY <1>1, <1>4, <1>5, <2>1, SameFrontier
<1> QED  BY <1>6, <1>7, <1>8 DEF WalkIInv

-----------------------------------------------------------------------------
(* The end of a walk.                                                      *)
LEMMA EndedFull ==
    ASSUME WalkIInv, walk.at = "done", walk.mode = "full", walk.calm,
           Fits(feed[walk.model])
    PROVE  LinkedUpTo(walk.model, Len(feed[walk.model]))
<1>1. walk # Off
  BY OffIsNoWalk
<1>2. Arrived(walk, feed[walk.model])
      /\ LinkedUpTo(walk.model, walk.collected - Len(walk.items))
  BY <1>1 DEF WalkIInv, OnCourse, Steady
<1>3. walk.collected - Len(walk.items) = Len(feed[walk.model])
  BY <1>1, <1>2, UnderWay DEF Arrived
<1> QED  BY <1>2, <1>3

(* Behind the car it stopped at everything was linked before.              *)
LEMMA EndedCalm ==
    ASSUME WalkIInv, walk.at = "done", calm, ~OverlapsAnother(walk.model)
    PROVE  LinkedUpTo(walk.model, Len(feed[walk.model]))
<1> DEFINE list == feed[walk.model]
<1>1. walk # Off
  BY OffIsNoWalk
<1>2. Steady(walk) /\ BehindStored(walk.model)
  BY <1>1, UnderWay DEF WalkIInv, CalmHistory, Steady
<1>3. /\ Arrived(walk, list)
      /\ LinkedUpTo(walk.model, walk.collected - Len(walk.items))
  BY <1>1, <1>2 DEF WalkIInv, OnCourse
<1>4. list \in Seq(Ids) /\ Len(list) \in Nat /\ walk.collected \in Nat
      /\ walk.collected <= Len(list)
      /\ walk.collected - Len(walk.items) = walk.collected
  BY <1>1, <1>3, UnderWay DEF Arrived
<1>5. CASE walk.collected = Len(list)
  BY <1>3, <1>4, <1>5
<1>6. CASE walk.collected # Len(list)
  <2>1. seen[list[walk.collected + 1]] # Never
    BY <1>2, <1>3, <1>6 DEF Arrived
  <2>2. Frontier(walk.model) = walk.collected
    BY <1>1, <1>4 DEF Frontier
  <2> SUFFICES ASSUME NEW k \in 1 .. Len(list)
               PROVE  <<walk.model, list[k]>> \in linked
    BY DEF LinkedUpTo
  <2>3. CASE k <= walk.collected
    BY <1>3, <1>4, <2>3 DEF LinkedUpTo
  <2>4. CASE k > walk.collected
    <3>1. /\ walk.collected + 1 \in DOMAIN list /\ k \in DOMAIN list
          /\ walk.collected < walk.collected + 1 /\ walk.collected + 1 <= k
      BY <1>4, <1>6, <2>4
    <3> QED  BY <1>2, <2>1, <2>2, <3>1 DEF BehindStored
  <2> QED  BY <1>4, <2>3, <2>4
<1> QED  BY <1>5, <1>6

LEMMA EndStep ==
    ASSUME WalkIInv, EndWalk
    PROVE  WalkIInv'
<1>1. /\ walk.at = "done" /\ walk # Off /\ walk' = Off
      /\ UNCHANGED <<feed, depth, seen, linked, calm, events>>
  BY OffIsNoWalk DEF EndWalk
<1>2. lastRun' \in [Models -> Ages \cup {Never}]
  <2>1. 0 \in Ages /\ lastRun \in [Models -> Ages \cup {Never}]
    BY WalkAssumption DEF Ages, WalkIInv, TypeOK
  <2>2. lastRun' = lastRun \/ lastRun' = [lastRun EXCEPT ![walk.model] = 0]
    BY DEF EndWalk
  <2> QED  BY <2>1, <2>2
<1>3. TypeOK' /\ FeedMatches' /\ LinkingStored' /\ OnCourse'
  BY <1>1, <1>2, OffIsNoWalk
     DEF WalkIInv, TypeOK, FeedMatches, LinkingStored, OnCourse
<1>4. CalmHistory'
  <2> SUFFICES ASSUME calm PROVE CalmHistory'
    BY <1>1 DEF CalmHistory
  <2>1. ASSUME NEW m \in Models, ~OverlapsAnother(m) PROVE BehindStored(m)'
    <3>1. Frontier(m)' = 0
      BY <1>1 DEF Frontier
    <3>2. feed[m] \in Seq(Ids)
      BY DEF WalkIInv, TypeOK
    <3>3. CASE m = walk.model
      <4>1. LinkedUpTo(m, Len(feed[m]))
        BY <1>1, <2>1, <3>3, EndedCalm
      <4>2. \A k \in DOMAIN feed[m] : <<m, feed[m][k]>> \in linked
        <5>1. DOMAIN feed[m] = 1 .. Len(feed[m])
          BY <3>2
        <5> QED  BY <4>1, <5>1 DEF LinkedUpTo
      <4>3. feed' = feed /\ linked' = linked
        BY <1>1
      <4> QED  BY <4>2, <4>3 DEF BehindStored, Frontier
    <3>4. CASE m # walk.model
      <4>1. Frontier(m) = 0 /\ BehindStored(m)
        BY <2>1, <3>4 DEF Frontier, WalkIInv, CalmHistory
      <4> QED  BY <1>1, <3>1, <4>1 DEF BehindStored
    <3> QED  BY <3>3, <3>4
  <2>2. \A m \in Models : OverlapsAnother(m)' <=> OverlapsAnother(m)
    BY DEF OverlapsAnother
  <2> QED  BY <1>1, <2>1, <2>2 DEF WalkIInv, CalmHistory, Fits
<1> QED  BY <1>3, <1>4 DEF WalkIInv

(* Nothing changes.                                                        *)
LEMMA WalkStutter == WalkIInv /\ UNCHANGED vars => WalkIInv'
<1> SUFFICES ASSUME WalkIInv, UNCHANGED vars PROVE WalkIInv'
  OBVIOUS
<1>1. UNCHANGED <<feed, depth, seen, linked, lastRun, walk, calm, events>>
  BY DEF vars
<1>2. TypeOK'
  BY <1>1 DEF WalkIInv, TypeOK
<1> QED  BY <1>1, <1>2, SameSeen DEF WalkIInv

THEOREM WalkInvariant == Spec => []WalkIInv
<1>1. WalkIInv /\ [Next]_vars => WalkIInv'
  BY TickStep, PublishStep, WithdrawStep, GivenUp, StartStep, FetchPageStep, StoreStep,
     LinkStep, CarFailsStep, PageEndStep, EndStep, WalkStutter DEF Next, Step
<1> QED  BY InitWalkIInv, <1>1, PTL DEF Spec

(* The types of ListWalk, for any models, listings and page sizes: lists   *)
(* stay without repetitions, and only stored cars are linked.              *)
THEOREM WalkTypes == Spec => []TypeOK
<1>1. WalkIInv => TypeOK
  BY DEF WalkIInv
<1> QED  BY WalkInvariant, <1>1, PTL

(* A full walk that nothing disturbs has linked its whole list when it     *)
(* ends, if the list fits (MaxPages, encar's depth) and the answers were   *)
(* sound: no malformed entry, no Count below the length of the list.  After*)
(* a calm history an incremental one has, too, although it stops at the    *)
(* first page that begins with a recent car (run_model,                    *)
(* run_model_incremental).                                                 *)
THEOREM WalkCovers == Spec => []WalkCoversList
<1>1. WalkIInv => WalkCoversList
  <2> SUFFICES ASSUME WalkIInv, walk.at = "done",
                      \/ walk.mode = "full" /\ walk.calm /\ Fits(feed[walk.model])
                      \/ calm /\ ~OverlapsAnother(walk.model)
               PROVE  Covered
    BY DEF WalkCoversList, FullWalkCovers, IncrementalWalkCovers
  <2>1. LinkedUpTo(walk.model, Len(feed[walk.model]))
    BY EndedFull, EndedCalm
  <2>2. walk # Off
    BY OffIsNoWalk
  <2>3. walk.calm
    BY <2>2 DEF WalkIInv, CalmHistory
  <2>4. Fits(feed[walk.model])
    BY <2>2, UnderWay DEF WalkIInv, CalmHistory
  <2>5. walk.stayed = Range(feed[walk.model]) /\ feed[walk.model] \in Seq(Ids)
    BY <2>2, <2>3, <2>4, UnderWay DEF WalkIInv, OnCourse, Steady
  <2> QED  BY <2>1, <2>5 DEF Covered, LinkedUpTo, Range
<1> QED  BY WalkInvariant, <1>1, PTL
=============================================================================
