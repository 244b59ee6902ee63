----------------------------- MODULE ImageCache -----------------------------
(***************************************************************************)
(* The image proxy of the web application: GET /img and its cache          *)
(* (img_proxy.py).  A request looks its source up, and on a miss awaits    *)
(* the picture from the CDN and puts it.  Requests for one source overlap  *)
(* freely: each of them misses, fetches and puts.                          *)
(*                                                                         *)
(* Time counts in ticks and enters as ages: `stored` is the age of an      *)
(* entry, `made` the time since the CDN sent its picture.  Ages saturate   *)
(* where they no longer matter.                                            *)
(***************************************************************************)
EXTENDS Photos, Functions, SequencesExt

CONSTANTS PhotoLists,   \* photo_urls of the rows shown
          OtherSources, \* values of ?src= that no page links to
          Requests,     \* requests in flight at a time
          MaxEntries,   \* settings.img_proxy_cache_max_entries
          Ttl,          \* settings.img_proxy_cache_ttl_sec, in ticks
          MaxFlight,    \* bound: what a request takes; each of its steps is
                        \* limited by settings.img_proxy_timeout_sec
          Pending       \* the CDN has not answered yet

ASSUME CacheAssumption == /\ MaxEntries \in Nat /\ Ttl \in Nat /\ MaxFlight \in Nat
                          /\ Pending \notin Nat

(* photo_urls is a list, and only what begins with http:// or https:// is  *)
(* taken for a URL.                                                        *)
ASSUME PhotosAssumption ==
    \A photos \in PhotoLists :
        /\ DOMAIN photos \subseteq Nat
        /\ \A k \in DOMAIN photos :
              CoerceEntry(photos[k]).scheme \in {"", "http", "https"}

(* The values of ?src=.                                                    *)
Sources == OtherSources \cup ({FirstPhotoUrl(photos) : photos \in PhotoLists} \ {NoPhoto})

VARIABLES entry,    \* source -> [stored, made], for the sources cached
          order,    \* the OrderedDict: least recently used first
          req,      \* request -> what it waits for, or Idle
          recency,  \* history: all sources used so far, latest last
          served    \* history: the age of the picture last served, or
                    \* NotFound, or Waiting while it is fetched

cacheVars == <<entry, order, req, recency, served>>

Idle == [at |-> "idle"]
NotFound == -1
Waiting == -2

Init == /\ entry = [s \in {} |-> 0]
        /\ order = <<>>
        /\ req = [r \in Requests |-> Idle]
        /\ recency = <<>>
        /\ served = Waiting

Horizon == Ttl + MaxFlight + 1
Older(age) == IF age < Horizon THEN age + 1 ELSE age

MoveToEnd(seq, s) == Append(RemoveFirst(seq, s), s)

Tick ==
    /\ \A r \in Requests : req[r] # Idle => req[r].waited < MaxFlight
    /\ entry' = [s \in DOMAIN entry |-> [stored |-> Older(entry[s].stored),
                                         made |-> Older(entry[s].made)]]
    /\ req' = [r \in Requests |->
                 IF req[r] = Idle THEN Idle
                 ELSE [req[r] EXCEPT !.waited = @ + 1,
                                     !.made = IF @ = Pending THEN @ ELSE @ + 1]]
    /\ UNCHANGED <<order, recency, served>>

-----------------------------------------------------------------------------
StaleNever(s) == FALSE                  \* a plausible bug: no expiry
Stale(s) == entry[s].stored > Ttl

BugHit(s) ==                            \* a hit does not count as a use
    /\ s \in DOMAIN entry
    /\ ~Stale(s)
    /\ served' = entry[s].made
    /\ recency' = MoveToEnd(recency, s)
    /\ UNCHANGED <<entry, order, req>>

(* A hit is served at once.                                                *)
Hit(s) ==
    /\ s \in DOMAIN entry
    /\ ~Stale(s)
    /\ order' = MoveToEnd(order, s)
    /\ recency' = MoveToEnd(recency, s)
    /\ served' = entry[s].made
    /\ UNCHANGED <<entry, req>>

(* A miss, with a stale entry dropped on the way.  The source is checked   *)
(* after the lookup; what is rejected ends in a 404.                       *)
Miss(r, s) ==
    /\ req[r] = Idle
    /\ s \in DOMAIN entry => Stale(s)
    /\ entry' = Restrict(entry, DOMAIN entry \ {s})
    /\ order' = RemoveFirst(order, s)
    /\ IF NormalizeSourceUrl(s) = Rejected
       THEN /\ served' = NotFound
            /\ UNCHANGED req
       ELSE /\ req' = [req EXCEPT ![r] = [at |-> "fetch", src |-> s, waited |-> 0,
                                          made |-> Pending]]
            /\ served' = Waiting
    /\ UNCHANGED recency

(* The CDN sends the picture ...                                           *)
Send(r) ==
    /\ req[r] # Idle
    /\ req[r].made = Pending
    /\ req' = [req EXCEPT ![r].made = 0]
    /\ UNCHANGED <<entry, order, recency, served>>

BugPut(r) ==                            \* the first one is evicted, used or not
    /\ req[r] # Idle /\ req[r].made # Pending
    /\ LET s == req[r].src
           full == s \notin DOMAIN entry /\ Len(order) >= MaxEntries
           keep == IF full /\ order # <<>> THEN DOMAIN entry \ {Last(order)} ELSE DOMAIN entry
       IN /\ entry' = [x \in keep \cup {s} |->
                         IF x = s THEN [stored |-> 0, made |-> req[r].made] ELSE entry[x]]
          /\ order' = MoveToEnd(IF full /\ order # <<>> THEN Front(order) ELSE order, s)
          /\ recency' = MoveToEnd(recency, s)
    /\ served' = req[r].made
    /\ req' = [req EXCEPT ![r] = Idle]

BugOneTooMany(r) ==                     \* >= was meant, > + 1 written
    /\ req[r] # Idle /\ req[r].made # Pending
    /\ LET s == req[r].src IN
          /\ entry' = [x \in DOMAIN entry \cup {s} |->
                         IF x = s THEN [stored |-> 0, made |-> req[r].made] ELSE entry[x]]
          /\ order' = MoveToEnd(order, s)
          /\ recency' = MoveToEnd(recency, s)
    /\ served' = req[r].made
    /\ req' = [req EXCEPT ![r] = Idle]

(* ... and put stores it, whatever another request has put meanwhile, and  *)
(* evicts from the front what is too much.                                 *)
Put(r) ==
    /\ req[r] # Idle /\ req[r].made # Pending
    /\ LET s == req[r].src
           all == MoveToEnd(order, s)
           over == IF Len(all) > MaxEntries THEN Len(all) - MaxEntries ELSE 0
           evicted == Range(SubSeq(all, 1, over))
       IN /\ order' = SubSeq(all, over + 1, Len(all))
          /\ entry' = [x \in (DOMAIN entry \cup {s}) \ evicted |->
                         IF x = s THEN [stored |-> 0, made |-> req[r].made] ELSE entry[x]]
          /\ recency' = MoveToEnd(recency, s)
    /\ served' = req[r].made
    /\ req' = [req EXCEPT ![r] = Idle]

(* A timeout or another answer than a picture: nothing is stored.          *)
Fails(r) ==
    /\ req[r] # Idle
    /\ req' = [req EXCEPT ![r] = Idle]
    /\ UNCHANGED <<entry, order, recency, served>>

(* The container restarts.                                                 *)
Restart ==
    /\ entry' = [s \in {} |-> 0]
    /\ order' = <<>>
    /\ req' = [r \in Requests |-> Idle]
    /\ recency' = <<>>
    /\ served' = Waiting

(* The page of the vitrine asks for the first photo of each of its rows.   *)
Ask(s) == Hit(s) \/ \E r \in Requests : Miss(r, s)
Show(photos) == /\ FirstPhotoUrl(photos) # NoPhoto
                /\ Ask(FirstPhotoUrl(photos))

Answer(r) == Put(r) \/ Fails(r)

Next == \/ Tick
        \/ \E s \in Sources : Ask(s)
        \/ \E photos \in PhotoLists : Show(photos)
        \/ \E r \in Requests : Send(r) \/ Answer(r)
        \/ Restart

Spec == Init /\ [][Next]_cacheVars

-----------------------------------------------------------------------------
Ages == 0 .. Horizon

(* The two halves of the OrderedDict agree, and it holds MaxEntries at     *)
(* most whenever no put is under way.                                      *)
TypeOK ==
    /\ order \in Seq(Sources) /\ IsInjective(order)
    /\ recency \in Seq(Sources) /\ IsInjective(recency)
    /\ Len(order) <= MaxEntries
    /\ entry \in [Range(order) -> [stored : Ages, made : Ages]]
    /\ req \in [Requests -> {Idle} \cup [at : {"fetch"}, src : Sources,
                                         waited : 0 .. MaxFlight,
                                         made : 0 .. MaxFlight \cup {Pending}]]
    /\ served \in Ages \cup {NotFound, Waiting}

(* No picture is served that the CDN sent longer ago than the TTL and the  *)
(* time of one request, also when a slow request puts an older picture     *)
(* over a newer one and the entry begins a new TTL with it.                *)
ServedFresh == served <= Ttl + MaxFlight

(* What put evicts was used less recently than everything it keeps         *)
(* (img_proxy.py:97, "evicts least-recently-used entry").                  *)
UsedBefore(seq, s, t) == \E j, k \in DOMAIN seq : j < k /\ seq[j] = s /\ seq[k] = t
LeastRecentEvicted ==
    [][\A r \in Requests : Put(r) =>
         \A s \in DOMAIN entry \ DOMAIN entry', t \in DOMAIN entry' :
            UsedBefore(recency', s, t)]_cacheVars

(* The thumbnail of a row without pictures of foreign hosts, in any of the *)
(* shapes the column has had (photos.py:3-11), is not turned down by the   *)
(* proxy: the link of the page and the allowlist agree.                    *)
Foreign(raw) == raw.scheme # "" /\ raw.host \notin AllowedHosts
ShownPhotoIsServed ==
    [][\A photos \in PhotoLists :
          Show(photos) /\ (\A k \in DOMAIN photos : ~Foreign(CoerceEntry(photos[k])))
             => served' # NotFound]_cacheVars
=============================================================================
