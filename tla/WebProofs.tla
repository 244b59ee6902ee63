----------------------------- MODULE WebProofs -----------------------------
(***************************************************************************)
(* The two parts of the web application, for any number of requests,       *)
(* sources and operators: no picture is served that is older than the TTL  *)
(* and one request, the one that is evicted was used least recently, the   *)
(* thumbnails shown can be served, and a save that no other save disturbs  *)
(* is shown.                                                               *)
(***************************************************************************)
EXTENDS ImageCache, Overrides, DataLemmas, TLAPS

-----------------------------------------------------------------------------
(* ImageCache.  A cached picture was at most MaxFlight old when it was     *)
(* put, and time passes for both of its ages.                              *)

Flight == [at : {"fetch"}, src : Sources, waited : 0 .. MaxFlight,
           made : 0 .. MaxFlight \cup {Pending}]

EntriesFresh ==
    \A s \in DOMAIN entry :
        /\ entry[s] \in [stored : Ages, made : Ages]
        /\ entry[s].made <= entry[s].stored + MaxFlight

RequestsFresh ==
    /\ req \in [Requests -> {Idle} \cup Flight]
    /\ \A r \in Requests : req[r] # Idle /\ req[r].made # Pending
                              => req[r].made <= req[r].waited

FreshInv == EntriesFresh /\ RequestsFresh /\ ServedFresh

(* The cache is empty after a start, and after a restart.                  *)
LEMMA InitFresh == Init => FreshInv
BY CacheAssumption DEF Init, FreshInv, EntriesFresh, RequestsFresh, ServedFresh, Waiting

LEMMA RestartFresh ==
    ASSUME Restart
    PROVE  FreshInv'
BY CacheAssumption DEF Restart, FreshInv, EntriesFresh, RequestsFresh, ServedFresh, Waiting

(* A request that is not idle has been somewhere for some time.            *)
LEMMA InFlight ==
    ASSUME RequestsFresh, NEW r \in Requests, req[r] # Idle
    PROVE  /\ req[r] \in Flight
           /\ req[r].made = Pending \/ (req[r].made \in Nat /\ req[r].made <= req[r].waited)
BY CacheAssumption DEF RequestsFresh, Flight

(* A tick makes everything older by one, up to the horizon.                *)
LEMMA TickFresh ==
    ASSUME FreshInv, Tick
    PROVE  FreshInv'
<1>1. EntriesFresh'
  <2> SUFFICES ASSUME NEW s \in DOMAIN entry'
               PROVE  /\ entry'[s] \in [stored : Ages, made : Ages]
                      /\ entry'[s].made <= entry'[s].stored + MaxFlight
    BY DEF EntriesFresh, Ages, Horizon
  <2>1. s \in DOMAIN entry
        /\ entry'[s] = [stored |-> Older(entry[s].stored), made |-> Older(entry[s].made)]
    BY DEF Tick
  <2>2. /\ entry[s].stored \in Ages /\ entry[s].made \in Ages
        /\ entry[s].made <= entry[s].stored + MaxFlight
    BY <2>1 DEF FreshInv, EntriesFresh
  <2>3. Horizon \in Nat
    BY CacheAssumption DEF Horizon
  <2>4. /\ Older(entry[s].stored) \in Ages /\ Older(entry[s].made) \in Ages
        /\ Older(entry[s].made) <= Older(entry[s].stored) + MaxFlight
    BY <2>2, <2>3, CacheAssumption DEF Older, Ages
  <2> QED  BY <2>1, <2>4
<1>2. RequestsFresh'
  <2> DEFINE after(r) == [req[r] EXCEPT !.waited = @ + 1,
                                        !.made = IF @ = Pending THEN @ ELSE @ + 1]
  <2>1. req' = [r \in Requests |-> IF req[r] = Idle THEN Idle ELSE after(r)]
    BY DEF Tick
  <2>2. ASSUME NEW r \in Requests, req[r] # Idle
        PROVE  after(r) \in Flight /\ (after(r).made # Pending => after(r).made <= after(r).waited)
    <3>1. /\ req[r] \in Flight
          /\ req[r].made = Pending \/ (req[r].made \in Nat /\ req[r].made <= req[r].waited)
      BY <2>2, InFlight DEF FreshInv
    <3>2. req[r].waited \in 0 .. MaxFlight /\ req[r].waited < MaxFlight
      BY <2>2, <3>1 DEF Tick, Flight
    <3>3. req[r].waited + 1 \in 0 .. MaxFlight
      BY <3>2, CacheAssumption
    <3>4. CASE req[r].made = Pending
      BY <3>1, <3>3, <3>4 DEF Flight
    <3>5. CASE req[r].made # Pending
      <4>1. req[r].made + 1 \in 0 .. MaxFlight /\ req[r].made + 1 <= req[r].waited + 1
        BY <3>1, <3>2, <3>5, CacheAssumption
      <4> QED  BY <3>1, <3>3, <3>5, <4>1 DEF Flight
    <3> QED  BY <3>4, <3>5
  <2> HIDE DEF after
  <2> QED  BY <2>1, <2>2 DEF RequestsFresh
<1>3. ServedFresh'
  BY DEF Tick, FreshInv, ServedFresh
<1> QED  BY <1>1, <1>2, <1>3 DEF FreshInv

(* A hit serves what has been cached for no longer than the TTL; a miss    *)
(* drops an entry and starts a request.                                    *)
LEMMA AskFresh ==
    ASSUME FreshInv, NEW s \in Sources, Ask(s)
    PROVE  FreshInv'
<1>1. CASE Hit(s)
  <2>1. /\ s \in DOMAIN entry /\ served' = entry[s].made
        /\ ~(entry[s].stored > Ttl) /\ UNCHANGED <<entry, req>>
    BY <1>1 DEF Hit, Stale
  <2>2. entry[s].stored \in Ages /\ entry[s].made \in Ages
        /\ entry[s].made <= entry[s].stored + MaxFlight
    BY <2>1 DEF FreshInv, EntriesFresh
  <2>3. entry[s].made <= Ttl + MaxFlight
    BY <2>1, <2>2, CacheAssumption DEF Ages, Horizon
  <2> QED  BY <2>1, <2>3 DEF FreshInv, EntriesFresh, RequestsFresh, ServedFresh
<1>2. ASSUME NEW r \in Requests, Miss(r, s)
      PROVE  FreshInv'
  <2>1. EntriesFresh'
    BY <1>2 DEF Miss, Restrict, FreshInv, EntriesFresh
  <2>2. CASE NormalizeSourceUrl(s) = Rejected
    BY <1>2, <2>1, <2>2, CacheAssumption
       DEF Miss, FreshInv, RequestsFresh, ServedFresh, NotFound
  <2>3. CASE NormalizeSourceUrl(s) # Rejected
    <3> DEFINE new == [at |-> "fetch", src |-> s, waited |-> 0, made |-> Pending]
    <3>1. req' = [req EXCEPT ![r] = new] /\ served' = Waiting
      BY <1>2, <2>3 DEF Miss
    <3>2. new \in Flight /\ new.made = Pending
      BY CacheAssumption DEF Flight
    <3> HIDE DEF new
    <3> QED  BY <2>1, <3>1, <3>2, CacheAssumption
             DEF FreshInv, RequestsFresh, ServedFresh, Waiting
  <2> QED  BY <2>2, <2>3
<1> QED  BY <1>1, <1>2 DEF Ask

(* A page asks for a source.                                               *)
LEMMA ShowFresh ==
    ASSUME FreshInv, NEW photos \in PhotoLists, Show(photos)
    PROVE  FreshInv'
<1>1. FirstPhotoUrl(photos) \in Sources
  BY DEF Show, Sources
<1> QED  BY <1>1, AskFresh DEF Show

(* The end of a request.  What it puts is as old as the request at most.   *)
LEMMA AnswerFresh ==
    ASSUME FreshInv, NEW r \in Requests, Answer(r)
    PROVE  FreshInv'
<1>1. RequestsFresh'
  <2>1. req' = [req EXCEPT ![r] = Idle]
    BY DEF Answer, Put, Fails
  <2> QED  BY <2>1 DEF FreshInv, RequestsFresh
<1>2. CASE Fails(r)
  BY <1>1, <1>2 DEF Fails, FreshInv, EntriesFresh, ServedFresh
<1>3. CASE Put(r)
  <2>1. req[r] \in Flight /\ req[r].made \in Nat /\ req[r].made <= MaxFlight
    BY <1>3, InFlight, CacheAssumption DEF Put, FreshInv, Flight
  <2>2. PICK S : /\ S \subseteq DOMAIN entry \cup {req[r].src}
                 /\ entry' = [x \in S |-> IF x = req[r].src
                                          THEN [stored |-> 0, made |-> req[r].made]
                                          ELSE entry[x]]
    BY <1>3, Zenon DEF Put
  <2>3. 0 \in Ages /\ req[r].made \in Ages
    BY <2>1, CacheAssumption DEF Ages, Horizon
  <2>4. EntriesFresh'
    BY <2>1, <2>2, <2>3, CacheAssumption DEF FreshInv, EntriesFresh
  <2>5. ServedFresh'
    BY <1>3, <2>1, CacheAssumption DEF Put, ServedFresh
  <2> QED  BY <1>1, <2>4, <2>5 DEF FreshInv
<1> QED  BY <1>2, <1>3 DEF Answer

(* The CDN sends a picture that is new.                                    *)
LEMMA SendFresh ==
    ASSUME FreshInv, NEW r \in Requests, Send(r)
    PROVE  FreshInv'
<1>1. req[r] \in Flight
  BY InFlight DEF Send, FreshInv
<1>2. req' = [req EXCEPT ![r] = [req[r] EXCEPT !.made = 0]]
  BY DEF Send
<1>3. [req[r] EXCEPT !.made = 0] \in Flight
  BY <1>1, CacheAssumption DEF Flight
<1>4. [req[r] EXCEPT !.made = 0].made <= [req[r] EXCEPT !.made = 0].waited
  BY <1>1, CacheAssumption DEF Flight
<1>5. RequestsFresh'
  BY <1>2, <1>3, <1>4 DEF FreshInv, RequestsFresh
<1> QED  BY <1>5 DEF Send, FreshInv, EntriesFresh, ServedFresh

(* A step in which nothing changes.                                        *)
LEMMA StutterFresh == FreshInv /\ UNCHANGED cacheVars => FreshInv'
BY DEF cacheVars, FreshInv, EntriesFresh, RequestsFresh, ServedFresh

LEMMA NextFresh == FreshInv /\ [Next]_cacheVars => FreshInv'
BY TickFresh, AskFresh, ShowFresh, SendFresh, AnswerFresh, RestartFresh, StutterFresh
   DEF Next

(* No picture is served that the CDN sent longer ago than the TTL and the  *)
(* time of one request (ImageCache.get and put), for any number of         *)
(* requests that overlap.                                                  *)
THEOREM ImagesServedFresh == Spec => []ServedFresh
<1>1. FreshInv => ServedFresh
  BY DEF FreshInv
<1> QED  BY InitFresh, NextFresh, <1>1, PTL DEF Spec

(* The proxy accepts what an entry of no foreign host becomes.             *)
OwnEntry(raw) == raw.scheme \in {"", "http", "https"} /\ ~Foreign(raw)

LEMMA LinkAccepted ==
    ASSUME NEW raw, OwnEntry(raw), NormalizeToCdn(raw) # NoPhoto
    PROVE  NormalizeSourceUrl(NormalizeToCdn(raw)) # Rejected
<1>1. ASSUME NEW path PROVE /\ OnCdn(path).scheme = "https" /\ OnCdn(path).host = CDN
                            /\ OnCdn(path) # Rejected
  BY DEF OnCdn, Rejected, Blank
<1>2. CDN # OldCDN /\ CDN \in AllowedHosts
  BY DEF CDN, OldCDN, AllowedHosts
<1>3. ASSUME NEW path PROVE NormalizeSourceUrl(OnCdn(path)) # Rejected
  BY <1>1, <1>2 DEF NormalizeSourceUrl
<1>4. CASE raw.scheme # "" /\ raw.host # OldCDN
  <2>1. NormalizeToCdn(raw) = raw /\ raw.host \in AllowedHosts
    BY <1>4 DEF NormalizeToCdn, Foreign, OwnEntry
  <2>2. raw # Rejected
    <3>1. Rejected.scheme = ""
      BY DEF Rejected, Blank
    <3> QED  BY <1>4, <3>1, Zenon
  <2>3. raw.scheme \in {"http", "https"}
    BY <1>4 DEF OwnEntry
  <2>4. NormalizeSourceUrl(raw) = raw
    BY <1>4, <2>1, <2>3 DEF NormalizeSourceUrl
  <2> QED  BY <2>1, <2>2, <2>4
<1>5. CASE raw.scheme = "" \/ raw.host = OldCDN
  <2>1. NormalizeToCdn(raw) = OnCdn(raw.path)
    BY <1>5 DEF NormalizeToCdn, OwnEntry
  <2> QED  BY <1>3, <2>1
<1> QED  BY <1>4, <1>5

(* The picture shown is that of one of the entries.                        *)
LEMMA FirstPhotoIsAnEntry ==
    ASSUME NEW photos \in PhotoLists, FirstPhotoUrl(photos) # NoPhoto
    PROVE  \E k \in DOMAIN photos : FirstPhotoUrl(photos) = NormalizeToCdn(CoerceEntry(photos[k]))
<1> DEFINE Url(k) == IF CoerceEntry(photos[k]) = Blank THEN NoPhoto
                     ELSE NormalizeToCdn(CoerceEntry(photos[k]))
           usable == {k \in DOMAIN photos : Url(k) # NoPhoto}
           first == CHOOSE k \in usable : \A j \in usable : k <= j
<1>1. usable # {} /\ FirstPhotoUrl(photos) = Url(first)
  BY DEF FirstPhotoUrl
<1>2. usable \subseteq Nat
  BY PhotosAssumption
<1>3. first \in usable
  <2> HIDE DEF usable
  <2>1. \E k \in usable : \A j \in usable : k <= j
    BY <1>1, <1>2, MinExists
  <2> QED  BY <2>1
<1>4. first \in DOMAIN photos /\ Url(first) = NormalizeToCdn(CoerceEntry(photos[first]))
  <2> HIDE DEF first
  <2> QED  BY <1>3
<1> QED  BY <1>1, <1>4

(* The thumbnail of a row without foreign pictures is not turned down by   *)
(* the proxy: the links of the page (first_photo_url) and the allowlist    *)
(* (normalize_source_url) agree, for any rows.                             *)
THEOREM ImagesShownAreServed == Spec => ShownPhotoIsServed
<1>1. ASSUME FreshInv, NEW photos \in PhotoLists, Show(photos),
             \A k \in DOMAIN photos : ~Foreign(CoerceEntry(photos[k]))
      PROVE  served' # NotFound
  <2> DEFINE s == FirstPhotoUrl(photos)
  <2>1. s # NoPhoto /\ Ask(s)
    BY <1>1 DEF Show
  <2>2. PICK raw : s = NormalizeToCdn(raw) /\ OwnEntry(raw)
    <3>1. PICK k \in DOMAIN photos : s = NormalizeToCdn(CoerceEntry(photos[k]))
      BY <2>1, FirstPhotoIsAnEntry
    <3>2. OwnEntry(CoerceEntry(photos[k]))
      BY <1>1, PhotosAssumption DEF OwnEntry
    <3> HIDE DEF s
    <3> QED  BY <3>1, <3>2, Zenon
  <2>3. NormalizeSourceUrl(s) # Rejected
    <3>1. NormalizeToCdn(raw) # NoPhoto
      BY <2>1, <2>2
    <3>2. NormalizeSourceUrl(NormalizeToCdn(raw)) # Rejected
      BY <2>2, <3>1, LinkAccepted
    <3> QED  BY <2>2, <3>2
  <2> HIDE DEF s
  <2>4. CASE Hit(s)
    <3>1. entry[s].made \in Nat /\ served' = entry[s].made
      BY <1>1, <2>4, CacheAssumption DEF Hit, FreshInv, EntriesFresh, Ages, Horizon
    <3> QED  BY <3>1 DEF NotFound
  <2>5. ASSUME NEW r \in Requests, Miss(r, s)
        PROVE  served' # NotFound
    BY <2>3, <2>5 DEF Miss, Waiting, NotFound
  <2> QED  BY <2>1, <2>4, <2>5 DEF Ask
<1>2. FreshInv => [\A photos \in PhotoLists :
                     Show(photos) /\ (\A k \in DOMAIN photos : ~Foreign(CoerceEntry(photos[k])))
                        => served' # NotFound]_cacheVars
  BY <1>1
<1> QED  BY InitFresh, NextFresh, <1>2, PTL DEF Spec, ShownPhotoIsServed

-----------------------------------------------------------------------------
(* The OrderedDict of ImageCache: its keys are the entries, and they lie   *)
(* in the order in which they were used.                                   *)

OrderSound == order \in Seq(Sources) /\ IsInjective(order) /\ Len(order) <= MaxEntries
RecencySound == recency \in Seq(Sources) /\ IsInjective(recency)
EntriesOrdered == entry = [s \in Range(order) |-> entry[s]]
InOrderOfUse == /\ Range(order) \subseteq Range(recency)
                /\ \A s, t : UsedBefore(order, s, t) => UsedBefore(recency, s, t)
ServedType == served \in Ages \cup {NotFound, Waiting}

OrderInv == OrderSound /\ RecencySound /\ EntriesOrdered /\ InOrderOfUse /\ ServedType

CacheInv == FreshInv /\ OrderInv

(* What dropping a key does to the order.                                  *)
LEMMA RemoveFirstOrder ==
    ASSUME NEW S, NEW seq \in Seq(S), IsInjective(seq), NEW e, NEW s, NEW t
    PROVE  UsedBefore(RemoveFirst(seq, e), s, t)
              <=> s # e /\ t # e /\ UsedBefore(seq, s, t)
<1> DEFINE r == RemoveFirst(seq, e)
<1>1. /\ r \in Seq(S)
      /\ Range(r) = Range(seq) \ {e}
      /\ \A j, k \in 1 .. Len(r) :
            j < k => \E a, b \in 1 .. Len(seq) : a < b /\ seq[a] = r[j] /\ seq[b] = r[k]
      /\ \A a, b \in 1 .. Len(seq) :
            a < b /\ seq[a] # e /\ seq[b] # e =>
               \E j, k \in 1 .. Len(r) : j < k /\ r[j] = seq[a] /\ r[k] = seq[b]
  BY RemoveFirstProperties
<1> HIDE DEF r
<1>2. DOMAIN r = 1 .. Len(r) /\ DOMAIN seq = 1 .. Len(seq)
  BY <1>1
<1>3. \A j \in 1 .. Len(r) : r[j] # e
  BY <1>1, <1>2 DEF Range
<1>4. ASSUME UsedBefore(r, s, t)
      PROVE  s # e /\ t # e /\ UsedBefore(seq, s, t)
  <2>1. PICK j \in 1 .. Len(r), k \in 1 .. Len(r) : j < k /\ r[j] = s /\ r[k] = t
    BY <1>2, <1>4 DEF UsedBefore
  <2>2. PICK a \in 1 .. Len(seq), b \in 1 .. Len(seq) :
            a < b /\ seq[a] = r[j] /\ seq[b] = r[k]
    BY <1>1, <2>1
  <2>3. UsedBefore(seq, s, t)
    BY <1>2, <2>1, <2>2 DEF UsedBefore
  <2> QED  BY <1>3, <2>1, <2>3
<1>5. ASSUME s # e, t # e, UsedBefore(seq, s, t)
      PROVE  UsedBefore(r, s, t)
  <2>1. PICK a \in 1 .. Len(seq), b \in 1 .. Len(seq) : a < b /\ seq[a] = s /\ seq[b] = t
    BY <1>2, <1>5 DEF UsedBefore
  <2>2. PICK j \in 1 .. Len(r), k \in 1 .. Len(r) :
            j < k /\ r[j] = seq[a] /\ r[k] = seq[b]
    BY <1>1, <1>5, <2>1
  <2> QED  BY <1>2, <2>1, <2>2 DEF UsedBefore
<1> QED  BY <1>4, <1>5 DEF r

(* move_to_end: the key is the last one, and the others keep their order.  *)
LEMMA MoveToEndProperties ==
    ASSUME NEW S, NEW seq \in Seq(S), IsInjective(seq), NEW e \in S
    PROVE  LET m == MoveToEnd(seq, e) IN
           /\ m \in Seq(S) /\ IsInjective(m)
           /\ Range(m) = Range(seq) \cup {e}
           /\ Len(m) = IF e \in Range(seq) THEN Len(seq) ELSE Len(seq) + 1
           /\ \A s, t : UsedBefore(m, s, t)
                           <=> \/ s # e /\ t # e /\ UsedBefore(seq, s, t)
                               \/ s \in Range(seq) \ {e} /\ t = e
<1> DEFINE r == RemoveFirst(seq, e)
           m == Append(r, e)
<1>1. /\ r \in Seq(S) /\ IsInjective(r)
      /\ Range(r) = Range(seq) \ {e}
      /\ Len(r) = IF e \in Range(seq) THEN Len(seq) - 1 ELSE Len(seq)
  BY RemoveFirstProperties
<1>2. \A s, t : UsedBefore(r, s, t) <=> s # e /\ t # e /\ UsedBefore(seq, s, t)
  BY RemoveFirstOrder
<1> HIDE DEF r
<1>3. /\ m \in Seq(S) /\ Len(m) = Len(r) + 1
      /\ \A i \in 1 .. Len(r) : m[i] = r[i]
      /\ m[Len(r) + 1] = e
  BY <1>1, AppendProperties
<1> HIDE DEF m
<1>4. Len(r) \in Nat /\ DOMAIN m = 1 .. Len(r) + 1 /\ DOMAIN r = 1 .. Len(r)
  BY <1>1, <1>3
<1>5. \A i \in 1 .. Len(r) : r[i] \in Range(r) /\ r[i] # e
  BY <1>1, <1>4 DEF Range
<1>6. IsInjective(m)
  BY <1>1, <1>3, <1>4, <1>5 DEF IsInjective
<1>7. Range(m) = Range(r) \cup {e}
  <2>1. \A i \in DOMAIN m : m[i] \in Range(r) \cup {e}
    BY <1>3, <1>4, <1>5
  <2>2. \A x \in Range(r) : x \in Range(m)
    BY <1>3, <1>4 DEF Range
  <2>3. e \in Range(m)
    BY <1>3, <1>4 DEF Range
  <2> QED  BY <2>1, <2>2, <2>3 DEF Range
<1>8. ASSUME NEW s, NEW t
      PROVE  UsedBefore(m, s, t) <=> UsedBefore(r, s, t) \/ (s \in Range(r) /\ t = e)
  <2>1. ASSUME UsedBefore(m, s, t)
        PROVE  UsedBefore(r, s, t) \/ (s \in Range(r) /\ t = e)
    <3>1. PICK j \in DOMAIN m, k \in DOMAIN m : j < k /\ m[j] = s /\ m[k] = t
      BY <2>1 DEF UsedBefore
    <3>2. j \in 1 .. Len(r) /\ r[j] = s /\ s \in Range(r)
      BY <1>3, <1>4, <1>5, <3>1
    <3>3. CASE k = Len(r) + 1
      BY <1>3, <3>1, <3>2, <3>3
    <3>4. CASE k # Len(r) + 1
      <4>1. k \in 1 .. Len(r) /\ r[k] = t
        BY <1>3, <1>4, <3>1, <3>4
      <4> QED  BY <1>4, <3>1, <3>2, <4>1 DEF UsedBefore
    <3> QED  BY <3>3, <3>4
  <2>2. ASSUME UsedBefore(r, s, t)
        PROVE  UsedBefore(m, s, t)
    <3>1. PICK j \in 1 .. Len(r), k \in 1 .. Len(r) : j < k /\ r[j] = s /\ r[k] = t
      BY <1>4, <2>2 DEF UsedBefore
    <3>2. j \in DOMAIN m /\ k \in DOMAIN m /\ m[j] = s /\ m[k] = t
      BY <1>3, <1>4, <3>1
    <3> QED  BY <3>1, <3>2 DEF UsedBefore
  <2>3. ASSUME s \in Range(r), t = e
        PROVE  UsedBefore(m, s, t)
    <3>1. PICK j \in 1 .. Len(r) : r[j] = s
      BY <1>4, <2>3 DEF Range
    <3>2. /\ j \in DOMAIN m /\ Len(r) + 1 \in DOMAIN m /\ j < Len(r) + 1
          /\ m[j] = s /\ m[Len(r) + 1] = t
      BY <1>3, <1>4, <2>3, <3>1
    <3> QED  BY <3>2 DEF UsedBefore
  <2> QED  BY <2>1, <2>2, <2>3
<1>9. \A s, t : UsedBefore(m, s, t)
                   <=> \/ s # e /\ t # e /\ UsedBefore(seq, s, t)
                       \/ s \in Range(seq) \ {e} /\ t = e
  BY <1>1, <1>2, <1>8
<1>10. Range(m) = Range(seq) \cup {e}
  BY <1>1, <1>7
<1>11. Len(m) = IF e \in Range(seq) THEN Len(seq) ELSE Len(seq) + 1
  BY <1>1, <1>3
<1>12. MoveToEnd(seq, e) = m
  BY DEF MoveToEnd, r, m
<1> QED  BY <1>3, <1>6, <1>9, <1>10, <1>11, <1>12

(* popitem(last=False), n times: the front goes, and it was used before    *)
(* all that stays.                                                         *)
LEMMA EvictedFromTheFront ==
    ASSUME NEW S, NEW seq \in Seq(S), IsInjective(seq), NEW n \in 0 .. Len(seq)
    PROVE  LET gone == SubSeq(seq, 1, n)
               kept == SubSeq(seq, n + 1, Len(seq))
           IN /\ kept \in Seq(S) /\ IsInjective(kept)
              /\ Len(kept) = Len(seq) - n
              /\ Range(kept) = Range(seq) \ Range(gone)
              /\ \A s, t : UsedBefore(kept, s, t) => UsedBefore(seq, s, t)
              /\ \A s \in Range(gone), t \in Range(kept) : UsedBefore(seq, s, t)
<1> DEFINE gone == SubSeq(seq, 1, n)
           kept == SubSeq(seq, n + 1, Len(seq))
<1>1. /\ gone \in Seq(S) /\ Len(gone) = n
      /\ \A i \in 1 .. n : gone[i] = seq[i]
  <2>1. \A i \in 1 .. n : seq[i] \in S
    OBVIOUS
  <2>2. /\ SubSeq(seq, 1, n) \in Seq(S)
        /\ Len(SubSeq(seq, 1, n)) = IF 1 <= n THEN n - 1 + 1 ELSE 0
        /\ \A i \in 1 .. n - 1 + 1 : SubSeq(seq, 1, n)[i] = seq[1 + i - 1]
    BY <2>1, SubSeqProperties
  <2> QED  BY <2>2
<1>2. /\ kept \in Seq(S) /\ Len(kept) = Len(seq) - n
      /\ \A i \in 1 .. Len(seq) - n : kept[i] = seq[n + i]
  <2>1. \A i \in n + 1 .. Len(seq) : seq[i] \in S
    OBVIOUS
  <2>2. /\ SubSeq(seq, n + 1, Len(seq)) \in Seq(S)
        /\ Len(SubSeq(seq, n + 1, Len(seq))) =
             IF n + 1 <= Len(seq) THEN Len(seq) - (n + 1) + 1 ELSE 0
        /\ \A i \in 1 .. Len(seq) - (n + 1) + 1 :
             SubSeq(seq, n + 1, Len(seq))[i] = seq[(n + 1) + i - 1]
    BY <2>1, SubSeqProperties
  <2> QED  BY <2>2
<1> HIDE DEF gone, kept
<1>3. /\ DOMAIN gone = 1 .. n /\ DOMAIN kept = 1 .. Len(seq) - n
      /\ DOMAIN seq = 1 .. Len(seq)
  BY <1>1, <1>2
<1>4. \A i \in 1 .. Len(seq) - n : n + i \in 1 .. Len(seq) /\ kept[i] = seq[n + i]
  BY <1>2
<1>5. IsInjective(kept)
  <2> SUFFICES ASSUME NEW i \in 1 .. Len(seq) - n, NEW j \in 1 .. Len(seq) - n,
                      kept[i] = kept[j]
               PROVE  i = j
    BY <1>3 DEF IsInjective
  <2>1. n + i = n + j
    BY <1>3, <1>4 DEF IsInjective
  <2> QED  BY <2>1
<1>6. ASSUME NEW s, NEW t, UsedBefore(kept, s, t)
      PROVE  UsedBefore(seq, s, t)
  <2>1. PICK i \in 1 .. Len(seq) - n, j \in 1 .. Len(seq) - n :
                i < j /\ kept[i] = s /\ kept[j] = t
    BY <1>3, <1>6 DEF UsedBefore
  <2>2. /\ n + i \in DOMAIN seq /\ n + j \in DOMAIN seq /\ n + i < n + j
        /\ seq[n + i] = s /\ seq[n + j] = t
    BY <1>3, <1>4, <2>1
  <2> QED  BY <2>2 DEF UsedBefore
<1>7. ASSUME NEW s \in Range(gone), NEW t \in Range(kept)
      PROVE  UsedBefore(seq, s, t) /\ s # t
  <2>1. PICK i \in 1 .. n : gone[i] = s
    BY <1>3 DEF Range
  <2>2. PICK j \in 1 .. Len(seq) - n : kept[j] = t
    BY <1>3 DEF Range
  <2>3. /\ i \in DOMAIN seq /\ n + j \in DOMAIN seq /\ i < n + j
        /\ seq[i] = s /\ seq[n + j] = t
    BY <1>1, <1>3, <1>4, <2>1, <2>2
  <2> QED  BY <2>3 DEF UsedBefore, IsInjective
<1>8. Range(kept) = Range(seq) \ Range(gone)
  <2>1. ASSUME NEW t \in Range(kept)
        PROVE  t \in Range(seq) \ Range(gone)
    <3>1. t \in Range(seq)
      BY <1>3, <1>4 DEF Range
    <3> QED  BY <1>7, <3>1
  <2>2. ASSUME NEW t \in Range(seq) \ Range(gone)
        PROVE  t \in Range(kept)
    <3>1. PICK k \in 1 .. Len(seq) : seq[k] = t
      BY <1>3 DEF Range
    <3>2. k \notin 1 .. n
      BY <1>1, <1>3, <3>1 DEF Range
    <3>3. k - n \in 1 .. Len(seq) - n /\ n + (k - n) = k
      BY <3>2
    <3>4. kept[k - n] = t
      BY <1>4, <3>1, <3>3
    <3> QED  BY <1>3, <3>3, <3>4 DEF Range
  <2> QED  BY <2>1, <2>2
<1> QED  BY <1>2, <1>5, <1>6, <1>7, <1>8 DEF gone, kept

LEMMA InitOrder == Init => OrderInv
BY CacheAssumption
   DEF Init, OrderInv, OrderSound, RecencySound, EntriesOrdered, InOrderOfUse, ServedType,
       IsInjective, Range, UsedBefore

LEMMA RestartOrder ==
    ASSUME Restart
    PROVE  OrderInv'
BY CacheAssumption
   DEF Restart, OrderInv, OrderSound, RecencySound, EntriesOrdered, InOrderOfUse, ServedType,
       Ages, Horizon, IsInjective, Range, UsedBefore

(* Time, the CDN and a failure leave the order alone.                      *)
LEMMA RestOrder ==
    ASSUME CacheInv, Tick \/ (\E r \in Requests : Send(r) \/ Fails(r)) \/ UNCHANGED cacheVars
    PROVE  OrderInv'
<1>1. UNCHANGED <<order, recency, served>>
  BY DEF Tick, Send, Fails, cacheVars
<1>2. entry' = [s \in Range(order) |-> entry'[s]]
  <2>1. CASE Tick
    BY <2>1 DEF Tick, CacheInv, OrderInv, EntriesOrdered
  <2>2. CASE UNCHANGED entry
    BY <2>2 DEF CacheInv, OrderInv, EntriesOrdered
  <2> QED  BY <2>1, <2>2 DEF Send, Fails, cacheVars
<1> QED  BY <1>1, <1>2
         DEF CacheInv, OrderInv, OrderSound, RecencySound, EntriesOrdered, InOrderOfUse,
             ServedType, Ages, Horizon, UsedBefore

(* A hit moves its key to the end, of the order and of the history.        *)
LEMMA HitOrder ==
    ASSUME CacheInv, NEW s \in Sources, Hit(s)
    PROVE  OrderInv'
<1>1. /\ s \in Range(order) /\ s \in DOMAIN entry
      /\ order' = MoveToEnd(order, s) /\ recency' = MoveToEnd(recency, s)
      /\ served' = entry[s].made /\ UNCHANGED entry
  BY DEF Hit, CacheInv, OrderInv, EntriesOrdered
<1>2. /\ order' \in Seq(Sources) /\ IsInjective(order')
      /\ Range(order') = Range(order) \cup {s}
      /\ Len(order') = Len(order)
      /\ \A a, b : UsedBefore(order', a, b)
                      <=> \/ a # s /\ b # s /\ UsedBefore(order, a, b)
                          \/ a \in Range(order) \ {s} /\ b = s
  BY <1>1, MoveToEndProperties DEF CacheInv, OrderInv, OrderSound
<1>3. /\ recency' \in Seq(Sources) /\ IsInjective(recency')
      /\ Range(recency') = Range(recency) \cup {s}
      /\ \A a, b : UsedBefore(recency', a, b)
                      <=> \/ a # s /\ b # s /\ UsedBefore(recency, a, b)
                          \/ a \in Range(recency) \ {s} /\ b = s
  BY <1>1, MoveToEndProperties DEF CacheInv, OrderInv, RecencySound
<1>4. Range(order') = Range(order)
  BY <1>1, <1>2
<1>5. OrderSound' /\ RecencySound'
  BY <1>2, <1>3 DEF CacheInv, OrderInv, OrderSound, RecencySound
<1>6. EntriesOrdered'
  BY <1>1, <1>4 DEF CacheInv, OrderInv, EntriesOrdered
<1>7. InOrderOfUse'
  <2>1. \A a, b : UsedBefore(order', a, b) => UsedBefore(recency', a, b)
    BY <1>2, <1>3 DEF CacheInv, OrderInv, InOrderOfUse
  <2>2. Range(order') \subseteq Range(recency')
    BY <1>3, <1>4 DEF CacheInv, OrderInv, InOrderOfUse
  <2> QED  BY <2>1, <2>2 DEF InOrderOfUse, UsedBefore
<1>8. ServedType'
  BY <1>1 DEF CacheInv, FreshInv, EntriesFresh, ServedType, Ages, Horizon
<1> QED  BY <1>5, <1>6, <1>7, <1>8 DEF OrderInv

(* A miss drops a key, from the order and from the entries.                *)
LEMMA MissOrder ==
    ASSUME CacheInv, NEW s \in Sources, NEW r \in Requests, Miss(r, s)
    PROVE  OrderInv'
<1>1. /\ order' = RemoveFirst(order, s) /\ recency' = recency
      /\ entry' = [x \in DOMAIN entry \ {s} |-> entry[x]]
      /\ served' \in {NotFound, Waiting}
  BY DEF Miss, Restrict
<1>2. /\ order' \in Seq(Sources) /\ IsInjective(order')
      /\ Range(order') = Range(order) \ {s}
      /\ Len(order') = IF s \in Range(order) THEN Len(order) - 1 ELSE Len(order)
  BY <1>1, RemoveFirstProperties DEF CacheInv, OrderInv, OrderSound
<1>3. \A a, b : UsedBefore(order', a, b) => UsedBefore(order, a, b)
  BY <1>1, RemoveFirstOrder DEF CacheInv, OrderInv, OrderSound
<1>4. OrderSound'
  <2>1. Len(order) \in Nat /\ Len(order) <= MaxEntries
    BY DEF CacheInv, OrderInv, OrderSound
  <2>2. Len(order') <= MaxEntries
    BY <1>2, <2>1, CacheAssumption
  <2> QED  BY <1>2, <2>2 DEF OrderSound
<1>5. EntriesOrdered'
  <2>1. DOMAIN entry = Range(order)
    BY DEF CacheInv, OrderInv, EntriesOrdered
  <2> QED  BY <1>1, <1>2, <2>1 DEF EntriesOrdered
<1>6. InOrderOfUse'
  <2>1. Range(order') \subseteq Range(recency)
    BY <1>2 DEF CacheInv, OrderInv, InOrderOfUse
  <2>2. \A a, b : UsedBefore(order', a, b) => UsedBefore(recency, a, b)
    BY <1>3 DEF CacheInv, OrderInv, InOrderOfUse
  <2> QED  BY <1>1, <2>1, <2>2 DEF InOrderOfUse, UsedBefore
<1> QED  BY <1>1, <1>4, <1>5, <1>6
         DEF CacheInv, OrderInv, RecencySound, ServedType, Ages, Horizon

(* A put moves its key to the end and evicts the front, of the order and   *)
(* of the entries; what it evicts was used before what it keeps.           *)
LEMMA PutOrder ==
    ASSUME CacheInv, NEW r \in Requests, Put(r)
    PROVE  /\ OrderInv'
           /\ \A s \in DOMAIN entry \ DOMAIN entry', t \in DOMAIN entry' :
                 UsedBefore(recency', s, t)
<1> DEFINE s == req[r].src
           all == MoveToEnd(order, s)
           over == IF Len(all) > MaxEntries THEN Len(all) - MaxEntries ELSE 0
           gone == SubSeq(all, 1, over)
           kept == SubSeq(all, over + 1, Len(all))
<1>1. /\ order' = kept /\ recency' = MoveToEnd(recency, s) /\ served' = req[r].made
      /\ entry' = [x \in (DOMAIN entry \cup {s}) \ Range(gone) |->
                     IF x = s THEN [stored |-> 0, made |-> req[r].made] ELSE entry[x]]
  BY DEF Put
<1>2. s \in Sources /\ req[r].made \in 0 .. MaxFlight
  BY InFlight DEF Put, CacheInv, FreshInv, Flight
<1>3. /\ all \in Seq(Sources) /\ IsInjective(all)
      /\ Range(all) = Range(order) \cup {s}
      /\ \A a, b : UsedBefore(all, a, b)
                      <=> \/ a # s /\ b # s /\ UsedBefore(order, a, b)
                          \/ a \in Range(order) \ {s} /\ b = s
  <2> HIDE DEF s
  <2> QED  BY <1>2, MoveToEndProperties DEF CacheInv, OrderInv, OrderSound
<1>4. /\ recency' \in Seq(Sources) /\ IsInjective(recency')
      /\ Range(recency') = Range(recency) \cup {s}
      /\ \A a, b : UsedBefore(recency', a, b)
                      <=> \/ a # s /\ b # s /\ UsedBefore(recency, a, b)
                          \/ a \in Range(recency) \ {s} /\ b = s
  <2> HIDE DEF s
  <2> QED  BY <1>1, <1>2, MoveToEndProperties DEF CacheInv, OrderInv, RecencySound
<1> HIDE DEF s, all
<1>5. Len(all) \in Nat /\ over \in 0 .. Len(all) /\ Len(all) - over <= MaxEntries
  BY <1>3, CacheAssumption
<1> HIDE DEF over
<1>6. /\ kept \in Seq(Sources) /\ IsInjective(kept)
      /\ Len(kept) = Len(all) - over
      /\ Range(kept) = Range(all) \ Range(gone)
      /\ \A a, b : UsedBefore(kept, a, b) => UsedBefore(all, a, b)
      /\ \A a \in Range(gone), b \in Range(kept) : UsedBefore(all, a, b)
  BY <1>3, <1>5, EvictedFromTheFront
<1> HIDE DEF gone, kept
<1>7. \A a, b : UsedBefore(all, a, b) => UsedBefore(recency', a, b)
  BY <1>3, <1>4 DEF CacheInv, OrderInv, InOrderOfUse
<1>8. DOMAIN entry = Range(order) /\ DOMAIN entry' = Range(order')
  BY <1>1, <1>3, <1>6 DEF CacheInv, OrderInv, EntriesOrdered
<1>9. OrderSound' /\ RecencySound'
  BY <1>1, <1>4, <1>5, <1>6 DEF OrderSound, RecencySound
<1>10. EntriesOrdered'
  BY <1>1, <1>8 DEF EntriesOrdered
<1>11. InOrderOfUse'
  <2>1. Range(order') \subseteq Range(recency')
    BY <1>1, <1>3, <1>4, <1>6 DEF CacheInv, OrderInv, InOrderOfUse
  <2>2. \A a, b : UsedBefore(order', a, b) => UsedBefore(recency', a, b)
    BY <1>1, <1>6, <1>7
  <2> QED  BY <2>1, <2>2 DEF InOrderOfUse, UsedBefore
<1>12. ServedType'
  BY <1>1, <1>2, CacheAssumption DEF ServedType, Ages, Horizon
<1>13. ASSUME NEW a \in DOMAIN entry \ DOMAIN entry', NEW b \in DOMAIN entry'
       PROVE  UsedBefore(recency', a, b)
  <2>1. a \in Range(gone) /\ b \in Range(kept)
    BY <1>1, <1>3, <1>6, <1>8
  <2> QED  BY <1>6, <1>7, <2>1
<1> QED  BY <1>9, <1>10, <1>11, <1>12, <1>13 DEF OrderInv

LEMMA NextOrder == CacheInv /\ [Next]_cacheVars => OrderInv'
<1>1. \A photos \in PhotoLists : Show(photos) => \E s \in Sources : Ask(s)
  BY DEF Show, Sources
<1>2. ASSUME CacheInv, NEW s \in Sources, Ask(s)
      PROVE  OrderInv'
  BY <1>2, HitOrder, MissOrder DEF Ask
<1>3. ASSUME CacheInv, NEW r \in Requests, Answer(r)
      PROVE  OrderInv'
  BY <1>3, PutOrder, RestOrder DEF Answer
<1> QED  BY <1>1, <1>2, <1>3, RestOrder, RestartOrder DEF Next

LEMMA CacheInvariant == Spec => []CacheInv
<1>1. Init => CacheInv
  BY InitFresh, InitOrder DEF CacheInv
<1>2. CacheInv /\ [Next]_cacheVars => CacheInv'
  BY NextFresh, NextOrder DEF CacheInv
<1> QED  BY <1>1, <1>2, PTL DEF Spec

(* The types of ImageCache, with the size of the cache: order and entry    *)
(* agree and hold no more than MaxEntries, for any limits and requests.    *)
THEOREM ImagesTypes == Spec => []TypeOK
<1>1. ASSUME CacheInv
      PROVE  TypeOK
  <2>1. entry \in [Range(order) -> [stored : Ages, made : Ages]]
    <3>1. \A s \in Range(order) : entry[s] \in [stored : Ages, made : Ages]
      BY <1>1 DEF CacheInv, FreshInv, EntriesFresh, OrderInv, EntriesOrdered
    <3> QED  BY <1>1, <3>1 DEF CacheInv, OrderInv, EntriesOrdered
  <2>2. req \in [Requests -> {Idle} \cup [at : {"fetch"}, src : Sources,
                                            waited : 0 .. MaxFlight,
                                            made : 0 .. MaxFlight \cup {Pending}]]
    BY <1>1 DEF CacheInv, FreshInv, RequestsFresh, Flight
  <2> QED  BY <1>1, <2>1, <2>2
           DEF TypeOK, CacheInv, OrderInv, OrderSound, RecencySound, ServedType
<1> QED  BY CacheInvariant, <1>1, PTL

(* What put evicts was used less recently than everything it keeps         *)
(* (img_proxy.py:97), whatever other requests have put meanwhile.          *)
THEOREM ImagesLeastRecentEvicted == Spec => LeastRecentEvicted
<1>1. CacheInv => [\A r \in Requests : Put(r) =>
                     \A s \in DOMAIN entry \ DOMAIN entry', t \in DOMAIN entry' :
                        UsedBefore(recency', s, t)]_cacheVars
  BY PutOrder
<1> QED  BY CacheInvariant, <1>1, PTL DEF Spec, LeastRecentEvicted

-----------------------------------------------------------------------------
(* Overrides.  As long as no other save of its model comes in between, the *)
(* row is the one a save has loaded, and then the one it has stored.       *)

AloneSound ==
    \A o \in Operators :
        form[o] # Closed /\ form[o].alone =>
            /\ form[o].at = "commit" => override[form[o].slug] = form[o].loaded
            /\ form[o].at \in {"page", "overrides"} =>
                  EffectiveUrl(override[form[o].slug]) = form[o].value
            /\ form[o].at = "shown" => form[o].shown = form[o].value

SavedInv == OverridesTypeOK /\ AloneSound

LEMMA InitSaved == OverridesInit => SavedInv
BY DEF OverridesInit, SavedInv, OverridesTypeOK, AloneSound

(* A form that is not closed is under way.                                 *)
LEMMA FormShape ==
    ASSUME OverridesTypeOK, NEW o \in Operators, form[o].at # "closed"
    PROVE  form[o] \in Form /\ form[o] # Closed
BY DEF OverridesTypeOK, Closed

(* A save that nobody disturbed stores the value submitted.                *)
LEMMA SavedIsShown ==
    ASSUME NEW stored \in Urls \cup {NoOverride}, NEW value \in Urls \cup {Empty}
    PROVE  /\ ~Raises(stored, stored, value)
           /\ EffectiveUrl(Saved(stored, stored, value)) = value
BY OverridesAssumption DEF Raises, Saved, EffectiveUrl

(* The row after a save, disturbed or not.                                 *)
LEMMA SavedType ==
    ASSUME NEW loaded \in Urls \cup {NoOverride}, NEW stored \in Urls \cup {NoOverride},
           NEW value \in Urls \cup {Empty}
    PROVE  Saved(loaded, stored, value) \in Urls \cup {NoOverride}
BY DEF Saved

LEMMA CommitSaved ==
    ASSUME SavedInv, NEW o \in Operators, Commit(o)
    PROVE  SavedInv'
<1> DEFINE f == form[o]
<1>1. f \in Form /\ f # Closed /\ f.at = "commit"
  BY FormShape DEF Commit, SavedInv
<1>2. /\ f.slug \in Slugs /\ f.loaded \in Urls \cup {NoOverride}
      /\ f.value \in Urls \cup {Empty}
      /\ override[f.slug] \in Urls \cup {NoOverride}
  BY <1>1 DEF Form, SavedInv, OverridesTypeOK
<1>3. CASE Raises(f.loaded, override[f.slug], f.value)
  <2>1. form' = [form EXCEPT ![o] = Closed] /\ UNCHANGED <<override, models>>
    BY <1>3 DEF Commit
  <2> QED  BY <2>1 DEF SavedInv, OverridesTypeOK, AloneSound
<1>4. CASE ~Raises(f.loaded, override[f.slug], f.value)
  <2> DEFINE new == Saved(f.loaded, override[f.slug], f.value)
  <2>1. /\ override' = [override EXCEPT ![f.slug] = new]
        /\ form' = [Overlapped(o) EXCEPT ![o].at = "page"]
        /\ UNCHANGED models
    BY <1>4 DEF Commit
  <2>2. new \in Urls \cup {NoOverride}
    BY <1>2, SavedType
  <2>3. f.alone => EffectiveUrl(new) = f.value
    <3>1. f.alone => override[f.slug] = f.loaded
      BY <1>1 DEF SavedInv, AloneSound
    <3> QED  BY <1>2, <3>1, SavedIsShown
  <2> HIDE DEF new
  <2>4. override' \in [Slugs -> Urls \cup {NoOverride}]
        /\ override'[f.slug] = new
        /\ \A s \in Slugs \ {f.slug} : override'[s] = override[s]
    BY <1>2, <2>1, <2>2 DEF SavedInv, OverridesTypeOK
  <2>5. form'[o] = [f EXCEPT !.at = "page"]
    BY <2>1, <1>1 DEF Overlapped
  <2>6. \A x \in Operators \ {o} :
            form'[x] = IF form[x] # Closed /\ form[x].slug = f.slug
                       THEN [form[x] EXCEPT !.alone = FALSE] ELSE form[x]
    BY <2>1 DEF Overlapped
  <2>7. form' \in [Operators -> {Closed} \cup Form]
    <3>1. form'[o] \in Form
      BY <1>1, <2>5 DEF Form
    <3>2. ASSUME NEW x \in Operators \ {o}
          PROVE  form'[x] \in {Closed} \cup Form
      <4>1. form[x] \in {Closed} \cup Form
        BY DEF SavedInv, OverridesTypeOK
      <4> QED  BY <2>6, <4>1 DEF Form
    <3>3. DOMAIN form' = Operators /\ form' = [x \in Operators |-> form'[x]]
      BY <2>1 DEF Overlapped
    <3> QED  BY <3>1, <3>2, <3>3
  <2>8. OverridesTypeOK'
    BY <2>1, <2>4, <2>7 DEF SavedInv, OverridesTypeOK
  <2>9. AloneSound'
    <3> SUFFICES ASSUME NEW x \in Operators, form'[x] # Closed, form'[x].alone
                 PROVE  /\ form'[x].at = "commit" => override'[form'[x].slug] = form'[x].loaded
                        /\ form'[x].at \in {"page", "overrides"} =>
                              EffectiveUrl(override'[form'[x].slug]) = form'[x].value
                        /\ form'[x].at = "shown" => form'[x].shown = form'[x].value
      BY DEF AloneSound, EffectiveUrl
    <3>1. CASE x = o
      <4>1. /\ form'[o].at = "page" /\ form'[o].slug = f.slug /\ form'[o].value = f.value
            /\ form'[o].alone = f.alone
        BY <1>1, <2>5 DEF Form
      <4> QED  BY <2>3, <2>4, <3>1, <4>1
    <3>2. CASE x # o
      <4>1. form[x] \in {Closed} \cup Form
        BY DEF SavedInv, OverridesTypeOK
      <4>2. form'[x] = form[x] /\ form[x] # Closed /\ form[x].slug # f.slug
        BY <2>6, <3>2, <4>1 DEF Form
      <4>3. form[x].slug \in Slugs
        BY <4>1, <4>2 DEF Form
      <4> QED  BY <2>4, <4>2, <4>3 DEF SavedInv, AloneSound
    <3> QED  BY <3>1, <3>2
  <2> QED  BY <2>8, <2>9 DEF SavedInv
<1> QED  BY <1>3, <1>4

(* A step of o that replaces its form by new and writes nothing.           *)
LEMMA ReplaceForm ==
    ASSUME SavedInv, NEW o \in Operators, NEW new \in {Closed} \cup Form,
           form' = [form EXCEPT ![o] = new], UNCHANGED <<models, override>>,
           new # Closed /\ new.alone =>
               /\ new.at = "commit" => override[new.slug] = new.loaded
               /\ new.at \in {"page", "overrides"} =>
                     EffectiveUrl(override[new.slug]) = new.value
               /\ new.at = "shown" => new.shown = new.value
    PROVE  SavedInv'
<1>1. form'[o] = new /\ \A x \in Operators \ {o} : form'[x] = form[x]
  BY DEF SavedInv, OverridesTypeOK
<1>2. OverridesTypeOK'
  BY DEF SavedInv, OverridesTypeOK
<1>3. AloneSound'
  BY <1>1 DEF SavedInv, AloneSound, EffectiveUrl
<1> QED  BY <1>2, <1>3 DEF SavedInv

(* The steps of o that write nothing.                                      *)
LEMMA PageSaved ==
    ASSUME SavedInv, NEW o \in Operators,
           \/ \E s \in Slugs, value \in Urls \cup {Empty} : Submit(o, s, value)
           \/ ReadModels(o) \/ ReadOverrides(o) \/ Leave(o)
    PROVE  SavedInv'
<1>1. ASSUME NEW s \in Slugs, NEW value \in Urls \cup {Empty}, Submit(o, s, value)
      PROVE  SavedInv'
  <2> DEFINE new == [at |-> "commit", slug |-> s, value |-> value,
                     loaded |-> override[s], alone |-> TRUE,
                     seen |-> {}, shown |-> Empty]
  <2>1. form' = [form EXCEPT ![o] = new] /\ UNCHANGED <<models, override>>
    BY <1>1 DEF Submit
  <2>2. override[s] \in Urls \cup {NoOverride}
    BY DEF SavedInv, OverridesTypeOK
  <2>3. new \in Form /\ new.at = "commit" /\ override[new.slug] = new.loaded
    BY <2>2 DEF Form
  <2> HIDE DEF new
  <2> QED  BY <2>1, <2>3, ReplaceForm
<1>2. CASE ReadModels(o)
  <2> DEFINE new == [form[o] EXCEPT !.at = "overrides", !.seen = models]
  <2>1. form' = [form EXCEPT ![o] = new] /\ UNCHANGED <<models, override>>
    BY <1>2 DEF ReadModels
  <2>2. form[o] \in Form /\ form[o] # Closed /\ form[o].at = "page" /\ models \subseteq Slugs
    BY <1>2, FormShape DEF ReadModels, SavedInv, OverridesTypeOK
  <2>3. /\ new \in Form /\ new.at = "overrides" /\ new.slug = form[o].slug
        /\ new.value = form[o].value /\ new.alone = form[o].alone
    BY <2>2 DEF Form
  <2>4. form[o].alone => EffectiveUrl(override[form[o].slug]) = form[o].value
    BY <2>2 DEF SavedInv, AloneSound
  <2> HIDE DEF new
  <2> QED  BY <2>1, <2>3, <2>4, ReplaceForm
<1>3. CASE ReadOverrides(o)
  <2> DEFINE new == [form[o] EXCEPT !.at = "shown",
                                    !.shown = EffectiveUrl(override[form[o].slug])]
  <2>1. form' = [form EXCEPT ![o] = new] /\ UNCHANGED <<models, override>>
    BY <1>3 DEF ReadOverrides
  <2>2. form[o] \in Form /\ form[o] # Closed /\ form[o].at = "overrides"
    BY <1>3, FormShape DEF ReadOverrides, SavedInv
  <2>3. EffectiveUrl(override[form[o].slug]) \in Urls \cup {Empty}
    BY <2>2 DEF EffectiveUrl, Form, SavedInv, OverridesTypeOK
  <2>4. form[o].alone => EffectiveUrl(override[form[o].slug]) = form[o].value
    BY <2>2 DEF SavedInv, AloneSound
  <2>5. /\ new \in Form /\ new.at = "shown" /\ new.value = form[o].value
        /\ new.alone = form[o].alone
        /\ new.shown = EffectiveUrl(override[form[o].slug])
    BY <2>2, <2>3 DEF Form
  <2> HIDE DEF new
  <2> QED  BY <2>1, <2>4, <2>5, ReplaceForm
<1>4. CASE Leave(o)
  BY <1>4, ReplaceForm DEF Leave
<1> QED  BY <1>1, <1>2, <1>3, <1>4

(* sync leaves model_overrides alone, and so does a step without a change. *)
LEMMA RestSaved ==
    ASSUME SavedInv, SyncModels \/ UNCHANGED overrideVars
    PROVE  SavedInv'
BY DEF SyncModels, overrideVars, SavedInv, OverridesTypeOK, AloneSound

(* The types of Overrides, for any operators, slugs and URLs.              *)
THEOREM OverridesTypes == OverridesSpec => []OverridesTypeOK
<1>1. SavedInv /\ [OverridesNext]_overrideVars => SavedInv'
  BY CommitSaved, PageSaved, RestSaved DEF OverridesNext
<1>2. SavedInv => OverridesTypeOK
  BY DEF SavedInv
<1> QED  BY InitSaved, <1>1, <1>2, PTL DEF OverridesSpec

(* After the redirect the row shows what was submitted, unless another     *)
(* save of the same model came in between (save_model_url, app.py:348-349).*)
THEOREM OverridesSaveShown == OverridesSpec => []SaveShown
<1>1. SavedInv /\ [OverridesNext]_overrideVars => SavedInv'
  BY CommitSaved, PageSaved, RestSaved DEF OverridesNext
<1>2. SavedInv => SaveShown
  BY DEF SavedInv, AloneSound, SaveShown, Closed
<1> QED  BY InitSaved, <1>1, <1>2, PTL DEF OverridesSpec
=============================================================================
