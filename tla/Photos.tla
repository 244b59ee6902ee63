------------------------------- MODULE Photos -------------------------------
(***************************************************************************)
(* From the photo_urls of a row to the picture the browser asks for        *)
(* (photos.py), and from there to the URL the image proxy fetches          *)
(* (img_proxy.py).  A URL is a record; a bare path has no scheme.  An      *)
(* entry of photo_urls is a text, or a dict with a path and a url.         *)
(***************************************************************************)
EXTENDS Integers, Sequences

Blank == [scheme |-> "", host |-> "", path |-> ""]

CDN == "ci.encar.com"
OldCDN == "img.encar.com"
AllowedHosts == {CDN, OldCDN}              \* settings.img_proxy_allowed_hosts

OnCdn(path) == [scheme |-> "https", host |-> CDN, path |-> path]

(* Paths are told apart by how they begin only.                            *)
CarPicture == "/carpicture"

NoPhoto == Blank
Rejected == Blank                          \* ProxyError

(* _coerce_entry: a text, else the path, else the url of a dict.           *)
CoerceEntry(entry) ==
    IF entry.text # Blank THEN entry.text
    ELSE IF entry.path # Blank THEN entry.path ELSE entry.url

BugToCdn(raw) == IF raw.host = OldCDN THEN OnCdn(raw.path) ELSE raw

NormalizeToCdn(raw) ==
    IF raw.scheme # ""
    THEN IF raw.host = OldCDN THEN OnCdn(raw.path) ELSE raw
    ELSE IF raw.path = CarPicture THEN OnCdn(raw.path) ELSE NoPhoto

(* The first entry that yields a URL.                                      *)
FirstPhotoUrl(photos) ==
    LET Url(k) == IF CoerceEntry(photos[k]) = Blank THEN NoPhoto
                  ELSE NormalizeToCdn(CoerceEntry(photos[k]))
        usable == {k \in DOMAIN photos : Url(k) # NoPhoto}
    IN IF usable = {} THEN NoPhoto
       ELSE Url(CHOOSE k \in usable : \A j \in usable : k <= j)

(* normalize_source_url.                                                   *)
NormalizeSourceUrl(src) ==
    IF src.scheme \notin {"http", "https"} \/ src.host \notin AllowedHosts
    THEN Rejected
    ELSE IF src.host = OldCDN THEN OnCdn(src.path) ELSE src
=============================================================================
