---------------------------- MODULE BrowserAuth ----------------------------
(***************************************************************************)
(* Who a request is taken for: the session cookie, the bearer tokens and   *)
(* the evidence a browser attaches about the page that caused the request. *)
(* The module is a pure decision table: nothing here changes state.        *)
(*                                                                         *)
(* A browser request is described by what really happened ("by" the page   *)
(* that caused it, "kind" the way it did), and the headers are derived     *)
(* from that; the code sees the headers only.  The four pages are the      *)
(* target's own, another app's (or the router's) under the same domain,    *)
(* another site's, and none at all (an address typed by the owner).        *)
(***************************************************************************)
Absent == "absent"
Pages == {"self", "sibling", "foreign", "nobody"}
Kinds == {"navigate", "frame", "form", "fetch", "image", "socket"}

(* Requests as a browser makes them.  A page may hide its address from the *)
(* Referer header, or send from a sandbox whose origin is opaque; an       *)
(* address bar makes nothing but navigations.                              *)
BrowserRequests ==
  {r \in [by : Pages, kind : Kinds, tls : BOOLEAN, hidden : BOOLEAN,
          sandboxed : BOOLEAN] :
     /\ r.by = "nobody" => r.kind = "navigate" /\ ~r.hidden /\ ~r.sandboxed
     /\ r.sandboxed => r.by # "self"}

Method(r) == IF r.kind = "form" THEN "POST" ELSE "GET"

(* External: the headers browsers attach (Fetch Metadata only on secure    *)
(* origins, Origin on every cross-origin fetch, on every POST and on every *)
(* WebSocket, a document destination only on full-page navigations).       *)
Site(r) ==
  IF ~r.tls \/ r.kind = "socket" THEN Absent
  ELSE CASE r.by = "self" -> "same-origin"
         [] r.by = "sibling" -> IF r.sandboxed THEN "cross-site" ELSE "same-site"
         [] r.by = "foreign" -> "cross-site"
         [] r.by = "nobody" -> "none"
Dest(r) == IF r.kind \in {"navigate", "form"} THEN "document" ELSE r.kind
Origin(r) ==
  CASE r.kind \in {"form", "socket"} \/ (r.kind = "fetch" /\ r.by # "self") ->
         IF r.sandboxed THEN "opaque" ELSE r.by
    [] OTHER -> Absent
Referer(r) == IF r.hidden \/ r.by = "nobody" \/ r.sandboxed THEN Absent ELSE r.by
AcceptsHtml(r) == r.kind \in {"navigate", "frame", "form"}

(* The host of a present Origin, or a token that matches no host.          *)
OriginHost(r) == IF Origin(r) = "opaque" THEN "null" ELSE Origin(r)

---------------------------------------------------------------------------
(* Without Fetch Metadata only a plain-HTTP domain of the table is trusted *)
(* at all, and only on evidence that the page is the target's own.  A page *)
(* load without evidence is answered with the Continue page.               *)
SafePlainHttp(r) ==
  IF r.tls THEN "no"
  ELSE IF Origin(r) # Absent
       THEN IF OriginHost(r) = "self" THEN "yes" ELSE "no"
  ELSE IF Referer(r) = "self" THEN "yes"
  ELSE IF /\ Method(r) = "GET" /\ AcceptsHtml(r)
          /\ Referer(r) \in {Absent, "sibling"}
       THEN "confirm"
  ELSE "no"

SafeHttpAnyKind(r, crossSite) ==
  IF Site(r) = Absent THEN SafePlainHttp(r)
  ELSE IF \/ Site(r) \in {"same-origin", "none"}
          \/ Site(r) = "same-site"
          \/ Site(r) = "cross-site" /\ crossSite /\ Dest(r) = "document"
       THEN "yes" ELSE "no"

SafeHttp(r, crossSite) ==
  IF Site(r) = Absent THEN SafePlainHttp(r)
  ELSE IF \/ Site(r) \in {"same-origin", "none"}
          \/ /\ Site(r) = "same-site" \/ (Site(r) = "cross-site" /\ crossSite)
             /\ Method(r) \in {"GET", "HEAD"}
             /\ Dest(r) = "document"
       THEN "yes" ELSE "no"

SafeSocket(r) == IF OriginHost(r) = "self" THEN "yes" ELSE "no"

SafeForCookieAuth(r, crossSite) ==
  IF r.kind = "socket" THEN SafeSocket(r) ELSE SafeHttp(r, crossSite)

(* verify_owner_auth: "user" is a valid session cookie, "key" whether the  *)
(* bearer token is a valid API token, which rescues a refused cookie.      *)
OwnerAuth(r, crossSite, user, key) ==
  IF user
  THEN LET safe == SafeForCookieAuth(r, crossSite)
       IN IF safe = "yes" \/ key THEN "owner"
          ELSE IF safe = "confirm" THEN "confirm" ELSE "refused"
  ELSE IF key THEN "owner" ELSE "refused"

(* verify_app_auth: the app a request speaks for, None if it speaks for    *)
(* none.  A session speaks for the app whose page sent the request, found  *)
(* by the name in its Origin; an app's token speaks for that app.          *)
AppAuth(user, key, pageApp, tokenApp, None) ==
  IF user THEN pageApp ELSE IF key THEN None ELSE tokenApp
============================================================================
