--------------------------- MODULE RequestBuilder ---------------------------
(***************************************************************************)
(* The request builder: processReqBuildForm of internal/server/html takes  *)
(* the form and a transaction, ParseBackend of render/helpers.go reads     *)
(* where to connect, NewHTTPRequest of render/httpmodel.go makes the       *)
(* request, CurlCommand and HurlFile write it.                             *)
(***************************************************************************)
EXTENDS HostPort, FiniteSets

CONSTANTS
  Forms,        \* what the user may send
  Transactions  \* the transaction it is sent for

\* The port behind the last colon is a number: the one of the text or, without
\* one, the last group of an address that has no brackets.
LastColon(t) ==
  CASE t.port \in {"80", "443"} -> Text(t.host, t.brackets, t.port)
    [] t.port = "none" /\ t.host = "v6" /\ t.brackets = 0 -> Text("v6cut", 0, "80")
    [] OTHER -> NoText

\* Mutant of ParseBackend: the brackets SplitHostPort took off stay off.
ParseBackendBare(t) ==
  IF Splits(t) THEN Text(t.host, 0, t.port) ELSE LastColon(t)

\* ParseBackend; NoText stands for an error.  An IPv6 host gets brackets.
ParseBackend(t) ==
  LET split == IF Splits(t) THEN Text(t.host, 0, t.port) ELSE LastColon(t)
  IN IF split = NoText THEN NoText
     ELSE [split EXCEPT !.brackets = IF HasColonInside(split.host) THEN 1 ELSE 0]

VARIABLES
  form,     \* [connectTo, backend, address, custom, scheme, excluded]; address is that of
            \* a backend that was chosen from the list
  tx,       \* [type, host, conn, headers]: conn is the address of its BackendOpen
  pc,       \* "form", "request", "render", "done" or "error"
  backend,  \* where to connect to; NoText: nowhere else
  request,  \* host, port and headers
  text      \* the curl or hurl text: scheme, authority, connectTo, headers

vars == <<form, tx, pc, backend, request, text>>

-----------------------------------------------------------------------------
\* GetBackendConnStr: empty without a BackendOpen or for a client request.
GetBackendConnStr ==
  IF tx.type = "BeReq" /\ tx.conn # NoText THEN JoinHostPort(tx.conn) ELSE NoText

\* A text the form wants parsed: of the backend list, of the log, of the user.
ToParse ==
  IF form.connectTo = "custom" THEN form.custom
  ELSE IF form.backend = "auto" THEN GetBackendConnStr
  ELSE form.address

NoBackend ==
  /\ pc = "form" /\ form.connectTo = "backend"
  /\ form.backend = "none" \/ (form.backend = "auto" /\ tx.type # "BeReq")
  /\ backend' = NoText
  /\ pc' = "request"
  /\ UNCHANGED <<form, tx, request, text>>

ParsesBackend ==
  /\ pc = "form" /\ form.connectTo \in {"backend", "custom"}
  /\ form.connectTo = "backend" =>
       form.backend # "none" /\ (form.backend = "auto" => tx.type = "BeReq")

TakeBackend ==
  /\ ParsesBackend
  /\ ParseBackend(ToParse) # NoText
  /\ backend' = ParseBackend(ToParse)
  /\ pc' = "request"
  /\ UNCHANGED <<form, tx, request, text>>

BadForm ==
  /\ \/ ParsesBackend /\ ParseBackend(ToParse) = NoText
     \/ pc = "form" /\ form.connectTo \notin {"backend", "custom"}
  /\ pc' = "error"
  /\ UNCHANGED <<form, tx, backend, request, text>>

\* Mutant of HostOf: the Host header is always split.
HostAlwaysSplit == ParseBackend(tx.host)

\* The Host header as it is, or split when it has a colon.
HostOf == IF HasColon(tx.host) THEN ParseBackend(tx.host) ELSE [tx.host EXCEPT !.port = ""]

NewHTTPRequest ==
  /\ pc = "request"
  /\ tx.type # "Session" /\ ~(HasColon(tx.host) /\ HostOf = NoText)
  /\ request' = [host |-> HostOf, headers |-> tx.headers \ form.excluded]
  /\ pc' = "render"
  /\ UNCHANGED <<form, tx, backend, text>>

BadRequest ==
  /\ pc = "request"
  /\ tx.type = "Session" \/ (HasColon(tx.host) /\ HostOf = NoText)
  /\ pc' = "error"
  /\ UNCHANGED <<form, tx, backend, request, text>>

Scheme ==
  IF form.scheme # "auto" THEN form.scheme
  ELSE IF request.host.port = "443" THEN "https://" ELSE "http://"

\* CurlCommand and HurlFile: the port is put behind the host again, the backend
\* is written as it is.
Render ==
  /\ pc = "render"
  /\ text' = [scheme |-> Scheme,
              authority |-> IF request.host.port # "" THEN JoinHostPort(request.host)
                            ELSE request.host,
              connectTo |-> backend, headers |-> request.headers]
  /\ pc' = "done"
  /\ UNCHANGED <<form, tx, backend, request>>

Init ==
  /\ form \in Forms /\ tx \in Transactions
  /\ pc = "form"
  /\ backend = NoText
  /\ request = [host |-> NoText, headers |-> {}]
  /\ text = [scheme |-> "", authority |-> NoText, connectTo |-> NoText, headers |-> {}]

Next == NoBackend \/ TakeBackend \/ BadForm \/ NewHTTPRequest \/ BadRequest \/ Render

Spec == Init /\ [][Next]_vars

-----------------------------------------------------------------------------
\* The URL is the one the client asked for: split into host and port and joined
\* again, the Host header is what it was (httpmodel.go, 30-42 and 141-145).  A port
\* that is empty is dropped.  IPv6 addresses are left out: with a port they end up
\* in two pairs of brackets, since ParseBackend's are still there for JoinHostPort.
AuthorityIsHost ==
  pc = "done" /\ tx.host.host \notin IPv6 =>
    text.authority = [tx.host EXCEPT !.port = IF @ = "none" THEN "" ELSE @]

\* The command connects to the address of the log or of the user, in the one pair of
\* brackets an IPv6 address has to have there, and to nothing else when the request
\* went to no backend (helpers.go, 18-56).  An address without a port has no port.
ConnectsWhereAsked ==
  pc = "done" =>
    LET asked == IF form.connectTo = "custom" THEN form.custom
                 ELSE IF form.backend = "none" THEN NoText
                 ELSE IF form.backend # "auto" THEN form.address
                 ELSE IF tx.type = "BeReq" THEN tx.conn ELSE NoText
    IN IF asked = NoText THEN text.connectTo = NoText
       ELSE asked.port # "none" =>
              text.connectTo = [asked EXCEPT !.brackets = IF asked.host \in IPv6 THEN 1 ELSE 0]
=============================================================================
