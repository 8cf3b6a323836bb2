---------------------------- MODULE HttpMessage ----------------------------
(***************************************************************************)
(* HttpRequest and HttpResponse, and what HttpServer makes of one request: *)
(* the file or route that answers it, the status and headers of the        *)
(* answer, and what of it goes out.  Bodies are sizes; a Connection header *)
(* is the set of its tokens, without spelling and blanks, and header names *)
(* are those that NormalizeHeaderName makes of any spelling.               *)
(***************************************************************************)
EXTENDS UrlText, TLC

CONSTANTS
  Tree,      \* the file system: what is at each place, a place being the
             \* sequence of names that leads to it
  Root,      \* _static_dir, the place of a directory
  Routes     \* the paths each method has a handler for

\* PUT and DELETE have tables of their own and differ from POST in nothing else.
Methods == {"GET", "HEAD", "POST"}
NoMethod == ""

-----------------------------------------------------------------------------
(* HttpRequest *)

Fresh == [method |-> NoMethod, path |-> <<>>, version |-> "", params |-> <<>>,
          tokens |-> {}]

\* Mutant: the headers of the last request stay.
ClearButHeaders(request) == [Fresh EXCEPT !.tokens = request.tokens]

\* Clear: nothing of the last request is left.
Clear(request) == Fresh

\* Whether the request wants the connection closed.
RequestCloses(request) ==
  \/ "close" \in request.tokens
  \/ request.version = "HTTP/1.0" /\ "keep-alive" \notin request.tokens
  \/ request.version \notin {"HTTP/1.0", "HTTP/1.1"}

-----------------------------------------------------------------------------
(* HttpResponse *)

NewResponse == [statu |-> 200, body |-> 0, headers |-> <<>>]

SetHeader(response, key, val) ==
  [response EXCEPT !.headers =
     [k \in DOMAIN response.headers \cup {key} |->
        IF k = key THEN val ELSE response.headers[k]]]

SetContent(response, size) ==
  [SetHeader(SetHeader(response, "Content-Type", "text"), "Content-Length", size)
     EXCEPT !.body = size]

SetRedirect(response, statu) ==
  SetHeader([response EXCEPT !.statu = statu], "Location", "url")

ResponseCloses(response) ==
  /\ "Connection" \in DOMAIN response.headers
  /\ "close" \in response.headers["Connection"]

\* StatusDesc and a line feed, as a body.
DefaultContent(response) == SetContent(response, 1)

-----------------------------------------------------------------------------
(* HttpServer: static files *)

Nowhere == <<<<Nul>>>>   \* no file has this name

IsDirectory(place) == place \in DOMAIN Tree /\ Tree[place].kind = "directory"
IsRegular(place) == place \in DOMAIN Tree /\ Tree[place].kind \in {"file", "unreadable"}

\* One name further, through a symbolic link to where it leads.
Enter(place, name) ==
  LET next == CASE name = Here -> place
                [] name = Above -> IF place = <<>> THEN place ELSE Front(place)
                [] OTHER -> Append(place, name)
  IN  IF ~IsDirectory(place) \/ next \notin DOMAIN Tree THEN Nowhere
      ELSE IF Tree[next].kind = "link" THEN Tree[next].to
      ELSE next

\* realpath of _static_dir and a path.
RealPath(path) ==
  LET place == FoldLeft(Enter, Root, Split(path, Slash))
  IN  IF Last(path) = Slash /\ ~IsDirectory(place) THEN Nowhere ELSE place

IndexFile == <<Slash, 105>>

Inside(place) == IsStrictPrefix(Root, place)

\* The file FileHandler looks at: realpath of the path, or of the directory's
\* index.html.
FileOf(path) ==
  IF IsDirectory(RealPath(path)) THEN RealPath(path \o IndexFile) ELSE RealPath(path)

ServesFiles(request) == request.method \in {"GET", "HEAD"}

Forbids(request) ==
  \/ request.path = <<>> \/ request.path[1] # Slash \/ ~ValidPath(request.path)
  \/ FileOf(request.path) # Nowhere /\ ~Inside(FileOf(request.path))

\* FileHandler: the responses it may end in, none when it leaves the request
\* to a route.
FileHandler(request) ==
  IF ~ServesFiles(request) THEN {}
  ELSE IF Forbids(request) THEN {[NewResponse EXCEPT !.statu = 403]}
  ELSE IF ~IsRegular(FileOf(request.path)) THEN {}
  ELSE IF Tree[FileOf(request.path)].kind = "unreadable"
  THEN {[NewResponse EXCEPT !.statu = 500]}
  ELSE {SetContent(NewResponse, 2)}

-----------------------------------------------------------------------------
(* HttpServer: routes *)

\* What a user's handler may do to a response: a status, content or none, a
\* redirect, a header of its own.
HandlerHeaders == {<<>>,
                   "Connection" :> {"close"}, "Connection" :> {"upgrade"},
                   "Content-Length" :> 3, "Transfer-Encoding" :> "chunked",
                   "Broken" :> "line feed"}
Handled ==
  LET bodies == {NewResponse, SetContent(NewResponse, 2)}
      results == bodies \cup {[r EXCEPT !.statu = s] : r \in bodies, s \in {101, 204, 304, 404}}
                   \cup {SetRedirect(r, 302) : r \in bodies}
  IN  {[r EXCEPT !.headers = h @@ @] : r \in results, h \in HandlerHeaders}

RouteOf(method) == Routes[IF method = "HEAD" THEN "GET" ELSE method]

\* Dispatcher: HEAD takes the routes of GET.  Methods without a table do not
\* come out of the parser.
Dispatcher(request) ==
  IF request.path \in RouteOf(request.method)
  THEN Handled
  ELSE {[NewResponse EXCEPT !.statu = 404]}

Route(request) ==
  LET results == IF FileHandler(request) # {} THEN FileHandler(request)
                                              ELSE Dispatcher(request)
  IN  {IF r.statu >= 400 /\ r.body = 0 THEN DefaultContent(r) ELSE r : r \in results}

-----------------------------------------------------------------------------
(* HttpServer::SendResponse *)

IsValid(response) == "Broken" \notin DOMAIN response.headers

HasNoBody(response) == response.statu < 200 \/ response.statu \in {204, 304}

\* Mutant: the handler's own Content-Length goes out.
SentWithHandlersLength(response, head_only) ==
  [statu |-> response.statu,
   close |-> ResponseCloses(response),
   length |-> IF "Content-Length" \in DOMAIN response.headers
              THEN response.headers["Content-Length"] ELSE 0,
   bytes |-> IF head_only \/ HasNoBody(response) THEN 0 ELSE response.body]

\* Head and body bytes on the wire.  Content-Length is counted anew and
\* Transfer-Encoding left out, whatever the handler has set.
Sent(response, head_only) ==
  [statu |-> response.statu,
   close |-> ResponseCloses(response),
   length |-> IF HasNoBody(response) THEN 0 ELSE response.body,
   bytes |-> IF head_only \/ HasNoBody(response) THEN 0 ELSE response.body]

\* What goes out instead of a response with a header that cannot be sent.
ErrorSent(head_only) ==
  [statu |-> 500, close |-> TRUE, length |-> 1, bytes |-> IF head_only THEN 0 ELSE 1]

SendResponse(response, head_only) ==
  IF IsValid(response) THEN Sent(response, head_only) ELSE ErrorSent(head_only)
=============================================================================
