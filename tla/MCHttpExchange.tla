--------------------------- MODULE MCHttpExchange ---------------------------
(* A small file system, two routes and the requests that matter. *)
EXTENDS HttpExchange

\* Names, as bytes.
s == <<115>>        \* the directory the root is in
w == <<119>>        \* the root
x == <<120>>        \* its neighbour
k == <<107>>        \* a file outside the root
i == <<105>>        \* index.html
a == <<97>>         \* a file
d == <<100>>        \* a directory
u == <<117>>        \* a file that cannot be read
l == <<108>>        \* a link to the neighbour
h == <<104>>        \* no file: the path of a route
odd == <<98, Plus, Space, Percent, 52, 49>>  \* "b+ %41"

MCRoot == <<s, w>>

MCTree ==
  LET Is(kind) == [kind |-> kind]
  IN  (<<>> :> Is("directory")) @@ (<<s>> :> Is("directory"))
      @@ (<<s, w>> :> Is("directory")) @@ (<<s, w, i>> :> Is("file"))
      @@ (<<s, w, a>> :> Is("file")) @@ (<<s, w, u>> :> Is("unreadable"))
      @@ (<<s, w, d>> :> Is("directory")) @@ (<<s, w, d, odd>> :> Is("file"))
      @@ (<<s, w, l>> :> [kind |-> "link", to |-> <<s, x>>])
      @@ (<<s, k>> :> Is("file"))
      @@ (<<s, x>> :> Is("directory")) @@ (<<s, x, k>> :> Is("file"))

Path(names) == FlattenSeq([n \in DOMAIN names |-> <<Slash>> \o names[n]])

MCRoutes == [method \in {"GET", "POST"} |-> {Path(<<h>>)}]

NoFile == <<<<Nul, Nul>>>>
NoParams == <<>>
Nothing == [path |-> <<>>, params |-> NoParams, file |-> NoFile]

\* What a client means, and the file it should get.
Files ==
  (Path(<<a>>) :> <<s, w, a>>) @@ (<<Slash>> :> <<s, w, i>>)
  @@ (Path(<<d, odd>>) :> <<s, w, d, odd>>)
  @@ (Path(<<d, Above, a>>) :> <<s, w, a>>)
  @@ (Path(<<d>>) :> NoFile) @@ (Path(<<a, Here>>) :> NoFile)
  @@ (Path(<<u>>) :> NoFile) @@ (Path(<<l, k>>) :> NoFile)
  @@ (Path(<<l, Above, k>>) :> NoFile)

EscapeAll(text) == FlattenSeq([n \in DOMAIN text |-> Escape(text[n])])

\* The ways to spell a path: as little escaped as can be, UrlEncode of each
\* name, and every byte but the first escaped.
Spellings(path) ==
  LET Lightly == [n \in DOMAIN path |->
                    IF path[n] \in {Space, Percent} THEN Escape(path[n]) ELSE <<path[n]>>]
      Named == [n \in DOMAIN path |->
                  IF path[n] = Slash THEN <<Slash>> ELSE UrlEncode(<<path[n]>>, FALSE)]
  IN  {FlattenSeq(Lightly), FlattenSeq(Named), <<Slash>> \o EscapeAll(Tail(path))}

Plain == [method |-> "GET", version |-> "HTTP/1.1", tokens |-> {}, target |-> Path(<<a>>),
          query |-> NoQuery, fault |-> "none",
          meant |-> [path |-> Path(<<a>>), params |-> NoParams, file |-> <<s, w, a>>]]

AtRoute == [Plain EXCEPT !.target = Path(<<h>>), !.meant.path = Path(<<h>>), !.meant.file = NoFile]

\* Every combination that decides about bodies and closing.
Framing ==
  {[r EXCEPT !.method = m, !.version = v, !.tokens = t] :
     r \in {Plain, AtRoute}, m \in Methods, v \in {"HTTP/1.0", "HTTP/1.1"},
     t \in {{}, {"close"}, {"keep-alive"}}}

Targets ==
  UNION {{[Plain EXCEPT !.target = t, !.meant.path = p, !.meant.file = Files[p]] :
            t \in Spellings(p)} : p \in DOMAIN Files}

Values == {<<>>, <<118>>, <<97, Ampersand, 98, Equal, 99>>, <<Plus, Space, Percent>>}

Queries ==
  {[AtRoute EXCEPT !.query = k \o <<Equal>> \o UrlEncode(v, plus), !.meant.params = k :> v] :
     v \in Values, plus \in BOOLEAN}
  \cup {[AtRoute EXCEPT !.query = <<>>],
        [AtRoute EXCEPT !.query = a, !.meant.params = a :> <<>>],
        [AtRoute EXCEPT !.query = <<Ampersand>> \o k \o <<Equal, Equal, Ampersand, Ampersand>> \o a
                                     \o <<Equal>> \o EscapeAll(d),
                        !.meant.params = (k :> <<Equal>>) @@ (a :> d)]}

\* A path that leaves the root, escapes that are none, and bytes that may not
\* be there.
Broken ==
  {[Plain EXCEPT !.target = t, !.meant = Nothing] :
     t \in Spellings(Path(<<Above, k>>)) \cup Spellings(Path(<<d, Above, Above, w, a>>))
           \cup {<<>>, a, <<Slash, Percent>>, <<Slash, Percent, 52>>,
                 <<Slash, Percent, 52, 122>>, <<Slash>> \o Escape(Nul),
                 <<Slash>> \o Escape(Backslash), <<Slash, Hash>>}}
  \cup {[AtRoute EXCEPT !.query = q, !.meant = Nothing] :
          q \in {<<Percent, 52>>, k \o <<Equal, Percent>>, <<Hash>>,
                 a \o <<Equal, 49, Ampersand>> \o k \o <<Equal, Percent, Equal>>}}
  \cup {[Plain EXCEPT !.method = m, !.fault = f, !.meant = Nothing] :
          m \in {"GET", "HEAD"}, f \in {"line", "head"}}

MCRequests == Framing \cup Targets \cup Queries \cup Broken
=============================================================================
