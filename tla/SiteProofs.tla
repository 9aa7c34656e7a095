----------------------------- MODULE SiteProofs -----------------------------
(* The properties of Site, for all directories, overrides, hosts and       *)
(* clients: the right site answers, behind its own authentication, after   *)
(* at most one redirect, and leaves a line.                                *)
EXTENDS Site, TLAPS

-----------------------------------------------------------------------------
(* Names and chains *)

\* What the redirects make of a name.
LEMMA Names ==
  ASSUME NEW h \in Name
  PROVE  /\ Normal(h) \in Name /\ Target(h) \in Name
         /\ h.www = 0 /\ h.form = "plain" => h = Plain(h.base) /\ Normal(h) = h /\ Target(h) = h
         /\ h.form = "plain" => [h EXCEPT !.form = "plain"] = h
         /\ h.www <= 1 => Target(h) = Plain(h.base)
         /\ h.www <= 1 /\ h.form # "port" => Normal(h) = Plain(h.base)
<1>1. h.www \in Nat /\ h.base \in Bases /\ h.form \in {"plain", "upper", "port"} BY DEF Name
<1>2. h = [www |-> h.www, base |-> h.base, form |-> h.form] BY DEF Name
<1>3. Lower(h) = [www |-> h.www, base |-> h.base,
                  form |-> IF h.form = "upper" THEN "plain" ELSE h.form]
  BY <1>2 DEF Lower
<1>4. Normal(h) = [www |-> IF h.www > 0 THEN h.www - 1 ELSE 0, base |-> h.base,
                   form |-> IF h.form = "upper" THEN "plain" ELSE h.form]
  BY <1>3 DEF Normal
<1>5. Target(h) = [www |-> IF h.www > 0 THEN h.www - 1 ELSE 0, base |-> h.base, form |-> "plain"]
  BY <1>4 DEF Target
<1>6. (IF h.www > 0 THEN h.www - 1 ELSE 0) \in Nat BY <1>1
<1>7. h.www <= 1 => (IF h.www > 0 THEN h.www - 1 ELSE 0) = 0 BY <1>1
<1>8a. (IF h.form = "upper" THEN "plain" ELSE h.form) \in {"plain", "upper", "port"} BY <1>1
<1>8b. Normal(h) \in Name BY <1>1, <1>4, <1>6, <1>8a DEF Name
<1>8c. Target(h) \in Name BY <1>1, <1>5, <1>6 DEF Name
<1>8. Normal(h) \in Name /\ Target(h) \in Name BY <1>8b, <1>8c
<1>9. h.www = 0 /\ h.form = "plain" => h = Plain(h.base) /\ Normal(h) = h /\ Target(h) = h
  BY <1>2, <1>4, <1>5 DEF Plain
<1>10. h.form = "plain" => [h EXCEPT !.form = "plain"] = h BY <1>2
<1>11. h.www <= 1 => Target(h) = Plain(h.base) BY <1>5, <1>7 DEF Plain
<1>12. h.www <= 1 /\ h.form # "port" => Normal(h) = Plain(h.base)
  <2>1. h.form # "port" => (IF h.form = "upper" THEN "plain" ELSE h.form) = "plain" BY <1>1
  <2> QED BY <1>4, <1>7, <2>1 DEF Plain
<1> QED BY <1>8, <1>9, <1>10, <1>11, <1>12

LEMMA NoneIsName == None \in Name
<1>1. "/" \in Bases BY DEF Bases
<1> QED BY <1>1 DEF None, Plain, Name

Wrappers == {"auth", "log", "limit"}

\* Only the last handler of a chain is one that answers a page.
Chained(c) ==
  /\ c \in Seq(Wrappers \cup Handlers) /\ c # <<>>
  /\ c[Len(c)] \in Handlers /\ \A i \in 1 .. Len(c) - 1 : c[i] \in Wrappers

Last(c)    == c[Len(c)]
HasAuth(c) == \E i \in 1 .. Len(c) : c[i] = "auth"

LEMMA TailChained ==
  ASSUME NEW c, Chained(c), Head(c) \notin Handlers
  PROVE  /\ Chained(Tail(c)) /\ Last(Tail(c)) = Last(c)
         /\ HasAuth(c) => Head(c) = "auth" \/ HasAuth(Tail(c))
<1>1. c \in Seq(Wrappers \cup Handlers) /\ c # <<>> BY DEF Chained
<1>2. Len(c) \in Nat \ {0} /\ Head(c) = c[1] BY <1>1
<1>3. Len(c) # 1 BY <1>2 DEF Chained
<1>4. Tail(c) \in Seq(Wrappers \cup Handlers) /\ Len(Tail(c)) = Len(c) - 1 BY <1>1
<1>5. \A i \in 1 .. Len(c) - 1 : Tail(c)[i] = c[i + 1] BY <1>1, <1>2
<1>6. Tail(c) # <<>>
  <2>1. Len(Tail(c)) # 0 BY <1>2, <1>3, <1>4
  <2>2. Len(<<>>) = 0 OBVIOUS
  <2> QED BY <2>1, <2>2, Zenon
<1>7. \A i \in 1 .. Len(Tail(c)) - 1 : Tail(c)[i] \in Wrappers
  <2>1. TAKE i \in 1 .. Len(Tail(c)) - 1
  <2>2. i + 1 \in 1 .. Len(c) - 1 /\ Tail(c)[i] = c[i + 1] BY <1>2, <1>4, <1>5
  <2> QED BY <2>2 DEF Chained
<1>8. Last(Tail(c)) = Last(c) BY <1>2, <1>3, <1>4, <1>5 DEF Last
<1>9. HasAuth(c) => Head(c) = "auth" \/ HasAuth(Tail(c))
  <2>1. SUFFICES ASSUME NEW i \in 1 .. Len(c), c[i] = "auth", i # 1 PROVE HasAuth(Tail(c))
    BY <1>2 DEF HasAuth
  <2>2. i - 1 \in 1 .. Len(Tail(c)) /\ Tail(c)[i - 1] = "auth" BY <1>2, <1>4, <1>5, <2>1
  <2> QED BY <2>2 DEF HasAuth
<1>10. Last(c) \in Handlers BY DEF Chained, Last
<1> QED BY <1>4, <1>6, <1>7, <1>8, <1>9, <1>10 DEF Chained, Last

\* A handler that answers is the last of its chain.
LEMMA HeadAnswers ==
  ASSUME NEW c, Chained(c), Head(c) \in Handlers
  PROVE  Last(c) = Head(c) /\ ~HasAuth(c)
<1>1. c \in Seq(Wrappers \cup Handlers) /\ c # <<>> BY DEF Chained
<1>2. Len(c) \in Nat \ {0} /\ Head(c) = c[1] BY <1>1
<1>3. Len(c) = 1
  <2>1. SUFFICES ASSUME Len(c) # 1 PROVE FALSE OBVIOUS
  <2>2. 1 \in 1 .. Len(c) - 1 BY <1>2, <2>1
  <2>3. c[1] \in Wrappers BY <2>2 DEF Chained
  <2> QED BY <1>2, <2>3 DEF Wrappers, Handlers
<1> QED BY <1>2, <1>3 DEF Last, HasAuth, Handlers

\* The parts of a site that main() wraps in BasicAuth, by who answers.
Needs(o, h, path) == h # "queue" /\ (o.dev \/ h = "pprof" \/ (h = "php" /\ path = "admin"))

\* c is a chain that ends in h.
EndsIn(c, h) == Chained(c) /\ Last(c) = h

\* The chains that are written out in main().
LEMMA WrittenChains ==
  /\ EndsIn(<<"proxy">>, "proxy") /\ EndsIn(<<"log", "files">>, "files")
  /\ EndsIn(<<"log", "php">>, "php") /\ EndsIn(<<"log", "limit", "php">>, "php")
  /\ EndsIn(<<"log", "queue">>, "queue")
  /\ EndsIn(<<"auth", "log", "php">>, "php") /\ HasAuth(<<"auth", "log", "php">>)
  /\ EndsIn(<<"auth", "pprof">>, "pprof") /\ HasAuth(<<"auth", "pprof">>)
<1> USE DEF EndsIn, Chained, Last, HasAuth, Wrappers, Handlers
<1>1. EndsIn(<<"proxy">>, "proxy") OBVIOUS
<1>2. EndsIn(<<"log", "files">>, "files") OBVIOUS
<1>3. EndsIn(<<"log", "php">>, "php") OBVIOUS
<1>4. EndsIn(<<"log", "limit", "php">>, "php") OBVIOUS
<1>5. EndsIn(<<"log", "queue">>, "queue") OBVIOUS
<1>6. EndsIn(<<"auth", "log", "php">>, "php") OBVIOUS
<1>7. HasAuth(<<"auth", "log", "php">>) OBVIOUS
<1>8. EndsIn(<<"auth", "pprof">>, "pprof") OBVIOUS
<1>9. HasAuth(<<"auth", "pprof">>) OBVIOUS
<1> HIDE DEF EndsIn, HasAuth
<1> QED BY <1>1, <1>2, <1>3, <1>4, <1>5, <1>6, <1>7, <1>8, <1>9

LEMMA Wrapped ==
  ASSUME NEW w \in Wrappers, NEW c, Chained(c)
  PROVE  /\ Chained(<<w>> \o c) /\ Last(<<w>> \o c) = Last(c)
         /\ w = "auth" \/ HasAuth(c) => HasAuth(<<w>> \o c)
<1> DEFINE e == <<w>> \o c
<1>1. c \in Seq(Wrappers \cup Handlers) /\ Len(c) \in Nat \ {0} BY DEF Chained
<1>2. <<w>> \in Seq(Wrappers \cup Handlers) /\ Len(<<w>>) = 1 OBVIOUS
<1>3. e \in Seq(Wrappers \cup Handlers) /\ Len(e) = Len(c) + 1 BY <1>1, <1>2
<1>4. e[1] = w /\ \A i \in 1 .. Len(c) : e[i + 1] = c[i] BY <1>1, <1>2
<1>5. Last(e) = Last(c) BY <1>1, <1>3, <1>4 DEF Last
<1>6. \A i \in 1 .. Len(e) - 1 : e[i] \in Wrappers
  <2>1. TAKE i \in 1 .. Len(e) - 1
  <2>2. CASE i = 1 BY <1>4, <2>2
  <2>3. CASE i # 1
    <3>1. i - 1 \in 1 .. Len(c) - 1 /\ (i - 1) + 1 = i BY <1>1, <1>3, <2>3
    <3>2. e[i] = c[i - 1] BY <1>1, <1>4, <3>1
    <3> QED BY <3>1, <3>2 DEF Chained
  <2> QED BY <2>2, <2>3
<1>7. HasAuth(c) => HasAuth(e)
  <2>1. SUFFICES ASSUME NEW i \in 1 .. Len(c), c[i] = "auth" PROVE HasAuth(e) BY DEF HasAuth
  <2>2. i + 1 \in 1 .. Len(e) /\ e[i + 1] = "auth" BY <1>1, <1>3, <1>4, <2>1
  <2> QED BY <2>2 DEF HasAuth
<1>8. w = "auth" => HasAuth(e) BY <1>1, <1>3, <1>4 DEF HasAuth
<1>9. e # <<>>
  <2>1. Len(e) # 0 BY <1>1, <1>3
  <2>2. Len(<<>>) = 0 OBVIOUS
  <2> QED BY <2>1, <2>2, Zenon
<1>10. e[Len(e)] \in Handlers BY <1>5 DEF Last, Chained
<1> QED BY <1>3, <1>5, <1>6, <1>7, <1>8, <1>9, <1>10 DEF Chained

\* The chains that main() builds: a guarded part has BasicAuth before it, on
\* the pattern that the path selects.
LEMMA ChainsOfMain ==
  ASSUME NEW d, NEW o, NEW p, NEW path, p = path \/ p = "home", NEW c, c = Chain(d, o, p)
  PROVE  /\ Chained(c)
         /\ d = Default => Last(c) = "files"
         /\ d # Default /\ Needs(o, Last(c), path) => HasAuth(c)
<1> DEFINE Dev(e) == IF o.dev THEN <<"auth">> \o e ELSE e
           Php    == IF o.ratelimit THEN <<"log", "limit", "php">> ELSE <<"log", "php">>
           Of     == CASE p = "queue" -> <<"log", "queue">>
                       [] p = "admin" -> <<"auth", "log", "php">>
                       [] p = "pprof" -> <<"auth", "pprof">>
                       [] p = "home"  -> Dev(<<"log", "files">>)
                       [] OTHER       -> Dev(Php)
<1>1. "auth" \in Wrappers /\ "log" \in Wrappers BY DEF Wrappers
<1>2. ASSUME NEW e, NEW h, EndsIn(e, h) PROVE EndsIn(Dev(e), h) /\ (o.dev => HasAuth(Dev(e)))
  BY <1>1, <1>2, Wrapped DEF EndsIn
<1>3. EndsIn(Php, "php") BY WrittenChains
<1>4. c = IF d = Default THEN <<"log", "files">>
          ELSE IF o.proxy # "none" THEN <<"log">> \o Dev(<<"proxy">>) ELSE Of
  <2>1. CASE d = Default BY <2>1 DEF Chain
  <2>2. CASE d # Default /\ o.proxy # "none" BY <2>2 DEF Chain
  <2>3. CASE d # Default /\ ~(o.proxy # "none") BY <2>3, Zenon DEF Chain
  <2> QED BY <2>1, <2>2, <2>3
<1>5. /\ p = "queue" => Of = <<"log", "queue">>
      /\ p = "admin" => Of = <<"auth", "log", "php">>
      /\ p = "pprof" => Of = <<"auth", "pprof">>
      /\ p = "home"  => Of = Dev(<<"log", "files">>)
      /\ p \notin {"queue", "admin", "pprof", "home"} => Of = Dev(Php)
  <2> HIDE DEF Dev, Php
  <2> QED OBVIOUS
<1> HIDE DEF Dev, Php, Of
<1>6. CASE d = Default
  <2>1. EndsIn(c, "files") BY <1>4, <1>6, WrittenChains
  <2> QED BY <1>6, <2>1 DEF EndsIn
<1>7. CASE d # Default /\ o.proxy # "none"
  <2>1. c = <<"log">> \o Dev(<<"proxy">>) BY <1>4, <1>7
  <2>2. EndsIn(Dev(<<"proxy">>), "proxy") /\ (o.dev => HasAuth(Dev(<<"proxy">>)))
    BY <1>2, WrittenChains
  <2>3. EndsIn(c, "proxy") /\ (o.dev => HasAuth(c)) BY <1>1, <2>1, <2>2, Wrapped DEF EndsIn
  <2> QED BY <1>7, <2>3 DEF Needs, EndsIn
<1>8. CASE d # Default /\ o.proxy = "none"
  <2>1. c = Of BY <1>4, <1>8
  <2>2. CASE p = "queue"
    <3>1. EndsIn(c, "queue") BY <1>5, <2>1, <2>2, WrittenChains
    <3> QED BY <1>8, <3>1 DEF Needs, EndsIn
  <2>3. CASE p = "admin"
    <3>1. EndsIn(c, "php") /\ HasAuth(c) BY <1>5, <2>1, <2>3, WrittenChains
    <3> QED BY <1>8, <3>1 DEF EndsIn
  <2>4. CASE p = "pprof"
    <3>1. EndsIn(c, "pprof") /\ HasAuth(c) BY <1>5, <2>1, <2>4, WrittenChains
    <3> QED BY <1>8, <3>1 DEF EndsIn
  <2>5. CASE p = "home"
    <3>1. EndsIn(c, "files") /\ (o.dev => HasAuth(c)) BY <1>2, <1>5, <2>1, <2>5, WrittenChains
    <3> QED BY <1>8, <3>1 DEF Needs, EndsIn
  <2>6. CASE p \notin {"queue", "admin", "pprof", "home"}
    <3>1. EndsIn(c, "php") /\ (o.dev => HasAuth(c)) BY <1>2, <1>3, <1>5, <2>1, <2>6
    <3>2. path # "admin" BY <2>6
    <3> QED BY <1>8, <3>1, <3>2 DEF Needs, EndsIn
  <2> QED BY <2>2, <2>3, <2>4, <2>5, <2>6
<1> QED BY <1>6, <1>7, <1>8

-----------------------------------------------------------------------------
(* The invariant *)

Request == [scheme : {"http", "https"}, host : Name, path : Paths, method : {"GET", "POST"},
            client : Clients \cup {NoRequest.client}]
Codes   == {0, 200, 301, 400, 401, 403, 429, 500}
Writers == {"none", "tls", "redirect", "vhost", "recover", "auth", "limit"} \cup Handlers

\* What the loop leaves behind, for the directories it has been to.
Sites ==
  /\ main \in {"boot", "run", "died"} /\ todo \subseteq Dirs
  /\ DOMAIN overrides \subseteq Dirs /\ DOMAIN muxs = DOMAIN overrides
  /\ \A d \in DOMAIN muxs :
        muxs[d] = [p \in Patterns(d, overrides[d]) |-> Chain(d, overrides[d], p)]
  /\ www \subseteq Name
  /\ \A d \in DOMAIN muxs : d.www = 0 /\ d # Default => [d EXCEPT !.www = 1] \in www

\* The request, and that the sites do not change while it is on its way.
Typed ==
  /\ pc \in {"idle", "route", "chain", "answered"} /\ hops \in Nat
  /\ req \in Request /\ first \in [scheme : {"http", "https"}, host : Name]
  /\ tag \in Name /\ logging \in BOOLEAN
  /\ answer \in [code : Codes, by : Writers, site : {None} \cup Dirs]
  /\ pc # "idle" => main = "run"

Counted ==
  /\ pending \in Nat /\ writing \in Nat /\ lines \in Nat /\ served \in Nat /\ faults \in Nat
  /\ broken \in BOOLEAN /\ LoggedUntilFault

InChain ==
  /\ pc = "chain" => Chained(chain) /\ answer.site \in DOMAIN muxs
  /\ pc # "chain" => chain = <<>>
  /\ pc # "answered" => answer.by = "none"

\* BasicAuth is still before a guarded part, or has let the client pass.
Guard ==
  /\ pc = "chain" /\ answer.site = Default => Last(chain) = "files"
  /\ pc = "chain" /\ answer.site # Default =>
       LET o == overrides[answer.site] IN
       Needs(o, Last(chain), req.path) => HasAuth(chain) \/ Known(o, req.client)

PolicyOf(o) == IF o.siteType = "" THEN o.csp ELSE "none"

\* OwnSite, from the mux on.
Own ==
  pc \in {"chain", "answered"} =>
    /\ req.scheme = "https" /\ req.host.www = 0 /\ req.host \in DOMAIN muxs
         => answer.site = req.host /\ tag = req.host
    /\ answer.site # None /\ (req.host.www > 0 => req.host \notin Dirs)
         => policy = PolicyOf(overrides[answer.site])
    /\ answer.by = "queue" \/ (pc = "chain" /\ Last(chain) = "queue") => tag = answer.site

\* Where the request is: where it was sent, or where the redirects lead.
Arrives ==
  /\ pc # "idle" /\ hops = 0 => req.scheme = first.scheme /\ req.host = first.host
  /\ pc # "idle" /\ hops > 0 /\ first.host.www <= 1
       => req.scheme = "https" /\ req.host = Plain(first.host.base)

\* Who is redirected.
Redirected ==
  (/\ pc \in {"chain", "answered"}
   /\ \/ req.scheme = "http" /\ req.method = "GET" /\ Normal(req.host) \in DOMAIN muxs
      \/ req.scheme = "https" /\ req.host.www > 0 /\ Certified(req.host))
  => pc = "answered" /\ answer.code = 301

SiteInv == Sites /\ Typed /\ Counted /\ InChain /\ Guard /\ GuardedParts /\ Own /\ Arrives /\ Redirected

LEMMA InitInv == Init => SiteInv
<1> SUFFICES ASSUME Init PROVE SiteInv OBVIOUS
<1>1. Sites
  <2>1. overrides = <<>> /\ muxs = <<>> /\ www = {} /\ main = "boot" /\ todo = Dirs BY DEF Init
  <2>2. DOMAIN overrides = {} /\ DOMAIN muxs = {} BY <2>1
  <2> QED BY <2>1, <2>2 DEF Sites
<1>2. None \in Name BY NoneIsName
<1> USE DEF Init
<1>3. Typed
  <2>1. req \in Request BY <1>2 DEF Request, NoRequest, Paths
  <2>2. answer \in [code : Codes, by : Writers, site : {None} \cup Dirs]
    BY DEF Nobody, Codes, Writers
  <2>3. first \in [scheme : {"http", "https"}, host : Name] BY <1>2
  <2> QED BY <1>2, <2>1, <2>2, <2>3 DEF Typed
<1>4. Counted
  <2>1. /\ pending = 0 /\ writing = 0 /\ lines = 0 /\ served = 0 /\ faults = 0
        /\ broken \in BOOLEAN OBVIOUS
  <2> HIDE DEF Init
  <2> QED BY <2>1 DEF Counted, LoggedUntilFault
<1>5. InChain BY DEF InChain, Nobody
<1>6. Guard /\ GuardedParts BY DEF Guard, GuardedParts
<1>7. Own BY DEF Own
<1>8. Arrives BY DEF Arrives
<1>9. Redirected BY DEF Redirected
<1> QED BY <1>1, <1>3, <1>4, <1>5, <1>6, <1>7, <1>8, <1>9 DEF SiteInv

\* While main() goes through the directories there is no request.
LEMMA BootKeeps == SiteInv /\ Boot => SiteInv'
<1> SUFFICES ASSUME SiteInv, Boot PROVE SiteInv' OBVIOUS
<1>1. Sites /\ Typed /\ Counted /\ InChain BY DEF SiteInv
<1>2. Booting BY DEF Boot, Listen, Configure, SkipDir, Panic
<1>3. pc = "idle" /\ pc' = "idle" BY <1>1, <1>2 DEF Typed, Booting
<1>4. Sites'
  <2>1. CASE Listen BY <1>1, <2>1 DEF Sites, Listen
  <2>2. ASSUME NEW d \in Dirs, NEW o \in Overrides[d], Configure(d, o) PROVE Sites'
    <3>1. /\ overrides' = [e \in DOMAIN overrides \cup {d} |-> IF e = d THEN o ELSE overrides[e]]
          /\ muxs' = [e \in DOMAIN muxs \cup {d} |->
                IF e = d THEN [p \in Patterns(d, o) |-> Chain(d, o, p)] ELSE muxs[e]]
          /\ www' = www \cup Www(d, o) /\ todo' = todo \ {d} /\ main' = main
      BY <2>2 DEF Configure
    <3>2. DOMAIN overrides' \subseteq Dirs /\ DOMAIN muxs' = DOMAIN overrides'
      BY <1>1, <3>1 DEF Sites
    <3>3. ASSUME NEW e \in DOMAIN muxs'
          PROVE  muxs'[e] = [p \in Patterns(e, overrides'[e]) |-> Chain(e, overrides'[e], p)]
      <4>1. CASE e = d BY <1>1, <3>1, <4>1 DEF Sites
      <4>2. CASE e # d
        <5>1. e \in DOMAIN muxs /\ muxs'[e] = muxs[e] /\ overrides'[e] = overrides[e]
          BY <1>1, <3>1, <3>3, <4>2 DEF Sites
        <5> QED BY <1>1, <5>1 DEF Sites
      <4> QED BY <4>1, <4>2
    <3>4. www' \subseteq Name
      <4>1. d \in Name BY SiteAssumption DEF SiteAssumption
      <4>2. [d EXCEPT !.www = 1] \in Name BY <4>1 DEF Name
      <4> QED BY <1>1, <3>1, <4>2 DEF Sites, Www
    <3>5. ASSUME NEW e \in DOMAIN muxs', e.www = 0, e # Default PROVE [e EXCEPT !.www = 1] \in www'
      <4>1. CASE e = d BY <3>1, <3>5, <4>1 DEF Www
      <4>2. CASE e # d
        <5>1. e \in DOMAIN muxs BY <3>1, <4>2
        <5> QED BY <1>1, <3>1, <3>5, <5>1 DEF Sites
      <4> QED BY <4>1, <4>2
    <3> QED BY <1>1, <3>1, <3>2, <3>3, <3>4, <3>5 DEF Sites
  <2>3. ASSUME NEW d \in Dirs, NEW o \in Overrides[d], SkipDir(d, o) \/ Panic(d, o) PROVE Sites'
    <3>1. CASE SkipDir(d, o) BY <1>1, <3>1 DEF Sites, SkipDir
    <3>2. CASE Panic(d, o) BY <1>1, <3>2 DEF Sites, Panic
    <3> QED BY <2>3, <3>1, <3>2
  <2> QED BY <2>1, <2>2, <2>3 DEF Boot
<1>5. Typed' BY <1>1, <1>2, <1>3 DEF Typed, Booting, route, inside
<1>6. Counted' BY <1>1, <1>2 DEF Counted, LoggedUntilFault, Booting, log
<1>7. InChain' BY <1>1, <1>2, <1>3 DEF InChain, Booting, inside
<1>8. Guard' /\ GuardedParts' /\ Own' /\ Arrives' /\ Redirected'
  BY <1>3 DEF Guard, GuardedParts, Own, Arrives, Redirected
<1> QED BY <1>4, <1>5, <1>6, <1>7, <1>8 DEF SiteInv

\* Later the sites are only read.
LEMMA SitesStay == Sites /\ UNCHANGED config => Sites'
BY DEF Sites, config

LEMMA AnswerCounts ==
  ASSUME NEW code, NEW by, NEW site, Counted, logging \in BOOLEAN, Answer(code, by, site)
  PROVE  /\ Counted' /\ logging' \in BOOLEAN
         /\ pc' = "answered" /\ chain' = <<>> /\ answer' = [code |-> code, by |-> by, site |-> site]
<1>1. /\ logging' = FALSE /\ writing' = writing /\ broken' = broken /\ lines' = lines
      /\ faults' = faults /\ pc' = "answered" /\ chain' = <<>>
      /\ answer' = [code |-> code, by |-> by, site |-> site]
  BY DEF Answer
<1>2. \/ pending' = pending + 1 /\ served' = served + 1
      \/ pending' = pending /\ served' = served
  BY DEF Answer
<1>3. Counted' BY <1>1, <1>2 DEF Counted, LoggedUntilFault
<1> QED BY <1>1, <1>3

\* The start of a connection: of the first one, or after a redirect.
LEMMA ConnectKeeps ==
  ASSUME SiteInv, main = "run", chain = <<>>, NEW r \in Request, Connect(r),
         first' \in [scheme : {"http", "https"}, host : Name], hops' \in Nat, Arrives'
  PROVE  SiteInv'
<1>1. Sites /\ Typed /\ Counted BY DEF SiteInv
<1>2. Sites' /\ main' = "run" /\ DOMAIN muxs' = DOMAIN muxs /\ www' = www
  BY <1>1, SitesStay DEF Connect, config
<1>3. req' = r /\ tag' = None /\ tag' \in Name BY NoneIsName DEF Connect
<1>4. CASE r.scheme = "http" \/ Certified(r.host)
  <2>1. pc' = "route" /\ answer' = Nobody /\ UNCHANGED <<chain, logging, log>>
    BY <1>4 DEF Connect
  <2>2. answer' \in [code : Codes, by : Writers, site : {None} \cup Dirs]
    BY <2>1 DEF Nobody, Codes, Writers
  <2>3. Typed' BY <1>1, <1>2, <1>3, <2>1, <2>2 DEF Typed
  <2>4. Counted' BY <1>1, <2>1 DEF Counted, LoggedUntilFault, log
  <2>5. InChain' BY <2>1 DEF InChain, Nobody
  <2>6. Guard' /\ GuardedParts' /\ Own' /\ Redirected'
    BY <2>1 DEF Guard, GuardedParts, Own, Redirected
  <2> QED BY <1>2, <2>3, <2>4, <2>5, <2>6 DEF SiteInv
<1>5. CASE ~(r.scheme = "http" \/ Certified(r.host))
  <2>1. Answer(0, "tls", None) BY <1>5 DEF Connect
  <2>2. /\ Counted' /\ logging' \in BOOLEAN
        /\ pc' = "answered" /\ chain' = <<>> /\ answer' = [code |-> 0, by |-> "tls", site |-> None]
    BY <1>1, <2>1, AnswerCounts DEF Typed
  <2>3. answer' \in [code : Codes, by : Writers, site : {None} \cup Dirs]
    BY <2>2 DEF Codes, Writers
  <2>4. Typed' BY <1>1, <1>2, <1>3, <2>2, <2>3 DEF Typed
  <2>5. InChain' BY <2>2 DEF InChain
  <2>6. Guard' /\ GuardedParts' BY <2>2 DEF Guard, GuardedParts, Handlers
  <2>7. r.host \notin DOMAIN muxs
    <3>1. SUFFICES ASSUME r.host \in DOMAIN muxs PROVE Certified(r.host) BY <1>5
    <3>2. r.host \in Dirs /\ r.host \in Name /\ r.host.form = "plain"
      BY <1>1, <3>1, SiteAssumption DEF SiteAssumption, Sites
    <3>3. [r.host EXCEPT !.form = "plain"] = r.host BY <3>2, Names
    <3> QED BY <3>2, <3>3 DEF Certified
  <2>8. Own' BY <1>2, <1>3, <2>2, <2>7 DEF Own
  <2>9. Certified(r.host)' <=> Certified(r.host) BY <1>2 DEF Certified
  <2>10. Redirected'
    <3>1. r.scheme # "http" /\ ~Certified(req.host)' BY <1>3, <1>2, <1>5 DEF Certified
    <3> QED BY <1>3, <3>1 DEF Redirected
  <2> QED BY <1>2, <2>2, <2>4, <2>5, <2>6, <2>8, <2>10 DEF SiteInv
<1> QED BY <1>4, <1>5

LEMMA AskKeeps == SiteInv /\ Ask => SiteInv'
<1> SUFFICES ASSUME SiteInv, Ask PROVE SiteInv' OBVIOUS
<1>1. PICK s \in {"http", "https"}, h \in Hosts, p \in Paths, m \in {"GET", "POST"}, c \in Clients :
        /\ Connect([scheme |-> s, host |-> h, path |-> p, method |-> m, client |-> c])
        /\ first' = [scheme |-> s, host |-> h]
  BY DEF Ask
<1> DEFINE r == [scheme |-> s, host |-> h, path |-> p, method |-> m, client |-> c]
<1>2. main = "run" /\ pc = "idle" /\ hops' = 0 BY DEF Ask
<1>3. chain = <<>> BY <1>2 DEF SiteInv, InChain
<1>4. h \in Name BY SiteAssumption DEF SiteAssumption
<1>5. r \in Request /\ first' \in [scheme : {"http", "https"}, host : Name]
  BY <1>1, <1>4 DEF Request
<1>6. req' = r BY <1>1 DEF Connect
<1>7. Arrives' BY <1>1, <1>2, <1>6 DEF Arrives
<1> QED BY <1>1, <1>2, <1>3, <1>5, <1>7, ConnectKeeps

LEMMA FollowKeeps == SiteInv /\ Follow => SiteInv'
<1> SUFFICES ASSUME SiteInv, Follow PROVE SiteInv' OBVIOUS
<1> DEFINE r == [req EXCEPT !.scheme = "https", !.host = Target(@), !.method = "GET"]
<1>1. Typed /\ InChain /\ Arrives BY DEF SiteInv
<1>2. /\ pc = "answered" /\ Connect(r) /\ hops' = hops + 1 /\ first' = first
  BY DEF Follow
<1>3. main = "run" /\ chain = <<>> BY <1>1, <1>2 DEF Typed, InChain
<1>4. req \in Request /\ req.host \in Name /\ hops \in Nat
      /\ first \in [scheme : {"http", "https"}, host : Name] /\ first.host \in Name
  BY <1>1 DEF Typed, Request
<1>5. Target(req.host) \in Name BY <1>4, Names
<1>6. r \in Request /\ r.scheme = "https" /\ r.host = Target(req.host) BY <1>4, <1>5 DEF Request
<1>7. req' = r BY <1>2 DEF Connect
<1>8. Arrives'
  <2>1. SUFFICES ASSUME first.host.www <= 1 PROVE Target(req.host) = Plain(first.host.base)
    BY <1>2, <1>4, <1>6, <1>7 DEF Arrives
  <2>2. CASE hops = 0
    <3>1. req.host = first.host BY <1>1, <1>2, <2>2 DEF Arrives
    <3> QED BY <1>4, <2>1, <3>1, Names
  <2>3. CASE hops # 0
    <3>1. req.host = Plain(first.host.base) BY <1>1, <1>2, <1>4, <2>1, <2>3 DEF Arrives
    <3>2. req.host.www = 0 /\ req.host.form = "plain" BY <3>1 DEF Plain
    <3>3. Target(req.host) = req.host BY <1>4, <3>2, Names
    <3> QED BY <3>1, <3>3
  <2> QED BY <2>2, <2>3
<1>9. hops' \in Nat /\ first' \in [scheme : {"http", "https"}, host : Name] BY <1>2, <1>4
<1> HIDE DEF r
<1> QED BY <1>2, <1>3, <1>6, <1>8, <1>9, ConnectKeeps

LEMMA LeaveKeeps == SiteInv /\ Leave => SiteInv'
<1> SUFFICES ASSUME SiteInv, Leave PROVE SiteInv' OBVIOUS
<1>1. Sites /\ Typed /\ Counted /\ InChain BY DEF SiteInv
<1>2. /\ pc = "answered" /\ pc' = "idle" /\ answer' = Nobody /\ tag' = None
      /\ req' = NoRequest /\ first' = [scheme |-> "http", host |-> None] /\ hops' = 0
      /\ chain' = chain /\ logging' = logging /\ UNCHANGED config /\ UNCHANGED log
  BY DEF Leave
<1>3. None \in Name BY NoneIsName
<1>4. req' \in Request BY <1>2, <1>3 DEF Request, NoRequest, Paths
<1>5. answer' \in [code : Codes, by : Writers, site : {None} \cup Dirs]
  BY <1>2 DEF Nobody, Codes, Writers
<1>6. first' \in [scheme : {"http", "https"}, host : Name] BY <1>2, <1>3
<1>7. Sites' BY <1>1, <1>2, SitesStay
<1>8. Typed' BY <1>1, <1>2, <1>3, <1>4, <1>5, <1>6 DEF Typed
<1>9. Counted' BY <1>1, <1>2 DEF Counted, LoggedUntilFault, log
<1>10. InChain' BY <1>1, <1>2 DEF InChain, Nobody
<1>11. Guard' /\ GuardedParts' /\ Own' /\ Arrives' /\ Redirected'
  BY <1>2 DEF Guard, GuardedParts, Own, Arrives, Redirected
<1> QED BY <1>7, <1>8, <1>9, <1>10, <1>11 DEF SiteInv

\* The request is answered before any site has it: redirected, refused, or
\* for a host that is not served.
LEMMA AnsweredKeeps ==
  ASSUME SiteInv, pc = "route", UNCHANGED <<config, route, tag, policy>>,
         NEW code \in Codes, NEW by \in {"redirect", "vhost"}, Answer(code, by, None),
         \/ code = 301 /\ (req.scheme = "http" \/ req.host.www > 0)
         \/ req.scheme = "http" /\ (req.method # "GET" \/ Normal(req.host) \notin DOMAIN muxs)
         \/ req.scheme = "https" /\ req.host.www = 0 /\ req.host \notin DOMAIN muxs
  PROVE  SiteInv'
<1>1. Sites /\ Typed /\ Counted /\ Arrives BY DEF SiteInv
<1>2. Sites' BY <1>1, SitesStay
<1>3. /\ Counted' /\ logging' \in BOOLEAN
      /\ pc' = "answered" /\ chain' = <<>> /\ answer' = [code |-> code, by |-> by, site |-> None]
  BY <1>1, AnswerCounts DEF Typed
<1>4. UNCHANGED <<main, muxs, www, overrides, req, first, hops, tag, policy>> BY DEF config, route
<1>5. answer' \in [code : Codes, by : Writers, site : {None} \cup Dirs] BY <1>3 DEF Writers
<1>6. Typed' BY <1>1, <1>3, <1>4, <1>5 DEF Typed
<1>7. InChain' BY <1>3 DEF InChain
<1>8. Guard' /\ GuardedParts' BY <1>3 DEF Guard, GuardedParts, Handlers
<1>9. req.host.www > 0 => ~(req.host.www = 0) BY <1>1 DEF Typed, Request, Name
<1>10. Own' BY <1>3, <1>4, <1>9 DEF Own
<1>11. Arrives' BY <1>1, <1>3, <1>4 DEF Arrives
<1>12. Redirected'
  <2>1. code = 301 \/ ~(\/ req.scheme = "http" /\ req.method = "GET" /\ Normal(req.host) \in DOMAIN muxs
                        \/ req.scheme = "https" /\ req.host.www > 0 /\ Certified(req.host))
    BY <1>9
  <2>2. Normal(req.host)' = Normal(req.host) /\ (Certified(req.host)' <=> Certified(req.host))
    BY <1>4 DEF Normal, Lower, Certified
  <2> QED BY <1>3, <1>4, <2>1, <2>2 DEF Redirected
<1> QED BY <1>2, <1>3, <1>6, <1>7, <1>8, <1>10, <1>11, <1>12 DEF SiteInv

\* The pattern of a mux that takes the request: that of its path, or /.
LEMMA PatternOf ==
  ASSUME NEW d, NEW o, NEW path, NEW m,
         DOMAIN m = Patterns(d, o), \A p \in Patterns(d, o) : m[p] = Chain(d, o, p)
  PROVE  \E p : /\ p = path \/ p = "home"
                /\ m[IF path \in DOMAIN m THEN path ELSE "home"] = Chain(d, o, p)
<1>1. "home" \in Patterns(d, o) BY DEF Patterns
<1>2. CASE path \in DOMAIN m BY <1>2
<1>3. CASE path \notin DOMAIN m BY <1>1, <1>3
<1> QED BY <1>2, <1>3

\* A mux takes the request: that of the fallback, or that of the host.
LEMMA EnterKeeps ==
  ASSUME SiteInv, pc = "route", UNCHANGED <<config, route>>,
         NEW site \in DOMAIN muxs, NEW t, Enter(site, t),
         \/ site = Default /\ t = None /\ req.scheme = "http" /\ Normal(req.host) \notin DOMAIN muxs
         \/ site = req.host /\ t = Normal(req.host) /\ req.scheme = "https" /\ req.host.www = 0
  PROVE  SiteInv'
<1> DEFINE o == overrides[site]
           c == req.client
<1>1. Sites /\ Typed /\ Counted /\ Arrives BY DEF SiteInv
<1>2. Sites' BY <1>1, SitesStay
<1>3. UNCHANGED <<main, muxs, www, overrides, req, first, hops, logging, log>>
  BY DEF config, route, Enter
<1>4. /\ pc' = "chain" /\ tag' = t /\ policy' = PolicyFor(req.host)
      /\ chain' = muxs[site][IF req.path \in DOMAIN muxs[site] THEN req.path ELSE "home"]
      /\ answer' = [Nobody EXCEPT !.site = site]
  BY DEF Enter
<1>5. answer' = [code |-> 0, by |-> "none", site |-> site] BY <1>4 DEF Nobody
<1>6. site \in Dirs /\ site \in Name /\ site.form = "plain" /\ req.host \in Name
  BY <1>1, SiteAssumption DEF SiteAssumption, Sites, Typed, Request
<1>7. \E p : (p = req.path \/ p = "home") /\ chain' = Chain(site, o, p)
  <2>1. muxs[site] = [p \in Patterns(site, o) |-> Chain(site, o, p)] BY <1>1 DEF Sites
  <2> DEFINE m == muxs[site]
  <2>2. DOMAIN m = Patterns(site, o) /\ \A p \in Patterns(site, o) : m[p] = Chain(site, o, p)
    BY <2>1
  <2>3. chain' = m[IF req.path \in DOMAIN m THEN req.path ELSE "home"] BY <1>4
  <2> HIDE DEF o, m
  <2>4. \E p : /\ p = req.path \/ p = "home"
               /\ m[IF req.path \in DOMAIN m THEN req.path ELSE "home"] = Chain(site, o, p)
    BY <2>2, PatternOf
  <2> QED BY <2>3, <2>4
<1>8. /\ Chained(chain')
      /\ site = Default => Last(chain') = "files"
      /\ site # Default /\ Needs(o, Last(chain'), req.path) => HasAuth(chain')
  <2> HIDE DEF o
  <2> QED BY <1>7, ChainsOfMain
<1>9. Typed'
  <2>1. t \in Name
    <3>1. CASE t = None BY <3>1, NoneIsName
    <3>2. CASE t = Normal(req.host) BY <1>6, <3>2, Names
    <3> QED BY <3>1, <3>2
  <2>2. answer' \in [code : Codes, by : Writers, site : {None} \cup Dirs]
    BY <1>5, <1>6 DEF Codes, Writers
  <2> QED BY <1>1, <1>3, <1>4, <2>1, <2>2 DEF Typed
<1>10. Counted' BY <1>1, <1>3 DEF Counted, LoggedUntilFault, log
<1>11. InChain' BY <1>3, <1>4, <1>5, <1>8 DEF InChain
<1>12. Guard' BY <1>3, <1>4, <1>5, <1>8 DEF Guard
<1>13. GuardedParts' BY <1>4 DEF GuardedParts
<1>14. site = req.host /\ req.host.www = 0 => Normal(req.host) = site BY <1>6, Names
<1>15. (req.host.www > 0 => req.host \notin Dirs) => policy' = PolicyOf(o)
  <2>1. SUFFICES ASSUME req.host.www > 0 => req.host \notin Dirs PROVE policy' = PolicyOf(o) OBVIOUS
  <2>2. site \in DOMAIN overrides BY <1>1 DEF Sites
  <2>3. req.host \in DOMAIN overrides => site = req.host
    <3>1. SUFFICES ASSUME req.host \in DOMAIN overrides, site # req.host PROVE FALSE OBVIOUS
    <3>2. req.host \in DOMAIN muxs /\ req.host \in Dirs /\ Normal(req.host) \notin DOMAIN muxs
      BY <1>1, <3>1 DEF Sites
    <3>3. req.host.form = "plain" BY <3>2, SiteAssumption DEF SiteAssumption
    <3>4. req.host.www = 0 BY <1>6, <2>1, <3>2 DEF Name
    <3> QED BY <1>6, <3>2, <3>3, <3>4, Names
  <2>4. req.host \notin DOMAIN overrides => site = Default BY <2>2
  <2>5. PolicyFor(req.host) = PolicyOf(o)
    <3>1. CASE req.host \in DOMAIN overrides
      <4>1. site = req.host BY <2>3, <3>1
      <4> QED BY <3>1, <4>1, Zenon DEF PolicyFor, PolicyOf
    <3>2. CASE req.host \notin DOMAIN overrides
      <4>1. site = Default BY <2>4, <3>2
      <4>2. Default \in DOMAIN overrides BY <2>2, <4>1
      <4> QED BY <3>2, <4>1, <4>2, Zenon DEF PolicyFor, PolicyOf
    <3> QED BY <3>1, <3>2
  <2> QED BY <1>4, <2>5
<1>16. Own'
  <2>1. Last(chain') = "queue" => tag' = site
    <3>1. site = Default => Last(chain') # "queue" BY <1>8
    <3> QED BY <1>4, <1>14, <3>1
  <2>2. req.scheme = "https" => site = req.host /\ tag' = req.host BY <1>4, <1>14
  <2> QED BY <1>3, <1>4, <1>5, <1>15, <2>1, <2>2 DEF Own
<1>17. Arrives' BY <1>1, <1>3, <1>4 DEF Arrives
<1>18. Redirected'
  <2>1. req.host.www > 0 => ~(req.host.www = 0) BY <1>6 DEF Name
  <2>2. Normal(req.host)' = Normal(req.host) BY <1>3 DEF Normal, Lower
  <2>3. \/ req.scheme = "http" /\ Normal(req.host) \notin DOMAIN muxs
        \/ req.scheme = "https" /\ req.host.www = 0
    OBVIOUS
  <2> QED BY <1>3, <2>1, <2>2, <2>3 DEF Redirected
<1> QED BY <1>2, <1>9, <1>10, <1>11, <1>12, <1>13, <1>16, <1>17, <1>18 DEF SiteInv

LEMMA RoutingKeeps == SiteInv /\ Routing => SiteInv'
<1> SUFFICES ASSUME SiteInv, Routing PROVE SiteInv' OBVIOUS
<1>1. Sites BY DEF SiteInv
<1>2. CASE UseHttps
  <2>1. /\ pc = "route" /\ req.scheme = "http" /\ UNCHANGED <<config, route, tag, policy>>
        /\ req.method # "GET" /\ Answer(400, "redirect", None)
    BY <1>2 DEF UseHttps, Insecure, Answered
  <2> QED BY <2>1, AnsweredKeeps DEF Codes
<1>3. CASE ToHttps
  <2>1. /\ pc = "route" /\ req.scheme = "http" /\ UNCHANGED <<config, route, tag, policy>>
        /\ Answer(301, "redirect", None)
    BY <1>3 DEF ToHttps, Insecure, Answered
  <2> QED BY <2>1, AnsweredKeeps DEF Codes
<1>4. CASE NoFallback
  <2>1. /\ pc = "route" /\ req.scheme = "http" /\ UNCHANGED <<config, route, tag, policy>>
        /\ Normal(req.host) \notin DOMAIN muxs /\ Answer(400, "redirect", None)
    BY <1>4 DEF NoFallback, Insecure, Answered
  <2> QED BY <2>1, AnsweredKeeps DEF Codes
<1>5. CASE WithoutWww
  <2>1. /\ pc = "route" /\ req.host.www > 0 /\ UNCHANGED <<config, route, tag, policy>>
        /\ Answer(301, "vhost", None)
    BY <1>5 DEF WithoutWww, Secure, Answered
  <2> QED BY <2>1, AnsweredKeeps DEF Codes
<1>6. CASE Unmatched
  <2>1. /\ pc = "route" /\ req.scheme = "https" /\ UNCHANGED <<config, route, tag, policy>>
        /\ req.host.www = 0 /\ req.host \notin DOMAIN muxs /\ Answer(200, "vhost", None)
    BY <1>6 DEF Unmatched, Secure, Answered
  <2> QED BY <2>1, AnsweredKeeps DEF Codes
<1>7. CASE Fallback
  <2>1. /\ pc = "route" /\ req.scheme = "http" /\ UNCHANGED <<config, route>>
        /\ Default \in DOMAIN muxs /\ Normal(req.host) \notin DOMAIN muxs /\ Enter(Default, None)
    BY <1>7 DEF Fallback, Insecure
  <2> QED BY <2>1, EnterKeeps
<1>8. CASE OfSite
  <2>1. req.host \in DOMAIN overrides BY <1>1, <1>8 DEF Sites, OfSite
  <2>2. /\ pc = "route" /\ req.scheme = "https" /\ UNCHANGED <<config, route>>
        /\ req.host.www = 0 /\ req.host \in DOMAIN muxs /\ Enter(req.host, Normal(req.host))
    BY <1>8, <2>1 DEF OfSite, Secure
  <2> QED BY <2>2, EnterKeeps
<1> QED BY <1>2, <1>3, <1>4, <1>5, <1>6, <1>7, <1>8 DEF Routing

\* A handler calls the one it wraps.
LEMMA InnerKeeps ==
  ASSUME SiteInv, pc = "chain", UNCHANGED <<config, route, tag, policy, log>>, Inner,
         logging' \in BOOLEAN, Head(chain) \notin Handlers,
         Head(chain) = "auth" => Known(overrides[answer.site], req.client)
  PROVE  SiteInv'
<1>1. Sites /\ Typed /\ Counted /\ InChain /\ Guard /\ Own /\ Arrives /\ Redirected BY DEF SiteInv
<1>2. Sites' BY <1>1, SitesStay
<1>3. UNCHANGED <<main, muxs, www, overrides, req, first, hops, tag, policy, pc, answer>>
      /\ chain' = Tail(chain)
  BY DEF config, route, Inner
<1>4. /\ Chained(chain') /\ Last(chain') = Last(chain)
      /\ HasAuth(chain) => Head(chain) = "auth" \/ HasAuth(chain')
  BY <1>1, <1>3, TailChained DEF InChain
<1>5. Typed' BY <1>1, <1>3 DEF Typed
<1>6. Counted' BY <1>1 DEF Counted, LoggedUntilFault, log
<1>7. InChain' BY <1>1, <1>3, <1>4 DEF InChain
<1>8. Known(overrides[answer.site], req.client)' = Known(overrides[answer.site], req.client)
  BY <1>3 DEF Known
<1>9. Guard' BY <1>1, <1>3, <1>4, <1>8 DEF Guard
<1>10. GuardedParts' BY <1>3 DEF GuardedParts
<1>11. Own' BY <1>1, <1>3, <1>4 DEF Own
<1>12. Arrives' BY <1>1, <1>3 DEF Arrives
<1>13. Redirected'
  <2>1. Normal(req.host)' = Normal(req.host) /\ (Certified(req.host)' <=> Certified(req.host))
    BY <1>3 DEF Normal, Lower, Certified
  <2> QED BY <1>1, <1>3, <2>1 DEF Redirected
<1> QED BY <1>2, <1>5, <1>6, <1>7, <1>9, <1>10, <1>11, <1>12, <1>13 DEF SiteInv

\* A handler of the chain ends the request; one that answers a page is the last.
LEMMA EndKeeps ==
  ASSUME SiteInv, pc = "chain", UNCHANGED <<config, route, tag, policy>>,
         Counted', logging' \in BOOLEAN, pc' = "answered", chain' = <<>>,
         NEW code \in Codes, NEW by \in {"auth", "limit", "recover"} \cup Handlers,
         by \in Handlers => by = Head(chain),
         answer' = [code |-> code, by |-> by, site |-> answer.site]
  PROVE  SiteInv'
<1>1. Sites /\ Typed /\ InChain /\ Guard /\ Own /\ Arrives /\ Redirected BY DEF SiteInv
<1>2. Sites' BY <1>1, SitesStay
<1>3. UNCHANGED <<main, muxs, www, overrides, req, first, hops, tag, policy>> BY DEF config, route
<1>4. by \in Handlers => Last(chain) = by /\ ~HasAuth(chain) BY <1>1, HeadAnswers DEF InChain
<1>5. answer.site \in {None} \cup Dirs BY <1>1 DEF Typed
<1>6. Typed'
  <2>1. by \in Writers BY DEF Writers
  <2>2. answer' \in [code : Codes, by : Writers, site : {None} \cup Dirs] BY <1>5, <2>1
  <2> QED BY <1>1, <1>3, <2>2 DEF Typed
<1>7. InChain' BY DEF InChain
<1>8. Guard' BY DEF Guard
<1>9. GuardedParts'
  <2> DEFINE o == overrides[answer.site]
             c == req.client
  <2>1. SUFFICES ASSUME answer.site \notin {None, Default}, by \in Handlers \ {"queue"},
                        o.dev \/ by = "pprof" \/ (by = "php" /\ req.path = "admin")
                 PROVE  \/ c.ip \in DOMAIN o.list /\ o.list[c.ip]
                        \/ c.ip \notin DOMAIN o.list /\ o.admin /\ c.creds = "right"
    BY <1>3 DEF GuardedParts
  <2>2. Needs(o, Last(chain), req.path) /\ ~HasAuth(chain) BY <1>4, <2>1 DEF Needs
  <2>3. Known(o, c) BY <1>1, <2>1, <2>2 DEF Guard
  <2> HIDE DEF o, c
  <2> QED BY <2>3 DEF Known
<1>10. Own'
  <2>1. by = "queue" => tag = answer.site BY <1>1, <1>4 DEF Own, Handlers
  <2> QED BY <1>1, <1>3, <2>1 DEF Own
<1>11. Arrives' BY <1>1, <1>3 DEF Arrives
<1>12. Redirected'
  <2>1. Normal(req.host)' = Normal(req.host) /\ (Certified(req.host)' <=> Certified(req.host))
    BY <1>3 DEF Normal, Lower, Certified
  <2> QED BY <1>1, <1>3, <2>1 DEF Redirected
<1> QED BY <1>2, <1>6, <1>7, <1>8, <1>9, <1>10, <1>11, <1>12 DEF SiteInv

LEMMA ServingKeeps == SiteInv /\ Serving => SiteInv'
<1> SUFFICES ASSUME SiteInv, Serving PROVE SiteInv' OBVIOUS
<1>1. Typed /\ Counted BY DEF SiteInv
<1>2. logging \in BOOLEAN BY <1>1 DEF Typed
<1>3. CASE Admit BY <1>2, <1>3, InnerKeeps DEF Admit, Calls, Handlers
<1>4. CASE EnterLog BY <1>4, InnerKeeps DEF EnterLog, Calls, Handlers
<1>5. CASE Allow BY <1>2, <1>5, InnerKeeps DEF Allow, Calls, Handlers
<1>6. CASE Deny
  <2>1. PICK code \in {401, 403} :
          /\ pc = "chain" /\ UNCHANGED <<config, route, tag, policy>>
          /\ Answer(code, "auth", answer.site)
    BY <1>6 DEF Deny, Calls
  <2>2. code \in Codes /\ "auth" \notin Handlers BY DEF Codes, Handlers
  <2> QED BY <1>1, <1>2, <2>1, <2>2, AnswerCounts, EndKeeps
<1>7. CASE Limit
  <2>1. /\ pc = "chain" /\ UNCHANGED <<config, route, tag, policy>>
        /\ Answer(429, "limit", answer.site)
    BY <1>7 DEF Limit, Calls
  <2>2. 429 \in Codes /\ "limit" \notin Handlers BY DEF Codes, Handlers
  <2> QED BY <1>1, <1>2, <2>1, <2>2, AnswerCounts, EndKeeps
<1>8. ASSUME NEW h \in Handlers, Handle(h) PROVE SiteInv'
  <2>1. PICK code \in {200, 500} :
          /\ pc = "chain" /\ UNCHANGED <<config, route, tag, policy>> /\ Head(chain) = h
          /\ Answer(code, h, answer.site)
    BY <1>8 DEF Handle, Calls
  <2>2. code \in Codes BY DEF Codes
  <2>3. /\ Counted' /\ logging' \in BOOLEAN /\ pc' = "answered" /\ chain' = <<>>
        /\ answer' = [code |-> code, by |-> h, site |-> answer.site]
    BY <1>1, <1>2, <2>1, AnswerCounts
  <2>4. h \in {"auth", "limit", "recover"} \cup Handlers OBVIOUS
  <2>5. UNCHANGED <<config, route, tag, policy>> BY <2>1
  <2> QED BY <2>1, <2>2, <2>3, <2>4, <2>5, EndKeeps
<1>9. CASE HandlerPanics
  <2>1. /\ pc = "chain" /\ UNCHANGED <<config, route, tag, policy>> /\ UNCHANGED log
        /\ pc' = "answered" /\ chain' = <<>> /\ logging' = FALSE
        /\ answer' = [answer EXCEPT !.code = 500, !.by = "recover"]
    BY <1>9 DEF HandlerPanics, Calls
  <2>2. answer' = [code |-> 500, by |-> "recover", site |-> answer.site]
    <3>1. answer \in [code : Codes, by : Writers, site : {None} \cup Dirs] BY <1>1 DEF Typed
    <3>2. answer' = [answer EXCEPT !.code = 500, !.by = "recover"] BY <2>1
    <3> QED BY <3>1, <3>2
  <2>3. Counted'
    <3>1. UNCHANGED log BY <2>1
    <3> QED BY <1>1, <3>1 DEF Counted, LoggedUntilFault, log
  <2>4. /\ 500 \in Codes /\ "recover" \notin Handlers
        /\ "recover" \in {"auth", "limit", "recover"} \cup Handlers
    BY DEF Codes, Handlers
  <2>5. logging' \in BOOLEAN BY <2>1
  <2>6. pc = "chain" /\ UNCHANGED <<config, route, tag, policy>> /\ pc' = "answered" /\ chain' = <<>>
    BY <2>1
  <2> QED BY <2>2, <2>3, <2>4, <2>5, <2>6, EndKeeps
<1> QED BY <1>3, <1>4, <1>5, <1>6, <1>7, <1>8, <1>9 DEF Serving

\* The rest of the invariant does not look at the counters of the log.
LEMMA LogApart ==
  ASSUME SiteInv, Counted', UNCHANGED <<config, pc, route, inside, answer>>
  PROVE  SiteInv'
<1>1. Sites /\ Typed /\ InChain /\ Guard /\ GuardedParts /\ Own /\ Arrives /\ Redirected
  BY DEF SiteInv
<1>2. UNCHANGED <<main, muxs, www, overrides, req, first, hops, tag, policy, pc, chain, logging, answer>>
  BY DEF config, route, inside
<1>3. Sites' BY <1>1, SitesStay
<1>4. Typed' BY <1>1, <1>2 DEF Typed
<1>5. InChain' BY <1>1, <1>2 DEF InChain
<1>6. Known(overrides[answer.site], req.client)' = Known(overrides[answer.site], req.client)
  BY <1>2 DEF Known
<1>7. Guard' BY <1>1, <1>2, <1>6 DEF Guard
<1>8. GuardedParts' BY <1>1, <1>2 DEF GuardedParts
<1>9. Own' BY <1>1, <1>2 DEF Own
<1>10. Arrives' BY <1>1, <1>2 DEF Arrives
<1>11. Normal(req.host)' = Normal(req.host) /\ (Certified(req.host)' <=> Certified(req.host))
  BY <1>2 DEF Normal, Lower, Certified
<1>12. Redirected' BY <1>1, <1>2, <1>11 DEF Redirected
<1> QED BY <1>3, <1>4, <1>5, <1>7, <1>8, <1>9, <1>10, <1>12 DEF SiteInv

LEMMA LogKeeps == SiteInv /\ LogNext => SiteInv'
<1> SUFFICES ASSUME SiteInv, LogNext PROVE SiteInv' OBVIOUS
<1>1. Counted BY DEF SiteInv
<1>2. served' = served /\ UNCHANGED <<config, pc, route, inside, answer>>
  BY DEF LogNext, Encode, WriteLine, WriteLineFails, Logging
<1>3. Counted'
  <2>1. CASE Encode BY <1>1, <1>2, <2>1 DEF Counted, LoggedUntilFault, Encode
  <2>2. CASE WriteLine BY <1>1, <1>2, <2>2 DEF Counted, LoggedUntilFault, WriteLine
  <2>3. CASE WriteLineFails BY <1>1, <1>2, <2>3 DEF Counted, LoggedUntilFault, WriteLineFails
  <2> QED BY <2>1, <2>2, <2>3 DEF LogNext
<1> QED BY <1>2, <1>3, LogApart

LEMMA StutterKeeps == SiteInv /\ UNCHANGED vars => SiteInv'
<1> SUFFICES ASSUME SiteInv, UNCHANGED vars PROVE SiteInv' OBVIOUS
<1>1. UNCHANGED <<config, pc, route, inside, answer>> /\ UNCHANGED log BY DEF vars
<1>2. Counted' BY <1>1 DEF SiteInv, Counted, LoggedUntilFault, log
<1> QED BY <1>1, <1>2, LogApart

THEOREM SiteInvariance == Spec => []SiteInv
<1>1. SiteInv /\ [Next]_vars => SiteInv'
  BY BootKeeps, AskKeeps, FollowKeeps, LeaveKeeps, RoutingKeeps, ServingKeeps, LogKeeps,
     StutterKeeps DEF Next
<1> QED BY <1>1, InitInv, PTL DEF Spec

-----------------------------------------------------------------------------
(* What follows *)

\* Types; a request that is in the chain of a mux has a handler to call, and
\* the last of them answers.
THEOREM SiteTypes == Spec => []TypeOK
<1>1. SiteInv => TypeOK
  <2> SUFFICES ASSUME SiteInv PROVE TypeOK OBVIOUS
  <2>1. Sites /\ Typed /\ Counted /\ InChain BY DEF SiteInv
  <2>2. chain \in Seq({"auth", "log", "limit"} \cup Handlers)
    <3>1. CASE pc = "chain" BY <2>1, <3>1 DEF InChain, Chained, Wrappers
    <3>2. CASE pc # "chain" BY <2>1, <3>2 DEF InChain
    <3> QED BY <3>1, <3>2
  <2>3. pc = "chain" <=> chain # <<>> BY <2>1 DEF InChain, Chained
  <2>4. pc = "chain" => chain[Len(chain)] \in Handlers BY <2>1 DEF InChain, Chained
  <2>5. req.host \in Name BY <2>1 DEF Typed, Request
  <2>6. /\ answer.code \in {0, 200, 301, 400, 401, 403, 429, 500} /\ answer.site \in {None} \cup Dirs
    BY <2>1 DEF Typed, Codes
  <2>7. broken \in BOOLEAN /\ {pending, writing, lines, served, faults} \subseteq Nat
    BY <2>1 DEF Counted
  <2>8. /\ main \in {"boot", "run", "died"} /\ todo \subseteq Dirs /\ DOMAIN overrides \subseteq Dirs
        /\ DOMAIN muxs \subseteq Dirs /\ www \subseteq Name
    BY <2>1 DEF Sites
  <2>9. /\ pc \in {"idle", "route", "chain", "answered"} /\ hops \in Nat
        /\ tag \in Name /\ logging \in BOOLEAN
    BY <2>1 DEF Typed
  <2> QED BY <2>2, <2>3, <2>4, <2>5, <2>6, <2>7, <2>8, <2>9 DEF TypeOK
<1> QED BY <1>1, SiteInvariance, PTL

\* The site of the Host header answers, with its own policy, and the queue sees
\* its own domain: Vhost, SecureWrapper and the loop over the directories agree.
THEOREM AlwaysOwnSite == Spec => []OwnSite
<1>1. SiteInv => OwnSite
  <2> SUFFICES ASSUME SiteInv PROVE OwnSite OBVIOUS
  <2>1. Own /\ InChain BY DEF SiteInv
  <2>2. pc = "answered" /\ req.scheme = "https" /\ req.host.www = 0 /\ req.host \in DOMAIN muxs
          => answer.site = req.host /\ tag = req.host
    BY <2>1 DEF Own
  <2>3. pc = "answered" /\ answer.site # None /\ (req.host.www > 0 => req.host \notin Dirs)
          => policy = PolicyOf(overrides[answer.site])
    BY <2>1 DEF Own
  <2>4. answer.by = "queue" => tag = answer.site BY <2>1 DEF Own, InChain
  <2> QED BY <2>2, <2>3, <2>4, Zenon DEF OwnSite, PolicyOf
<1> QED BY <1>1, SiteInvariance, PTL

\* What main() wraps in BasicAuth is answered only to those it lets pass.
THEOREM AlwaysGuarded == Spec => []GuardedParts
<1>1. SiteInv => GuardedParts BY DEF SiteInv
<1> QED BY <1>1, SiteInvariance, PTL

\* A page of a site is reached after at most one redirect.
THEOREM RedirectsAlwaysArrive == Spec => []RedirectsArrive
<1>1. SiteInv => RedirectsArrive
  <2> DEFINE site == Plain(first.host.base)
  <2> SUFFICES ASSUME SiteInv, pc = "answered", req.method = "GET", site \in DOMAIN muxs,
                      first.host.www <= 1, first.host.form # "port",
                      first.scheme = "http" \/ first.host.www = 1 \/ first.host.form = "plain",
                      first.scheme = "http" \/ first.host.www = 0 \/ site # Default
               PROVE  IF hops = 0 /\ (first.scheme = "http" \/ first.host.www = 1)
                      THEN answer.code = 301 ELSE answer.site = site
    BY DEF RedirectsArrive
  <2>1. Sites /\ Typed /\ Own /\ Arrives /\ Redirected BY DEF SiteInv
  <2>2. first.host \in Name /\ first.host.www \in Nat /\ first.scheme \in {"http", "https"} /\ hops \in Nat
    BY <2>1 DEF Typed, Name
  <2>3. site.www = 0 /\ site.form = "plain" /\ site.base = first.host.base BY DEF Plain
  <2> HIDE DEF site
  <2>4. CASE hops > 0
    <3>1. req.scheme = "https" /\ req.host = site BY <2>1, <2>4 DEF Arrives, site
    <3>2. answer.site = site BY <2>1, <2>3, <3>1 DEF Own
    <3> QED BY <2>2, <2>4, <3>2
  <2>5. CASE hops = 0 /\ first.scheme = "http"
    <3>1. req.scheme = "http" /\ req.host = first.host BY <2>1, <2>5 DEF Arrives
    <3>2. Normal(req.host) = site BY <2>2, <3>1, Names DEF site
    <3> QED BY <2>1, <2>5, <3>1, <3>2 DEF Redirected
  <2>6. CASE hops = 0 /\ first.scheme = "https" /\ first.host.www = 1
    <3>1. req.scheme = "https" /\ req.host = first.host /\ req.host.www > 0
      BY <2>1, <2>2, <2>6 DEF Arrives
    <3>2. [site EXCEPT !.www = 1] \in www BY <2>1, <2>3, <2>6 DEF Sites
    <3>3. [req.host EXCEPT !.form = "plain"] = [site EXCEPT !.www = 1]
      BY <2>2, <2>6, <3>1 DEF Name, Plain, site
    <3>4. Certified(req.host) BY <3>2, <3>3 DEF Certified
    <3> QED BY <2>1, <2>6, <3>1, <3>4 DEF Redirected
  <2>7. CASE hops = 0 /\ first.scheme = "https" /\ first.host.www = 0
    <3>1. first.host.form = "plain" BY <2>7
    <3>2. first.host = site BY <2>2, <2>7, <3>1, Names DEF site
    <3>3. req.scheme = "https" /\ req.host = site BY <2>1, <2>7, <3>2 DEF Arrives
    <3>4. answer.site = site BY <2>1, <2>3, <3>3 DEF Own
    <3> QED BY <2>7, <3>4
  <2> QED BY <2>2, <2>4, <2>5, <2>6, <2>7
<1> QED BY <1>1, SiteInvariance, PTL

\* The requests that AccessLog answered have a line each, or are about to write
\* it, until a write fails.
THEOREM AlwaysLogged == Spec => []LoggedUntilFault
<1>1. SiteInv => LoggedUntilFault BY DEF SiteInv, Counted
<1> QED BY <1>1, SiteInvariance, PTL
=============================================================================
