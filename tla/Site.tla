-------------------------------- MODULE Site --------------------------------
(***************************************************************************)
(* What hfast makes of the directories under its webroot and their         *)
(* override.toml (main.go), and the way of a request from its Host header  *)
(* to the handler that answers it (handlers/, recover.go): redirects,      *)
(* virtual hosts, security headers, basic auth and the access log.  After  *)
(* the start the sites are only read: what requests share is the encoder   *)
(* of the access log, so one request is followed from its arrival and      *)
(* those behind it are counted where they write their line.                *)
(***************************************************************************)
EXTENDS Naturals, Sequences, FiniteSets

CONSTANTS
  Dirs,       \* directories of the webroot: names, see Name
  Overrides,  \* of each directory: what its override.toml may hold
  Hosts,      \* Host headers
  Clients,    \* their ip and the credentials they give
  MaxServed, MaxFaults   \* bounds of the model

\* "/" is no host's name, see None.
Bases == {h.base : h \in Dirs \cup Hosts} \cup {"/"}
Name  == [www : Nat, base : Bases, form : {"plain", "upper", "port"}]

ASSUME SiteAssumption ==
  /\ Dirs \cup Hosts \subseteq Name
  /\ \A d \in Dirs : d.form = "plain"   \* getDomains() refuses any other
  /\ DOMAIN Overrides = Dirs
  /\ MaxServed \in Nat /\ MaxFaults \in Nat

Plain(base) == [www |-> 0, base |-> base, form |-> "plain"]
Default == Plain("default")
None    == Plain("/")

Paths    == {"home", "queue", "admin", "pprof", "action", "index.php"}
Handlers == {"files", "php", "proxy", "queue", "pprof"}

VARIABLES
  main,       \* "boot", "run", "died"
  todo,       \* the directories the loop has not reached
  overrides,  \* config.Overrides
  muxs,       \* config.Muxs: pattern -> the chain of handlers behind it
  www,        \* wwwDomains
  pc,         \* of the request: "idle", "route", "chain", "answered"
  req,        \* its scheme, host, path, method and client
  first,      \* history: scheme and host before the first redirect
  hops,       \* redirects it followed
  tag,        \* X-Domain and X-Secretkey: the site they are of
  policy,     \* the Content-Security-Policy it is answered with
  chain,      \* handlers still to call
  logging,    \* it is inside AccessLog
  answer,     \* status, who wrote it, and whose mux it was
  pending,    \* requests about to encode their line
  writing,    \* requests about to write it
  broken,     \* enc.err: a write failed
  lines,      \* lines of the log
  served,     \* history: requests that went through AccessLog
  faults      \* counted for the bound

config == <<main, todo, overrides, muxs, www>>
route  == <<req, first, hops>>
inside == <<tag, policy, chain, logging>>
log    == <<pending, writing, broken, lines, served, faults>>
vars   == <<config, pc, route, inside, answer, log>>

-----------------------------------------------------------------------------
(* The loop over the directories *)

\* The patterns of a mux: "home" is / and catches what no other does.
Patterns(d, o) ==
  IF d = Default \/ o.proxy # "none" THEN {"home"}
  ELSE {"home", IF o.siteType = "indexphp" THEN "index.php" ELSE "action"}
       \cup {p \in {"queue", "admin", "pprof"} : o[p]}

\* Bug: a development site protects what PHP answers only.
Bug_Chain(d, o, p) ==
  LET Dev(c) == IF o.dev THEN <<"auth">> \o c ELSE c IN
  CASE d = Default -> <<"log", "files">>
    [] d # Default /\ o.proxy # "none" -> <<"log">> \o Dev(<<"proxy">>)
    [] OTHER ->
         CASE p = "queue" -> <<"log", "queue">>
           [] p = "admin" -> <<"auth", "log", "php">>
           [] p = "pprof" -> <<"auth", "pprof">>
           [] p = "home"  -> <<"log", "files">>
           [] OTHER       -> Dev(IF o.ratelimit THEN <<"log", "limit", "php">> ELSE <<"log", "php">>)

\* The handlers behind a pattern, the outermost first.
Chain(d, o, p) ==
  LET Dev(c) == IF o.dev THEN <<"auth">> \o c ELSE c IN
  CASE d = Default -> <<"log", "files">>
    [] d # Default /\ o.proxy # "none" -> <<"log">> \o Dev(<<"proxy">>)
    [] OTHER ->
         CASE p = "queue" -> <<"log", "queue">>
           [] p = "admin" -> <<"auth", "log", "php">>
           [] p = "pprof" -> <<"auth", "pprof">>
           [] p = "home"  -> Dev(<<"log", "files">>)
           [] OTHER       -> Dev(IF o.ratelimit THEN <<"log", "limit", "php">> ELSE <<"log", "php">>)

\* What the loop panics over: an unknown SiteType, a Proxy without http:// or
\* https://, Pprof for everyone.
Refused(d, o) ==
  \/ o.siteType \notin {"", "weak", "indexphp"}
  \/ d # Default /\ o.proxy = "bad"
  \/ d # Default /\ o.proxy = "none" /\ o.pprof /\ ~o.admin /\ DOMAIN o.list = {}

Booting == main = "boot" /\ UNCHANGED <<pc, route, inside, answer, log>>

\* Bug: the www name is added at the end of the loop, which a proxy does not reach.
Bug_Www(d, o) == IF d.www = 0 /\ d # Default /\ o.proxy = "none" THEN {[d EXCEPT !.www = 1]} ELSE {}

\* The names a directory adds to those that certificates are asked for.
Www(d, o) == IF d.www = 0 /\ d # Default THEN {[d EXCEPT !.www = 1]} ELSE {}

Configure(d, o) ==
  /\ Booting /\ d \in todo
  /\ ~o.broken /\ ~Refused(d, o)
  /\ todo' = todo \ {d}
  /\ overrides' = [e \in DOMAIN overrides \cup {d} |-> IF e = d THEN o ELSE overrides[e]]
  /\ muxs' = [e \in DOMAIN muxs \cup {d} |->
                IF e = d THEN [p \in Patterns(d, o) |-> Chain(d, o, p)] ELSE muxs[e]]
  /\ www' = www \cup Www(d, o)
  /\ UNCHANGED main

\* The override cannot be parsed: WARN_SKIP.
SkipDir(d, o) ==
  /\ Booting /\ d \in todo /\ o.broken
  /\ todo' = todo \ {d}
  /\ UNCHANGED <<main, overrides, muxs, www>>

\* The directory is refused, or queue.Init() fails.
Panic(d, o) ==
  /\ Booting /\ d \in todo
  /\ ~o.broken /\ (Refused(d, o) \/ "queue" \in Patterns(d, o))
  /\ main' = "died"
  /\ UNCHANGED <<todo, overrides, muxs, www>>

Listen ==
  /\ Booting /\ todo = {}
  /\ main' = "run"
  /\ UNCHANGED <<todo, overrides, muxs, www>>

-----------------------------------------------------------------------------
(* From the Host header to a mux *)

Nobody == [code |-> 0, by |-> "none", site |-> None]

NoRequest == [scheme |-> "http", host |-> None, path |-> "home", method |-> "GET",
              client |-> [ip |-> "none", creds |-> "none"]]

Lower(h)  == [h EXCEPT !.form = IF @ = "upper" THEN "plain" ELSE @]
Normal(h) == [Lower(h) EXCEPT !.www = IF @ > 0 THEN @ - 1 ELSE 0]

\* The host of a redirect: with a port it gets the port 443, which is the default.
Target(h) == [Normal(h) EXCEPT !.form = "plain"]

\* autocert has, or gets, a certificate for the name the client connects to.
Certified(h) == [h EXCEPT !.form = "plain"] \in Dirs \cup www

\* The request is over: whoever is inside AccessLog writes a line next.
Answer(code, by, site) ==
  /\ pc' = "answered"
  /\ answer' = [code |-> code, by |-> by, site |-> site]
  /\ logging' = FALSE /\ chain' = <<>>
  /\ IF logging THEN pending' = pending + 1 /\ served' = served + 1
                ELSE UNCHANGED <<pending, served>>
  /\ UNCHANGED <<writing, broken, lines, faults>>

Connect(r) ==
  /\ req' = r
  /\ tag' = None /\ policy' = "none"
  /\ IF r.scheme = "http" \/ Certified(r.host)
     THEN pc' = "route" /\ answer' = Nobody /\ UNCHANGED <<chain, logging, log>>
     ELSE Answer(0, "tls", None)
  /\ UNCHANGED config

Ask ==
  /\ main = "run" /\ pc = "idle" /\ served < MaxServed
  /\ \E s \in {"http", "https"}, h \in Hosts, p \in Paths, m \in {"GET", "POST"}, c \in Clients :
       /\ Connect([scheme |-> s, host |-> h, path |-> p, method |-> m, client |-> c])
       /\ first' = [scheme |-> s, host |-> h]
  /\ hops' = 0

Follow ==
  /\ pc = "answered" /\ answer.code = 301
  /\ Connect([req EXCEPT !.scheme = "https", !.host = Target(@), !.method = "GET"])
  /\ hops' = hops + 1 /\ UNCHANGED first

Leave ==
  /\ pc = "answered" /\ answer.code # 301
  /\ pc' = "idle" /\ answer' = Nobody /\ tag' = None /\ policy' = "none"
  /\ req' = NoRequest /\ first' = [scheme |-> "http", host |-> None] /\ hops' = 0
  /\ UNCHANGED <<config, chain, logging, log>>

\* Bug: the headers of the fallback for everyone.
Bug_PolicyFor(h) == IF Default \in DOMAIN overrides /\ overrides[Default].siteType = "" THEN overrides[Default].csp ELSE "none"

\* sec(): a Content-Security-Policy only for the default SiteType; a host
\* without override gets that of the fallback, or an empty one.
PolicyFor(h) ==
  LET d == IF h \in DOMAIN overrides THEN h ELSE Default IN
  IF d \notin DOMAIN overrides THEN "self"
  ELSE IF overrides[d].siteType = "" THEN overrides[d].csp ELSE "none"

\* ServeMux and SecureWrapper of a site.
Enter(site, t) ==
  /\ pc' = "chain" /\ tag' = t
  /\ policy' = PolicyFor(req.host)
  /\ chain' = muxs[site][IF req.path \in DOMAIN muxs[site] THEN req.path ELSE "home"]
  /\ answer' = [Nobody EXCEPT !.site = site]
  /\ UNCHANGED <<logging, log>>

\* RedirectHandler, behind port 80.
Insecure == pc = "route" /\ req.scheme = "http" /\ UNCHANGED <<config, route>>
Answered(code, by) == Answer(code, by, None) /\ UNCHANGED <<tag, policy>>

UseHttps   == Insecure /\ req.method # "GET" /\ Answered(400, "redirect")
ToHttps    == Insecure /\ req.method = "GET" /\ Normal(req.host) \in DOMAIN muxs /\ Answered(301, "redirect")
Fallback   == Insecure /\ req.method = "GET" /\ Normal(req.host) \notin DOMAIN muxs
              /\ Default \in DOMAIN muxs /\ Enter(Default, None)
NoFallback == Insecure /\ req.method = "GET" /\ Normal(req.host) \notin DOMAIN muxs
              /\ Default \notin DOMAIN muxs /\ Answered(400, "redirect")

\* Vhost, behind port 443: looks the Host header up as it came.
Secure == pc = "route" /\ req.scheme = "https" /\ UNCHANGED <<config, route>>

WithoutWww == Secure /\ req.host.www > 0 /\ Answered(301, "vhost")
Unmatched  == Secure /\ req.host.www = 0 /\ req.host \notin DOMAIN muxs /\ Answered(200, "vhost")
OfSite     == Secure /\ req.host.www = 0 /\ req.host \in DOMAIN muxs
              /\ IF req.host \in DOMAIN overrides THEN Enter(req.host, Normal(req.host))
                 ELSE Answered(500, "recover")   \* "not on overrides?"

-----------------------------------------------------------------------------
(* Through the chain *)

Calls(h) == pc = "chain" /\ Head(chain) = h /\ UNCHANGED <<config, route, tag, policy>>

\* The handler calls the one it wraps.
Inner == chain' = Tail(chain) /\ UNCHANGED <<pc, answer>>

\* BasicAuth: the ip decides if it is listed, the credentials if it is not.
Known(o, c) == IF c.ip \in DOMAIN o.list THEN o.list[c.ip] ELSE o.admin /\ c.creds = "right"

Admit ==
  /\ Calls("auth") /\ Known(overrides[answer.site], req.client)
  /\ Inner /\ UNCHANGED <<logging, log>>

\* Bug: after the 401 or 403 the handler is called all the same.
Bug_Deny ==
  /\ Calls("auth") /\ ~Known(overrides[answer.site], req.client)
  /\ pc' = "answered" /\ answer' = [answer EXCEPT !.code = 401, !.by = "auth"]
  /\ chain' = Tail(chain) /\ UNCHANGED <<logging, log>>

Deny ==
  /\ Calls("auth") /\ ~Known(overrides[answer.site], req.client)
  /\ Answer(IF req.client.ip \in DOMAIN overrides[answer.site].list THEN 403 ELSE 401, "auth", answer.site)

EnterLog == Calls("log") /\ logging' = TRUE /\ Inner /\ UNCHANGED log

\* The limiter: 30 requests a minute per ip, counted by a library.
Allow == Calls("limit") /\ Inner /\ UNCHANGED <<logging, log>>
Limit == Calls("limit") /\ Answer(429, "limit", answer.site)

\* A backend may fail (500).
Handle(h) ==
  /\ Calls(h)
  /\ \E code \in IF h \in {"php", "proxy"} THEN {200, 500} ELSE {200} : Answer(code, h, answer.site)

\* A handler panics: RecoverWrap answers, and AccessLog is left without a line.
HandlerPanics ==
  /\ Calls("files")
  /\ pc' = "answered" /\ answer' = [answer EXCEPT !.code = 500, !.by = "recover"]
  /\ chain' = <<>> /\ logging' = FALSE
  /\ UNCHANGED log

-----------------------------------------------------------------------------
(* The access log *)

Logging == UNCHANGED <<config, pc, route, inside, answer, served>>

\* Bug: the encoder is given up while another request writes.
Bug_Encode ==
  /\ Logging /\ pending > 0
  /\ pending' = pending - 1
  /\ writing' = IF broken \/ writing > 0 THEN writing ELSE writing + 1
  /\ UNCHANGED <<broken, lines, faults>>

\* Encode() gives up when an earlier write failed.
Encode ==
  /\ Logging /\ pending > 0
  /\ pending' = pending - 1
  /\ writing' = IF broken THEN writing ELSE writing + 1
  /\ UNCHANGED <<broken, lines, faults>>

WriteLine ==
  /\ Logging /\ writing > 0
  /\ writing' = writing - 1 /\ lines' = lines + 1
  /\ UNCHANGED <<pending, broken, faults>>

\* The disk is full: enc.err stays for good.
WriteLineFails ==
  /\ Logging /\ writing > 0 /\ faults < MaxFaults
  /\ writing' = writing - 1 /\ broken' = TRUE /\ faults' = faults + 1
  /\ UNCHANGED <<pending, lines>>

-----------------------------------------------------------------------------

Init ==
  /\ main = "boot" /\ todo = Dirs /\ overrides = <<>> /\ muxs = <<>> /\ www = {}
  /\ pc = "idle" /\ req = NoRequest /\ first = [scheme |-> "http", host |-> None] /\ hops = 0
  /\ tag = None /\ policy = "none" /\ chain = <<>> /\ logging = FALSE /\ answer = Nobody
  /\ pending = 0 /\ writing = 0 /\ broken = FALSE /\ lines = 0 /\ served = 0 /\ faults = 0

Boot    == Listen \/ \E d \in Dirs : \E o \in Overrides[d] : Configure(d, o) \/ SkipDir(d, o) \/ Panic(d, o)
Routing == UseHttps \/ ToHttps \/ Fallback \/ NoFallback \/ WithoutWww \/ Unmatched \/ OfSite
Serving == Admit \/ Deny \/ EnterLog \/ Allow \/ Limit \/ (\E h \in Handlers : Handle(h)) \/ HandlerPanics
LogNext == Encode \/ WriteLine \/ WriteLineFails

Next == Boot \/ Ask \/ Follow \/ Leave \/ Routing \/ Serving \/ LogNext

Spec == Init /\ [][Next]_vars

-----------------------------------------------------------------------------
(* Properties *)

\* Types; and a chain ends in a handler, so a request that is in it has one to call.
TypeOK ==
  /\ main \in {"boot", "run", "died"} /\ todo \subseteq Dirs /\ DOMAIN overrides \subseteq Dirs
  /\ DOMAIN muxs \subseteq Dirs /\ www \subseteq Name
  /\ pc \in {"idle", "route", "chain", "answered"} /\ hops \in Nat
  /\ req.host \in Name /\ tag \in Name /\ logging \in BOOLEAN /\ broken \in BOOLEAN
  /\ answer.code \in {0, 200, 301, 400, 401, 403, 429, 500} /\ answer.site \in {None} \cup Dirs
  /\ {pending, writing, lines, served, faults} \subseteq Nat
  /\ chain \in Seq({"auth", "log", "limit"} \cup Handlers)
  /\ pc = "chain" <=> chain # <<>>
  /\ pc = "chain" => chain[Len(chain)] \in Handlers

\* Vhost, SecureWrapper and the loop over the directories agree: over https the
\* site of the Host header answers, with its own Content-Security-Policy, and
\* the queue sees its own X-Domain and X-Secretkey; the fallback of port 80
\* answers with its own policy too, unless a directory is named www.
OwnSite ==
  /\ pc = "answered" /\ req.scheme = "https" /\ req.host.www = 0 /\ req.host \in DOMAIN muxs
       => answer.site = req.host /\ tag = req.host
  /\ pc = "answered" /\ answer.site # None /\ (req.host.www > 0 => req.host \notin Dirs)
       => LET o == overrides[answer.site] IN policy = IF o.siteType = "" THEN o.csp ELSE "none"
  /\ answer.by = "queue" => tag = answer.site

\* What main() wraps in BasicAuth: /admin/, pprof, and the pages, PHP and
\* backend of a development site are answered by their handlers only to an ip
\* that is listed as allowed, or to credentials when the ip is not listed.
GuardedParts ==
  LET o == overrides[answer.site]  c == req.client IN
  (/\ pc = "answered" /\ answer.site \notin {None, Default} /\ answer.by \in Handlers \ {"queue"}
   /\ o.dev \/ answer.by = "pprof" \/ (answer.by = "php" /\ req.path = "admin"))
  => \/ c.ip \in DOMAIN o.list /\ o.list[c.ip]
     \/ c.ip \notin DOMAIN o.list /\ o.admin /\ c.creds = "right"

\* RedirectHandler, Vhost and the certificates: a page of a site that is asked
\* for over http or https, with or without www and in any case, is reached
\* after at most one redirect; but there is no certificate for www.default.
RedirectsArrive ==
  LET site == Plain(first.host.base) IN
  (/\ pc = "answered" /\ req.method = "GET" /\ site \in DOMAIN muxs
   /\ first.host.www <= 1 /\ first.host.form # "port"
   /\ first.scheme = "http" \/ first.host.www = 1 \/ first.host.form = "plain"
   /\ first.scheme = "http" \/ first.host.www = 0 \/ site # Default)
  => IF hops = 0 /\ (first.scheme = "http" \/ first.host.www = 1) THEN answer.code = 301 ELSE answer.site = site

\* AccessLog: the requests it answered have a line each, or are about to write
\* it, until a write has failed.
LoggedUntilFault == ~broken => lines + writing + pending = served
=============================================================================
