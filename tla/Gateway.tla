-------------------------------- MODULE Gateway --------------------------------
(***************************************************************************)
(* The daemon as a caching proxy of the Anthropic Messages API: a request  *)
(* is checked, keyed by its body alone, answered from the store or relayed *)
(* with the caller's own credentials, and the exchange may be written to a *)
(* capture file.  How one key is recorded once is RecordReplay's matter:   *)
(* here a caller that misses waits for the one that relays the same body.  *)
(***************************************************************************)
EXTENDS Naturals, Sequences

CONSTANTS
  Peer,           \* who sends requests, each with credentials of its own
  Neighbour,      \* those of them on other machines
  MaxRequests     \* bound: requests of one peer

ASSUME GatewayAssumption ==
  /\ Neighbour \subseteq Peer /\ MaxRequests \in Nat
  /\ {"none", "gateway"} \cap Peer = {}    \* the two that answer and are no peer

VARIABLES
  bind,           \* the address the daemon listens on, see Down
  exchange,       \* each peer's current request, see Quiet
  recorded,       \* by body: the stored answer and whose credentials it was given to
  relayed,        \* by body: the 200s upstream gave (history)
  captureFile     \* what it tells of exchanges

gatewayVars == <<bind, exchange, recorded, relayed, captureFile>>

Down == [at |-> "down", host |-> "loopback", unsafe |-> FALSE, capture |-> FALSE]

MessagesBody == {"first", "second"}
RawBody  == MessagesBody \cup {"not_json", "no_model"}

\* Of what a client sends: its credentials in three spellings, a hop, the type of its body
\* and a header upstream wants to see.
Header == {"authorization", "x-goog-api-key", "cookie", "host", "content-type", "anthropic-beta"}

NoReply == [status |-> 0, text |-> "none"]
Quiet == [at |-> "idle", raw |-> "first", n |-> 0, sent |-> {}, reply |-> NoReply, from |-> "none",
          upstream |-> NoReply]

GatewayInit ==
  /\ bind = Down /\ exchange = [p \in Peer |-> Quiet]
  /\ recorded = <<>> /\ relayed = [q \in MessagesBody |-> {}] /\ captureFile = {}

-----------------------------------------------------------------------------
(* Startup.                                                                *)

\* A name that is no address counts as an address of the network.
SafeBind(host, unsafe) == unsafe \/ host = "loopback"

BindHost ==
  /\ bind.at = "down"
  /\ \E host \in {"loopback", "routable", "unclassified"}, unsafe, capture \in BOOLEAN :
       bind' = [at |-> IF SafeBind(host, unsafe) THEN "up" ELSE "refused",
                host |-> host, unsafe |-> unsafe, capture |-> capture]
  /\ UNCHANGED <<exchange, recorded, relayed, captureFile>>

-----------------------------------------------------------------------------
(* A request.                                                              *)

Set(p, e) == exchange' = [exchange EXCEPT ![p] = e]

\* What is in both is taken from the newer.
Overlay(newer, older) ==
  [x \in DOMAIN newer \cup DOMAIN older |-> IF x \in DOMAIN newer THEN newer[x] ELSE older[x]]

\* The status of each CacheError a request can meet; any other exception is a 500.
CACHE_ERROR_HTTP(code) ==
  CASE code = "store.unavailable" -> 503 [] code = "crypto.token_required" -> 401
    [] code = "provider.api_error" -> 502 [] OTHER -> 500

ErrorResponse(code) == [status |-> CACHE_ERROR_HTTP(code), text |-> code]

\* From other machines only where the daemon listens to them.
Post(p) ==
  /\ bind.at = "up" /\ (p \in Neighbour => bind.host # "loopback")
  /\ exchange[p].at \in {"idle", "over"} /\ exchange[p].n < MaxRequests
  /\ \E raw \in RawBody :
       Set(p, [Quiet EXCEPT !.at = "asked", !.raw = raw, !.n = exchange[p].n + 1])
  /\ UNCHANGED <<bind, recorded, relayed, captureFile>>

\* The reply is the caller's, once the exchange is captured.
Replied(p, reply, from) == [exchange[p] EXCEPT !.at = "replied", !.reply = reply, !.from = from]

\* A copy of the body is parsed; what cannot be a request is turned away at once.
RejectMalformed(p) ==
  /\ exchange[p].at = "asked" /\ exchange[p].raw \notin MessagesBody
  /\ Set(p, Replied(p, [status |-> 422, text |-> "not a request"], "gateway"))
  /\ UNCHANGED <<bind, recorded, relayed, captureFile>>

HasAnswer(p) == exchange[p].raw \in DOMAIN recorded

\* A hit: a stored answer was a 200.
ServeHit(p) ==
  /\ exchange[p].at \in {"asked", "waiting"} /\ exchange[p].raw \in MessagesBody /\ HasAnswer(p)
  /\ Set(p, Replied(p, [status |-> 200, text |-> recorded[exchange[p].raw].text], recorded[exchange[p].raw].by))
  /\ UNCHANGED <<bind, recorded, relayed, captureFile>>

\* The store may be locked away, locked up, or not there at all.
StoreFails(p) ==
  /\ exchange[p].at \in {"asked", "waiting"} /\ exchange[p].raw \in MessagesBody
  /\ \E code \in {"store.unavailable", "crypto.token_required"} : Set(p, Replied(p, ErrorResponse(code), "gateway"))
  /\ UNCHANGED <<bind, recorded, relayed, captureFile>>

NotStored(p) ==
  /\ exchange[p].at = "asked" /\ exchange[p].raw \in MessagesBody /\ ~HasAnswer(p)
  /\ Set(p, [exchange[p] EXCEPT !.at = "waiting"])
  /\ UNCHANGED <<bind, recorded, relayed, captureFile>>

\* Connection-scoped headers go, the type is the relay's own, the rest is the caller's.
SKIP_HEADERS == {"host", "content-type"}
UpstreamHeaders == (Header \ SKIP_HEADERS) \cup {"content-type"}

\* One at a time relays a body: within one process the wait for a key has no end.
RelayBody(p) ==
  /\ exchange[p].at = "waiting" /\ ~HasAnswer(p)
  /\ ~ \E other \in Peer : exchange[other].at \in {"relaying", "answered"} /\ exchange[other].raw = exchange[p].raw
  /\ Set(p, [exchange[p] EXCEPT !.at = "relaying", !.sent = UpstreamHeaders])
  /\ UNCHANGED <<bind, recorded, relayed, captureFile>>

-----------------------------------------------------------------------------
(* The relay's answer.                                                     *)

\* Of a body: what it says, whether it is text at all, and the usage in it, block by block.
\* A stream reports its input first and its output more than once.
UpstreamBody(status, text, utf8, blocks) ==
  [status |-> status, text |-> text, utf8 |-> utf8, blocks |-> blocks]

\* (external) what upstream says to a question: an envelope, one that reports no usage, a
\* stream, a page of a broken proxy, a refusal of these credentials.
Upstream(raw) ==
  {UpstreamBody(200, raw, TRUE, <<[input |-> 2, output |-> 2]>>), UpstreamBody(200, "no usage", TRUE, <<>>),
   UpstreamBody(200, "stream", TRUE, <<[input |-> 2, output |-> 1], <<>>, [output |-> 2]>>),
   UpstreamBody(200, "page", FALSE, <<>>), UpstreamBody(401, "refusal", TRUE, <<>>)}

\* Later blocks overlay earlier ones; a line without usage is passed over.
ParseUsage(body) ==
  LET merged[i \in 0..Len(body.blocks)] ==
        IF i = 0 THEN <<>> ELSE Overlay(body.blocks[i], merged[i - 1])
  IN  merged[Len(body.blocks)]

\* (mutant) any complete response is a success
AnyAnswer(body) == [exit |-> 0, text |-> body.text]

\* The exit code is the status, and 0 for a 200, which alone is an answer to keep.
ToAnswer(body) == [exit |-> IF body.status = 200 THEN 0 ELSE body.status, text |-> body.text]

ToHttpResponse(answer) ==
  [status |-> IF answer.exit = 0 THEN 200 ELSE answer.exit, text |-> answer.text]

Upstreams(p) ==
  /\ exchange[p].at = "relaying"
  /\ \E body \in Upstream(exchange[p].raw) :
       /\ relayed' = IF body.status = 200 /\ body.utf8
                       THEN [relayed EXCEPT ![exchange[p].raw] = @ \cup {body}] ELSE relayed
       /\ IF ~body.utf8 /\ body.status = 200
            THEN Set(p, [Replied(p, ErrorResponse("provider.protocol_error"), "gateway") EXCEPT !.upstream = body])
            ELSE Set(p, [exchange[p] EXCEPT !.at = "answered", !.upstream = body])
  /\ UNCHANGED <<bind, recorded, captureFile>>

\* No answer: a network failure is named, a connection that breaks is not.
NoUpstream(p) ==
  /\ exchange[p].at = "relaying"
  /\ \E code \in {"provider.api_error", "no CacheError"} : Set(p, Replied(p, ErrorResponse(code), "gateway"))
  /\ UNCHANGED <<bind, recorded, relayed, captureFile>>

\* The answer is stored if it is one, unless that fails, and returned all the same.
RecordAnswer(p) ==
  /\ exchange[p].at = "answered"
  /\ LET body   == exchange[p].upstream
         answer == ToAnswer(body)
     IN /\ \E kept \in {recorded, Overlay([q \in {exchange[p].raw} |->
                       [text |-> answer.text, by |-> p, usage |-> ParseUsage(body)]], recorded)} :
             recorded' = IF answer.exit = 0 THEN kept ELSE recorded
        /\ Set(p, Replied(p, ToHttpResponse(answer), p))
  /\ UNCHANGED <<bind, relayed, captureFile>>

-----------------------------------------------------------------------------
(* The capture file.                                                       *)

SensitiveHeader == {"authorization", "x-goog-api-key", "cookie"}

\* Appended before the caller is answered, unless that fails; an exception that is no
\* CacheError has no response and goes past it.
Capture(p) ==
  /\ exchange[p].at = "replied"
  /\ Set(p, [exchange[p] EXCEPT !.at = "over"])
  /\ \E lines \in {{}, {[by |-> p, headers |-> Header \ SensitiveHeader, reply |-> exchange[p].reply]}} :
       captureFile' = IF bind.capture /\ exchange[p].reply # ErrorResponse("no CacheError")
                        THEN captureFile \cup lines ELSE captureFile
  /\ UNCHANGED <<bind, recorded, relayed>>

\* POST /purge, of everything.
PurgeAll ==
  /\ bind.at = "up" /\ recorded # <<>> /\ recorded' = <<>>
  /\ UNCHANGED <<bind, exchange, relayed, captureFile>>

GatewayNext ==
  \/ BindHost \/ PurgeAll
  \/ \E p \in Peer : \/ Post(p) \/ RejectMalformed(p) \/ ServeHit(p) \/ StoreFails(p) \/ NotStored(p)
                     \/ RelayBody(p) \/ Upstreams(p) \/ NoUpstream(p) \/ RecordAnswer(p) \/ Capture(p)

GatewaySpec == GatewayInit /\ [][GatewayNext]_gatewayVars

-----------------------------------------------------------------------------
(* Properties.                                                             *)

GatewayTypeOK ==
  /\ bind.at \in {"down", "up", "refused"}
  /\ \A p \in Peer :
       /\ exchange[p].at \in {"idle", "asked", "waiting", "relaying", "answered", "replied", "over"}
       /\ exchange[p].raw \in RawBody /\ exchange[p].n \in 0..MaxRequests
       /\ exchange[p].sent \subseteq Header /\ exchange[p].from \in Peer \cup {"none", "gateway"}
  /\ DOMAIN recorded \subseteq MessagesBody /\ DOMAIN relayed = MessagesBody

\* A 200 is what upstream once said to this very body; any other answer of upstream's is
\* the one it gave to this caller, and none of them is ever stored for the next
\* (gateway.py: "only a 200 is cached").
RepliesAreUpstreams ==
  \A p \in Peer : exchange[p].at \in {"replied", "over"} =>
    LET e == exchange[p]
    IN CASE e.from = "gateway"    -> e.reply.status >= 400 /\ (e.raw \notin MessagesBody => e.sent = {})
         [] e.reply.status = 200  -> \E body \in relayed[e.raw] : body.text = e.reply.text
         [] OTHER                 -> e.from = p /\ e.reply.status = e.upstream.status
                                     /\ e.reply.text = e.upstream.text

\* The answer stored for a body carries the last usage its stream reports.
StoredWithItsUsage ==
  \A q \in DOMAIN recorded : \E body \in relayed[q] :
    /\ body.text = recorded[q].text
    /\ \A i \in DOMAIN body.blocks : \A field \in DOMAIN body.blocks[i] :
         (\A k \in DOMAIN body.blocks : field \in DOMAIN body.blocks[k] => k <= i)
           => recorded[q].usage[field] = body.blocks[i][field]

\* The key leaves out who asks: an answer given to one caller's credentials is served to
\* another machine's only where the operator named the risk (__main__.py:89-96).
OneOwner ==
  \A p \in Peer : exchange[p].from \in Peer \ {p} => bind.unsafe \/ {p, exchange[p].from} \cap Neighbour = {}

\* What is captured is what the caller was sent, without what may let another act for it.
CaptureTellsNoSecret ==
  \A line \in captureFile :
    /\ line.headers \cap {"authorization", "x-goog-api-key", "cookie"} = {}
    /\ line.reply.status = 200 => \E q \in MessagesBody : \E body \in relayed[q] : body.text = line.reply.text

\* The proxy stands between its callers and upstream without their noticing.
GatewayIsTransparent == RepliesAreUpstreams /\ StoredWithItsUsage /\ OneOwner /\ CaptureTellsNoSecret
=============================================================================
