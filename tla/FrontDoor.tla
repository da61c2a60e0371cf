------------------------------- MODULE FrontDoor ------------------------------
(***************************************************************************)
(* What the process decides before it talks to anyone: which addresses a   *)
(* group starts with (load and Selector::new), which group and upstream    *)
(* Host a request goes to and which headers go with it (proxy_handler),    *)
(* and what a dashboard call may ask for (pin_group and run_speedtest,     *)
(* src/dashboard.rs).                                                      *)
(*                                                                         *)
(* One request or call at a time is enough: they share nothing but         *)
(* the lists of addresses, and Selector has those under concurrent use.    *)
(***************************************************************************)
EXTENDS Endpoints

CONSTANTS
  Files,            \* the bundled IP file of each group, line by line
  EnvValues,        \* what the pin variables of the environment can hold
  HostForms,        \* forms of the Host header
  Hosts,            \* hosts that requests and URLs can name
  RequestHeaders,   \* header lists that requests can have
  ResponseHeaders,  \* header lists that responses can have
  Client            \* the client's own address, as a header value

ASSUME FrontDoorAssumption ==
  /\ EnvValues \subseteq {"unset", "blank", "bad"} \cup Ips
  /\ {"unset", "blank", "bad", "untouched"} \cap Ips = {}
  /\ DOMAIN Files = Groups
  /\ \A g \in Groups : Files[g] \in Seq(ToSet(Files[g]))
  /\ \A g \in Groups : LoadBundled(Files[g]) # << >>   \* else the build does not start
  /\ Hosts \subseteq Seq(STRING)

VARIABLES
  phase,        \* "starting", "serving" or "exited"
  env,          \* the pin variable of each group
  pinned,       \* AppState.pinned
  bundled,      \* bundled_ips of each group
  serving,      \* the addresses of each group's list
  dash,         \* history: what the dashboard last pinned each group to, None
                \* if it restored the group
  call          \* the request or run_speedtest call in hand

vars == <<phase, env, pinned, bundled, serving, dash, call>>

NoCall == [at |-> "none"]

TypeOK ==
  /\ phase \in {"starting", "serving", "exited"}
  /\ env \in [Groups -> EnvValues]
  /\ pinned \in BOOLEAN
  /\ phase = "serving" =>
       \A g \in Groups : /\ bundled[g] \in Seq(Ips) \ {<< >>}
                         /\ serving[g] \in Seq(Ips) \ {<< >>}
                         /\ \A i, j \in DOMAIN serving[g] :
                              serving[g][i] = serving[g][j] => i = j
  /\ dash \in [Groups -> Ips \cup {None, "untouched"}]
  /\ call.at \in {"none", "400", "404", "forwarded", "relayed", "refused", "started"}

Init ==
  /\ phase = "starting"
  /\ env \in [Groups -> EnvValues]
  /\ pinned = FALSE
  /\ bundled = [g \in Groups |-> << >>]
  /\ serving = [g \in Groups |-> << >>]
  /\ dash = [g \in Groups |-> "untouched"]
  /\ call = NoCall

-----------------------------------------------------------------------------
(* The pin, or the file. *)
StartList(g) ==
  IF Ipv4FromEnv(env[g]) = None THEN LoadBundled(Files[g]) ELSE <<env[g]>>

(* load and Selector::new.  What the selector keeps as bundled_ips is the  *)
(* list after the environment's pin.                                       *)
Load ==
  /\ phase = "starting"
  /\ \A g \in Groups : env[g] # "bad"
  /\ phase' = "serving"
  /\ pinned' = (\E g \in Groups : Ipv4FromEnv(env[g]) # None)
  /\ bundled' = [g \in Groups |-> StartList(g)]
  /\ serving' = bundled'
  /\ UNCHANGED <<env, dash, call>>

LoadFails ==
  /\ phase = "starting"
  /\ \E g \in Groups : env[g] = "bad"
  /\ phase' = "exited"
  /\ UNCHANGED <<env, pinned, bundled, serving, dash, call>>

-----------------------------------------------------------------------------
HopByHop == {"connection", "keep-alive", "proxy-authenticate", "proxy-authorization",
             "proxy-connection", "te", "trailer", "transfer-encoding", "upgrade"}

(* A header list is a sequence of <<name, value>>; the value of a          *)
(* Connection header is the set of names it lists.                         *)
ConnectionTokens(headers) ==
  UNION {headers[i][2] : i \in {k \in DOMAIN headers : headers[k][1] = "connection"}}

(* Mutant of ShouldStrip: the names that Connection lists are kept. *)
ShouldStrip_FixedNames(name, headers) == name \in HopByHop

ShouldStrip(name, headers) == name \in HopByHop \cup ConnectionTokens(headers)

BodyLess(method) == method \in {"GET", "HEAD"}

(* The headers sent upstream.  Each name has one value: insert replaces    *)
(* the one before, so of a header that is repeated the last one goes.      *)
Forwarded(headers, method) ==
  LET kept == {i \in DOMAIN headers :
                 LET name == headers[i][1]
                 IN  /\ ~ ShouldStrip(name, headers)
                     /\ name # "host"
                     /\ ~ (BodyLess(method)
                           /\ name \in {"content-length", "transfer-encoding"})}
      own == {"x-forwarded-for", "x-real-ip"}
  IN  [name \in {headers[i][1] : i \in kept} \cup own |->
         IF name \in own THEN Client
         ELSE headers[Max({i \in kept : headers[i][1] = name})][2]]

(* The headers sent back to the client: every value of those that are      *)
(* kept, at its place.                                                     *)
Relayed(headers) ==
  [i \in {k \in DOMAIN headers : ~ ShouldStrip(headers[k][1], headers)} |-> headers[i]]

-----------------------------------------------------------------------------
(* proxy_handler up to the first attempt.  What an attempt uses: the list  *)
(* of the group that best_ip finds by the client's host name, and the port *)
(* that the connector finds by the upstream Host.                          *)
Refuse(status) ==
  call' = [at |-> status]

Forward(host, method, headers) ==
  call' = [at |-> "forwarded", host |-> host,
              upstream |-> UpstreamHostFor(host),
              picked_from |-> IndexOf(host),
              connected_as |-> IndexOf(UpstreamHostFor(host)),
              asked |-> headers,
              sent |-> Forwarded(headers, method),
              body |-> IF BodyLess(method) THEN "empty" ELSE "client's"]

ProxyRequest(form, host, method, headers) ==
  /\ phase = "serving" /\ call = NoCall
  /\ LET name == HostNameFromHeader(form, host)
     IN  \/ name = None /\ Refuse("400")
         \/ name # None /\ HostFor(name) = None /\ Refuse("404")
         \/ name # None /\ HostFor(name) # None /\ Forward(name, method, headers)
  /\ UNCHANGED <<phase, env, pinned, bundled, serving, dash>>

Respond(headers) ==
  /\ call.at = "forwarded"
  /\ call' = [at |-> "relayed", received |-> headers, relayed |-> Relayed(headers)]
  /\ UNCHANGED <<phase, env, pinned, bundled, serving, dash>>

ReplySent ==
  /\ call.at \in {"400", "404", "relayed", "refused", "started"}
  /\ call' = NoCall
  /\ UNCHANGED <<phase, env, pinned, bundled, serving, dash>>

-----------------------------------------------------------------------------
(* Mutant of PinGroup: the address is what a later restore gives.          *)
PinGroup_PinsForGood(name, ip) ==
  /\ phase = "serving" /\ call = NoCall
  /\ IndexOf(name) # None
  /\ bundled' = IF ip = None THEN bundled
                ELSE [bundled EXCEPT ![IndexOf(name)] = <<ip>>]
  /\ serving' = [serving EXCEPT ![IndexOf(name)] = bundled'[IndexOf(name)]]
  /\ dash' = [dash EXCEPT ![IndexOf(name)] = ip]
  /\ UNCHANGED <<phase, env, pinned, call>>

(* pin_group of the dashboard and set_pinned_ip.  A blank address restores *)
(* bundled_ips; one that does not parse, or an unknown name, changes       *)
(* nothing.  An environment pin does not stand in the way.                 *)
PinGroup(name, ip) ==
  /\ phase = "serving" /\ call = NoCall
  /\ IndexOf(name) # None
  /\ serving' = [serving EXCEPT ![IndexOf(name)] =
                   IF ip = None THEN bundled[IndexOf(name)] ELSE <<ip>>]
  /\ dash' = [dash EXCEPT ![IndexOf(name)] = ip]
  /\ UNCHANGED <<phase, env, pinned, bundled, call>>

(* run_speedtest of the dashboard, for a URL with this host or for every   *)
(* group, while no pass is running; and what the pass it starts will test  *)
(* (target_defs).                                                          *)
RunSpeedtest(host) ==
  /\ phase = "serving" /\ call = NoCall
  /\ call' = IF pinned \/ (host # None /\ HostFor(host) = None)
             THEN [at |-> "refused"]
             ELSE [at |-> "started", asked |-> host,
                   targets |-> IF host = None THEN Groups ELSE {IndexOf(host)} \ {None}]
  /\ UNCHANGED <<phase, env, pinned, bundled, serving, dash>>

Next ==
  \/ Load
  \/ LoadFails
  \/ \E form \in HostForms, host \in Hosts, method \in {"GET", "POST"},
       headers \in RequestHeaders : ProxyRequest(form, host, method, headers)
  \/ \E headers \in ResponseHeaders : Respond(headers)
  \/ ReplySent
  \/ \E name \in Hosts, ip \in Ips \cup {None} : PinGroup(name, ip)
  \/ \E host \in Hosts \cup {None} : RunSpeedtest(host)

Spec == Init /\ [][Next]_vars

-----------------------------------------------------------------------------
(* The listed domains a host falls under, the most specific one first.     *)
Claims(host) ==
  {e \in UNION {ToSet(ENDPOINTS[g].domain_map) : g \in Groups} : Matches(host, e.client)}

MostSpecific(host) ==
  CHOOSE e \in Claims(host) : \A f \in Claims(host) : Len(f.client) <= Len(e.client)

OwnerOf(e) == CHOOSE g \in Groups : e \in ToSet(ENDPOINTS[g].domain_map)

(* A request goes to an address of the group that lists its host most      *)
(* specifically, with that entry's upstream Host, and the connector finds  *)
(* the same group by that Host; a speed test that was answered started:    *)
(* true tests the group it was accepted for.  The three lookups take the   *)
(* first entry that matches, each in a loop of its own (host_for,          *)
(* upstream_host_for, index_of).  Any other host is refused.               *)
RoutedToItsCdn ==
  /\ call.at = "forwarded" =>
       /\ Claims(call.host) # {}
       /\ LET e == MostSpecific(call.host)
          IN  /\ call.upstream = e.upstream
              /\ call.picked_from = OwnerOf(e)
              /\ call.connected_as = OwnerOf(e)
  /\ call.at = "started" =>
       call.targets = IF call.asked = None THEN Groups
                      ELSE {OwnerOf(MostSpecific(call.asked))}

(* What a group serves follows from who pinned it last, as far as the code *)
(* and its docs agree: the dashboard's address; else, if the dashboard was *)
(* not used, the environment's; else the list of its file, also after any  *)
(* number of pins of this and of other groups (load, set_pinned_ip).       *)
ListFollowsThePins ==
  phase = "serving" =>
    \A g \in Groups :
      /\ dash[g] \in Ips => serving[g] = <<dash[g]>>
      /\ dash[g] = "untouched" /\ env[g] \in Ips => serving[g] = <<env[g]>>
      /\ dash[g] \notin Ips /\ env[g] \notin Ips => serving[g] = LoadBundled(Files[g])

(* Nothing that is meant for one connection crosses to the next, in either *)
(* direction, and the client cannot pass for another one, whatever it      *)
(* sends or lists in Connection.  The length that is announced upstream is *)
(* of the body that is sent: the handler chooses the headers and, much     *)
(* later, the body (Body::empty for GET and HEAD).                         *)
HeadersFitTheHop ==
  /\ call.at = "forwarded" =>
       /\ DOMAIN call.sent \cap HopByHop = {}
       /\ DOMAIN call.sent \cap ConnectionTokens(call.asked)
            \subseteq {"x-forwarded-for", "x-real-ip"}
       /\ call.sent["x-forwarded-for"] = Client
       /\ call.sent["x-real-ip"] = Client
       /\ "content-length" \in DOMAIN call.sent => call.body = "client's"
  /\ call.at = "relayed" =>
       \A i \in DOMAIN call.relayed :
         call.relayed[i][1] \notin HopByHop \cup ConnectionTokens(call.received)
=============================================================================
