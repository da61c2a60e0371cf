---------------------------- MODULE FrontDoorProofs ---------------------------
(***************************************************************************)
(* Theorems about FrontDoor, for every IP file, every setting of the pin   *)
(* variables, every host name and spelling, and every list of headers: the *)
(* table of domains alone is the one of the program.                       *)
(***************************************************************************)
EXTENDS FrontDoor, SequenceTheorems, WellFoundedInduction, TLAPS

LEMMA HasMin ==
  ASSUME NEW T \in SUBSET Nat, T # {}
  PROVE  \E x \in T : \A y \in T : x <= y
<1>1. PICK x \in T : \A y \in T : ~ (<<y, x>> \in OpToRel(<, Nat))
  BY NatLessThanWellFounded, WFMin
<1>2. \A y \in T : ~ (y < x)
  BY <1>1 DEF OpToRel
<1> QED
  BY <1>2

-----------------------------------------------------------------------------
(* load_bundled: the recursive function in LoadBundled exists, which is    *)
(* shown by a least length for which it would not.                         *)
UpTo(lines, m, f) ==
  f = [n \in 0 .. m |-> IF n = 0 THEN << >> ELSE TakeLine(f[n - 1], lines[n])]

LEMMA LoadingExists ==
  ASSUME NEW lines, NEW m \in Nat
  PROVE  \E f : UpTo(lines, m, f)
<1> DEFINE T == {k \in Nat : ~ \E f : UpTo(lines, k, f)}
<1>1. SUFFICES ASSUME T # {} PROVE FALSE
  OBVIOUS
<1>2. PICK k \in T : \A j \in T : k <= j
  BY <1>1, HasMin
<1>3. CASE k = 0
  <2>1. UpTo(lines, 0, [n \in 0 .. 0 |-> << >>])
    BY DEF UpTo
  <2> QED
    BY <1>2, <1>3, <2>1
<1>4. CASE k > 0
  <2>1. k \in Nat /\ k - 1 \in Nat /\ k - 1 \notin T
    BY <1>2, <1>4
  <2>2. PICK f : UpTo(lines, k - 1, f)
    BY <2>1
  <2> DEFINE g == [n \in 0 .. k |-> IF n = k THEN TakeLine(f[k - 1], lines[k]) ELSE f[n]]
  <2>3. \A n \in 0 .. k - 1 :
          f[n] = IF n = 0 THEN << >> ELSE TakeLine(f[n - 1], lines[n])
    BY <2>2 DEF UpTo
  <2>4. \A n \in 0 .. k : n # 0 => g[n - 1] = f[n - 1]
    BY <2>1
  <2>5. \A n \in 0 .. k : g[n] = IF n = 0 THEN << >> ELSE TakeLine(g[n - 1], lines[n])
    <3> SUFFICES ASSUME NEW n \in 0 .. k
                 PROVE  g[n] = IF n = 0 THEN << >> ELSE TakeLine(g[n - 1], lines[n])
      OBVIOUS
    <3>1. CASE n = k
      BY <1>4, <2>1, <2>4, <3>1
    <3>2. CASE n # k
      BY <2>1, <2>3, <2>4, <3>2
    <3> QED
      BY <3>1, <3>2
  <2>6. UpTo(lines, k, g)
    <3>1. g = [n \in 0 .. k |-> g[n]]
      OBVIOUS
    <3> HIDE DEF g
    <3> QED
      BY <2>5, <3>1 DEF UpTo
  <2> QED
    BY <1>2, <2>6
<1> QED
  BY <1>2, <1>3, <1>4

LEMMA LoadBundledIs ==
  ASSUME NEW lines, Len(lines) \in Nat
  PROVE  \E f : UpTo(lines, Len(lines), f) /\ LoadBundled(lines) = f[Len(lines)]
<1> DEFINE f == CHOOSE g : UpTo(lines, Len(lines), g)
<1>1. UpTo(lines, Len(lines), f)
  BY LoadingExists
<1>2. LoadBundled(lines) = f[Len(lines)]
  BY DEF LoadBundled, UpTo
<1> QED
  BY <1>1, <1>2

(* What the first n lines of a file make: each address of them once, and   *)
(* in the order in which they come first.                                  *)
Loaded(lines, n, ips) ==
  /\ ips \in Seq(Ips)
  /\ \A i, j \in DOMAIN ips : ips[i] = ips[j] => i = j
  /\ \A i \in DOMAIN ips : \E k \in 1 .. n : lines[k] = ips[i]
  /\ \A k \in 1 .. n : lines[k] \in Ips => \E i \in DOMAIN ips : ips[i] = lines[k]
  /\ \A i, j \in DOMAIN ips : i < j =>
       \E k \in 1 .. n : lines[k] = ips[i] /\ \A l \in 1 .. k : lines[l] # ips[j]

LEMMA TakeLineLoads ==
  ASSUME NEW lines, NEW n \in Nat \ {0}, NEW ips, Loaded(lines, n - 1, ips)
  PROVE  Loaded(lines, n, TakeLine(ips, lines[n]))
<1> DEFINE line == lines[n]
           len == Len(ips)
           new == TakeLine(ips, line)
<1>1. ips \in Seq(Ips) /\ len \in Nat /\ DOMAIN ips = 1 .. len
  BY DEF Loaded
<1>2. 1 .. n = (1 .. n - 1) \cup {n}
  OBVIOUS
<1>3. CASE line \in Ips /\ ~ Contains(ips, line)
  <2>1. new = Append(ips, line)
    BY <1>3 DEF TakeLine
  <2>2. \A i \in DOMAIN ips : ips[i] # line
    BY <1>1, <1>3 DEF Contains
  <2>3. /\ new \in Seq(Ips) /\ DOMAIN new = 1 .. len + 1
        /\ \A i \in 1 .. len : new[i] = ips[i]
        /\ new[len + 1] = line
    BY <1>1, <1>3, <2>1
  <2>4. 1 .. len + 1 = DOMAIN ips \cup {len + 1} /\ len + 1 \notin DOMAIN ips
    BY <1>1
  <2> HIDE DEF new, len
  <2>5. \A i, j \in DOMAIN new : new[i] = new[j] => i = j
    BY <1>1, <2>2, <2>3, <2>4 DEF Loaded
  <2>6. \A i \in DOMAIN new : \E k \in 1 .. n : lines[k] = new[i]
    BY <1>1, <1>2, <2>3, <2>4 DEF Loaded
  <2>7. \A k \in 1 .. n : lines[k] \in Ips => \E i \in DOMAIN new : new[i] = lines[k]
    BY <1>1, <1>2, <2>3, <2>4 DEF Loaded
  <2>8. ASSUME NEW i \in DOMAIN new, NEW j \in DOMAIN new, i < j
        PROVE  \E k \in 1 .. n : lines[k] = new[i] /\ \A l \in 1 .. k : lines[l] # new[j]
    <3>1. i \in DOMAIN ips /\ i \in 1 .. len
      BY <1>1, <2>3, <2>8
    <3>2. CASE j \in DOMAIN ips
      BY <1>1, <1>2, <2>3, <2>8, <3>1, <3>2 DEF Loaded
    <3>3. CASE j = len + 1
      <4>1. PICK k \in 1 .. n - 1 : lines[k] = ips[i]
        BY <3>1 DEF Loaded
      <4>2. \A l \in 1 .. n - 1 : lines[l] # line
        BY <1>3, <2>2 DEF Loaded
      <4>3. \A l \in 1 .. k : l \in 1 .. n - 1
        BY <4>1
      <4> QED
        BY <1>2, <2>3, <3>1, <3>3, <4>1, <4>2, <4>3
    <3> QED
      BY <2>3, <2>4, <3>2, <3>3
  <2> QED
    BY <2>3, <2>5, <2>6, <2>7, <2>8 DEF Loaded, new
<1>4. CASE ~ (line \in Ips /\ ~ Contains(ips, line))
  <2>1. new = ips
    BY <1>4 DEF TakeLine
  <2>2. line \in Ips => \E i \in DOMAIN ips : ips[i] = line
    BY <1>1, <1>4 DEF Contains
  <2> QED
    BY <1>2, <2>1, <2>2 DEF Loaded
<1> QED
  BY <1>3, <1>4

(* The list a group is bundled with has each address of its file once, and *)
(* nothing else, in the order of the file (load_bundled).                  *)
THEOREM BundledInFileOrder ==
  ASSUME NEW lines, Len(lines) \in Nat
  PROVE  Loaded(lines, Len(lines), LoadBundled(lines))
<1>1. PICK f : UpTo(lines, Len(lines), f) /\ LoadBundled(lines) = f[Len(lines)]
  BY LoadBundledIs
<1> DEFINE len == Len(lines)
           T == {n \in 0 .. len : ~ Loaded(lines, n, f[n])}
<1>2. \A n \in 0 .. len : f[n] = IF n = 0 THEN << >> ELSE TakeLine(f[n - 1], lines[n])
  BY <1>1 DEF UpTo
<1>3. T = {}
  <2>1. SUFFICES ASSUME T # {} PROVE FALSE
    OBVIOUS
  <2>2. PICK n \in T : \A k \in T : n <= k
    <3>1. T \in SUBSET Nat
      OBVIOUS
    <3> HIDE DEF T
    <3> QED
      BY <2>1, <3>1, HasMin
  <2>3. n \in 0 .. len /\ ~ Loaded(lines, n, f[n])
    OBVIOUS
  <2>4. n # 0
    <3> DEFINE e == << >>
    <3>0. e \in Seq(Ips) /\ DOMAIN e = {} /\ 1 .. 0 = {}
      OBVIOUS
    <3> HIDE DEF e
    <3>1. Loaded(lines, 0, e)
      BY <3>0 DEF Loaded
    <3>2. f[0] = e
      BY <1>2 DEF e
    <3> QED
      BY <2>3, <3>1, <3>2
  <2>5. n \in Nat \ {0} /\ n - 1 \in 0 .. len /\ n - 1 \notin T
    BY <2>2, <2>3, <2>4
  <2>6. Loaded(lines, n - 1, f[n - 1]) /\ f[n] = TakeLine(f[n - 1], lines[n])
    BY <1>2, <2>3, <2>4, <2>5
  <2> QED
    BY <2>3, <2>5, <2>6, TakeLineLoads
<1>4. len \in 0 .. len
  OBVIOUS
<1> QED
  BY <1>1, <1>3, <1>4

-----------------------------------------------------------------------------
(* Which group a name stands for, whatever the name is. *)
LEMMA MinIsIn ==
  ASSUME NEW T \in SUBSET Nat, T # {}
  PROVE  Min(T) \in T /\ \A y \in T : Min(T) <= y
BY HasMin DEF Min

LEMMA GroupsAre == Groups = {1, 2}
BY DEF Groups, ENDPOINTS

LEMMA IndexIsAGroup ==
  ASSUME NEW name
  PROVE  IndexOf(name) \in Groups \cup {None}
<1> DEFINE T == {g \in Groups : ENDPOINTS[g].name = NormalizeHost(name) \/ Matching(name, g) # {}}
<1>1. IndexOf(name) = IF T = {} THEN None ELSE Min(T)
  BY DEF IndexOf, Least
<1>2. T \subseteq Groups /\ T \in SUBSET Nat
  BY GroupsAre
<1> HIDE DEF T
<1> QED
  BY <1>1, <1>2, MinIsIn

(* The list of the file, by the assumption that the build starts. *)
LEMMA FileList ==
  ASSUME NEW g \in Groups
  PROVE  /\ LoadBundled(Files[g]) \in Seq(Ips) \ {<< >>}
         /\ \A i, j \in DOMAIN LoadBundled(Files[g]) :
              LoadBundled(Files[g])[i] = LoadBundled(Files[g])[j] => i = j
<1>1. Files[g] \in Seq(ToSet(Files[g])) /\ LoadBundled(Files[g]) # << >>
  BY FrontDoorAssumption
<1>2. Len(Files[g]) \in Nat
  BY <1>1, LenProperties
<1>3. Loaded(Files[g], Len(Files[g]), LoadBundled(Files[g]))
  BY <1>2, BundledInFileOrder
<1> QED
  BY <1>1, <1>3 DEF Loaded

(* What a group can have in its list. *)
Startable(ips) ==
  /\ ips \in Seq(Ips) \ {<< >>}
  /\ \A i, j \in DOMAIN ips : ips[i] = ips[j] => i = j

LEMMA OneAddress ==
  ASSUME NEW ip \in Ips
  PROVE  Startable(<<ip>>)
<1>1. <<ip>> \in Seq(Ips) /\ <<ip>> # << >> /\ DOMAIN <<ip>> = {1}
  OBVIOUS
<1> QED
  BY <1>1 DEF Startable

Restorable(g, pin) ==
  IF pin \in Ips THEN <<pin>> ELSE LoadBundled(Files[g])

LEMMA RestorableIsStartable ==
  ASSUME NEW g \in Groups, NEW pin
  PROVE  Startable(Restorable(g, pin))
BY FileList, OneAddress DEF Restorable, Startable

(* Besides the types: the list a group is restored to is the one it began  *)
(* with.                                                                   *)
ListsInv ==
  /\ phase \in {"starting", "serving", "exited"}
  /\ env \in [Groups -> EnvValues]
  /\ pinned \in BOOLEAN
  /\ dash \in [Groups -> Ips \cup {None, "untouched"}]
  /\ phase # "serving" => dash = [g \in Groups |-> "untouched"]
  /\ phase = "serving" =>
       /\ bundled = [g \in Groups |-> Restorable(g, env[g])]
       /\ serving = [g \in Groups |-> IF dash[g] \in Ips THEN <<dash[g]>> ELSE bundled[g]]
  /\ call.at \in {"none", "400", "404", "forwarded", "relayed", "refused", "started"}

LEMMA StartListIs ==
  ASSUME NEW g \in Groups, env \in [Groups -> EnvValues], env[g] # "bad"
  PROVE  StartList(g) = Restorable(g, env[g])
<1>1. env[g] \in {"unset", "blank"} \cup Ips /\ {"unset", "blank"} \cap Ips = {}
  BY FrontDoorAssumption
<1>2. None \notin Ips
  BY EndpointsAssumption
<1>3. CASE env[g] \in {"unset", "blank"}
  BY <1>1, <1>3 DEF StartList, Restorable, Ipv4FromEnv
<1>4. CASE env[g] \in Ips
  <2>1. Ipv4FromEnv(env[g]) = env[g] /\ env[g] # None
    BY <1>1, <1>2, <1>4 DEF Ipv4FromEnv
  <2> QED
    BY <1>4, <2>1 DEF StartList, Restorable
<1> QED
  BY <1>1, <1>3, <1>4

LEMMA ListsInvInit == Init => ListsInv
<1> SUFFICES ASSUME Init PROVE ListsInv
  OBVIOUS
<1>1. /\ dash = [g \in Groups |-> "untouched"]
      /\ dash \in [Groups -> Ips \cup {None, "untouched"}]
  BY DEF Init
<1>2. call.at = "none"
  BY DEF Init, NoCall
<1>3. phase = "starting" /\ env \in [Groups -> EnvValues] /\ pinned \in BOOLEAN
  BY DEF Init
<1> QED
  BY <1>1, <1>2, <1>3 DEF ListsInv

LEMMA ListsInvNext == ListsInv /\ [Next]_vars => ListsInv'
<1> SUFFICES ASSUME ListsInv, [Next]_vars PROVE ListsInv'
  OBVIOUS
<1>1. CASE Load
  <2>1. \A g \in Groups : StartList(g) = Restorable(g, env[g])
    BY <1>1, StartListIs DEF Load, ListsInv
  <2>2. bundled' = [g \in Groups |-> Restorable(g, env[g])]
    BY <1>1, <2>1 DEF Load
  <2>3. /\ dash' = [g \in Groups |-> "untouched"] /\ env' = env /\ pinned' \in BOOLEAN
        /\ "untouched" \notin Ips
    BY <1>1, FrontDoorAssumption DEF Load, ListsInv
  <2>4. serving' = [g \in Groups |-> IF dash'[g] \in Ips THEN <<dash'[g]>> ELSE bundled'[g]]
    <3>1. bundled' = [g \in Groups |-> bundled'[g]]
      BY <2>2
    <3>2. \A g \in Groups : dash'[g] \notin Ips
      BY <2>3
    <3> QED
      BY <1>1, <3>1, <3>2 DEF Load
  <2> QED
    BY <1>1, <2>2, <2>3, <2>4 DEF Load, ListsInv
<1>2. CASE LoadFails
  BY <1>2 DEF LoadFails, ListsInv
<1>3. ASSUME NEW form \in HostForms, NEW host \in Hosts, NEW method \in {"GET", "POST"},
             NEW headers \in RequestHeaders, ProxyRequest(form, host, method, headers)
      PROVE  ListsInv'
  BY <1>3 DEF ProxyRequest, Refuse, Forward, ListsInv
<1>4. ASSUME NEW headers \in ResponseHeaders, Respond(headers)
      PROVE  ListsInv'
  BY <1>4 DEF Respond, ListsInv
<1>5. CASE ReplySent
  BY <1>5 DEF ReplySent, ListsInv, NoCall
<1>6. ASSUME NEW name \in Hosts, NEW ip \in Ips \cup {None}, PinGroup(name, ip)
      PROVE  ListsInv'
  <2> DEFINE g == IndexOf(name)
  <2>1. g \in Groups
    BY <1>6, IndexIsAGroup DEF PinGroup
  <2>2. /\ phase = "serving" /\ UNCHANGED <<phase, env, pinned, bundled, call>>
        /\ dash' = [dash EXCEPT ![g] = ip]
        /\ serving' = [serving EXCEPT ![g] = IF ip = None THEN bundled[g] ELSE <<ip>>]
    BY <1>6 DEF PinGroup
  <2> HIDE DEF g
  <2>3. /\ dash' \in [Groups -> Ips \cup {None, "untouched"}]
        /\ dash'[g] = ip /\ \A h \in Groups : h # g => dash'[h] = dash[h]
    BY <2>1, <2>2 DEF ListsInv
  <2>4. ip = None <=> ip \notin Ips
    BY <1>6, EndpointsAssumption
  <2>5. serving' = [h \in Groups |-> IF dash'[h] \in Ips THEN <<dash'[h]>> ELSE bundled[h]]
    BY <2>1, <2>2, <2>3, <2>4 DEF ListsInv
  <2> QED
    BY <2>2, <2>3, <2>5 DEF ListsInv
<1>7. ASSUME NEW host \in Hosts \cup {None}, RunSpeedtest(host)
      PROVE  ListsInv'
  BY <1>7 DEF RunSpeedtest, ListsInv
<1>8. CASE UNCHANGED vars
  BY <1>8 DEF vars, ListsInv
<1> QED
  BY <1>1, <1>2, <1>3, <1>4, <1>5, <1>6, <1>7, <1>8 DEF Next

LEMMA ListsInvAlways == Spec => []ListsInv
<1> QED
  BY ListsInvInit, ListsInvNext, PTL DEF Spec

(* Every list is typed, is never empty and has no address twice, whatever  *)
(* the files and the pin variables hold and whatever is pinned (load,      *)
(* Selector::new, set_pinned_ip).                                          *)
THEOREM FrontDoorTyped == Spec => []TypeOK
<1>1. ListsInv => TypeOK
  <2> SUFFICES ASSUME ListsInv PROVE TypeOK
    OBVIOUS
  <2>1. ASSUME phase = "serving", NEW g \in Groups
        PROVE  Startable(bundled[g]) /\ Startable(serving[g])
    <3>1. Startable(bundled[g])
      BY <2>1, RestorableIsStartable DEF ListsInv
    <3>2. serving[g] = IF dash[g] \in Ips THEN <<dash[g]>> ELSE bundled[g]
      BY <2>1 DEF ListsInv
    <3> QED
      BY <3>1, <3>2, OneAddress
  <2> QED
    BY <2>1 DEF ListsInv, TypeOK, Startable
<1> QED
  BY <1>1, ListsInvAlways, PTL

(* Whatever is pinned and restored, of this group and of the other ones, a *)
(* group serves the dashboard's address, else the environment's until the  *)
(* dashboard is used, else the list of its file (load, Selector::new,      *)
(* set_pinned_ip).                                                         *)
THEOREM ListsFollowPins == Spec => []ListFollowsThePins
<1>1. ListsInv => ListFollowsThePins
  <2> SUFFICES ASSUME ListsInv, phase = "serving", NEW g \in Groups
               PROVE  /\ dash[g] \in Ips => serving[g] = <<dash[g]>>
                      /\ dash[g] \notin Ips => serving[g] = Restorable(g, env[g])
    BY FrontDoorAssumption DEF ListFollowsThePins, Restorable
  <2> QED
    BY DEF ListsInv
<1> QED
  BY <1>1, ListsInvAlways, PTL

-----------------------------------------------------------------------------
(* The names of what is sent upstream, and what is there for them. *)
OwnNames == {"x-forwarded-for", "x-real-ip"}

LEMMA ForwardedHas ==
  ASSUME NEW headers, NEW method
  PROVE  /\ \A name \in DOMAIN Forwarded(headers, method) :
              \/ name \in OwnNames
              \/ /\ ~ ShouldStrip(name, headers)
                 /\ ~ (BodyLess(method) /\ name \in {"content-length", "transfer-encoding"})
         /\ \A name \in OwnNames :
              /\ name \in DOMAIN Forwarded(headers, method)
              /\ Forwarded(headers, method)[name] = Client
<1> DEFINE kept == {i \in DOMAIN headers :
                      LET name == headers[i][1]
                      IN  /\ ~ ShouldStrip(name, headers)
                          /\ name # "host"
                          /\ ~ (BodyLess(method)
                                /\ name \in {"content-length", "transfer-encoding"})}
           names == {headers[i][1] : i \in kept} \cup OwnNames
           value(name) == IF name \in OwnNames THEN Client
                          ELSE headers[Max({i \in kept : headers[i][1] = name})][2]
<1>1. Forwarded(headers, method) = [name \in names |-> value(name)]
  BY DEF Forwarded, OwnNames
<1>2. \A name \in names :
        \/ name \in OwnNames
        \/ /\ ~ ShouldStrip(name, headers)
           /\ ~ (BodyLess(method) /\ name \in {"content-length", "transfer-encoding"})
  OBVIOUS
<1>3. \A name \in OwnNames : name \in names /\ value(name) = Client
  OBVIOUS
<1> HIDE DEF names, value
<1> QED
  BY <1>1, <1>2, <1>3

LEMMA ForwardedFits ==
  ASSUME NEW headers, NEW method
  PROVE  LET sent == Forwarded(headers, method)
         IN  /\ DOMAIN sent \cap HopByHop = {}
             /\ DOMAIN sent \cap ConnectionTokens(headers) \subseteq OwnNames
             /\ sent["x-forwarded-for"] = Client /\ sent["x-real-ip"] = Client
             /\ BodyLess(method) => "content-length" \notin DOMAIN sent
<1> DEFINE sent == Forwarded(headers, method)
<1>1. /\ \A name \in DOMAIN sent :
           \/ name \in OwnNames
           \/ /\ ~ ShouldStrip(name, headers)
              /\ ~ (BodyLess(method) /\ name \in {"content-length", "transfer-encoding"})
      /\ \A name \in OwnNames : name \in DOMAIN sent /\ sent[name] = Client
  BY ForwardedHas
<1>2. OwnNames \cap (HopByHop \cup {"content-length"}) = {}
  BY DEF OwnNames, HopByHop
<1>3. "x-forwarded-for" \in OwnNames /\ "x-real-ip" \in OwnNames
  BY DEF OwnNames
<1> HIDE DEF sent
<1>4. \A name \in DOMAIN sent \ OwnNames :
        name \notin HopByHop /\ name \notin ConnectionTokens(headers)
  BY <1>1 DEF ShouldStrip
<1> QED
  BY <1>1, <1>2, <1>3, <1>4 DEF sent

LEMMA RelayedFits ==
  ASSUME NEW headers
  PROVE  \A i \in DOMAIN Relayed(headers) :
           Relayed(headers)[i][1] \notin HopByHop \cup ConnectionTokens(headers)
BY DEF Relayed, ShouldStrip

(* HeadersFitTheHop of any call. *)
Fits(c) ==
  /\ c.at = "forwarded" =>
       /\ DOMAIN c.sent \cap HopByHop = {}
       /\ DOMAIN c.sent \cap ConnectionTokens(c.asked) \subseteq OwnNames
       /\ c.sent["x-forwarded-for"] = Client /\ c.sent["x-real-ip"] = Client
       /\ "content-length" \in DOMAIN c.sent => c.body = "client's"
  /\ c.at = "relayed" =>
       \A i \in DOMAIN c.relayed :
         c.relayed[i][1] \notin HopByHop \cup ConnectionTokens(c.received)

LEMMA OthersFit ==
  ASSUME NEW c, c.at \notin {"forwarded", "relayed"}
  PROVE  Fits(c)
BY DEF Fits

LEMMA FitsNext == Fits(call) /\ [Next]_vars => Fits(call')
<1> SUFFICES ASSUME Fits(call), [Next]_vars PROVE Fits(call')
  OBVIOUS
<1>1. ASSUME NEW form \in HostForms, NEW host \in Hosts, NEW method \in {"GET", "POST"},
             NEW headers \in RequestHeaders, ProxyRequest(form, host, method, headers)
      PROVE  Fits(call')
  <2>1. CASE Refuse("400") \/ Refuse("404")
    <3>1. call'.at \in {"400", "404"}
      BY <2>1 DEF Refuse
    <3> QED
      BY <3>1, OthersFit
  <2>2. ASSUME NEW name, Forward(name, method, headers)
        PROVE  Fits(call')
    <3> DEFINE sent == Forwarded(headers, method)
    <3>1. /\ call'.at = "forwarded" /\ call'.sent = sent /\ call'.asked = headers
          /\ call'.body = IF BodyLess(method) THEN "empty" ELSE "client's"
      BY <2>2 DEF Forward
    <3>2. /\ DOMAIN sent \cap HopByHop = {}
          /\ DOMAIN sent \cap ConnectionTokens(headers) \subseteq OwnNames
          /\ sent["x-forwarded-for"] = Client /\ sent["x-real-ip"] = Client
          /\ BodyLess(method) => "content-length" \notin DOMAIN sent
      BY ForwardedFits
    <3> HIDE DEF sent
    <3> QED
      BY <3>1, <3>2 DEF Fits
  <2> QED
    BY <1>1, <2>1, <2>2 DEF ProxyRequest
<1>2. ASSUME NEW headers \in ResponseHeaders, Respond(headers)
      PROVE  Fits(call')
  <2>1. call'.at = "relayed" /\ call'.received = headers /\ call'.relayed = Relayed(headers)
    BY <1>2 DEF Respond
  <2> QED
    BY <2>1, RelayedFits DEF Fits
<1>3. CASE ReplySent
  <2>1. call'.at = "none"
    BY <1>3 DEF ReplySent, NoCall
  <2> QED
    BY <2>1, OthersFit
<1>4. ASSUME NEW host \in Hosts \cup {None}, RunSpeedtest(host)
      PROVE  Fits(call')
  <2>1. call'.at \in {"refused", "started"}
    BY <1>4 DEF RunSpeedtest
  <2> QED
    BY <2>1, OthersFit
<1>5. CASE UNCHANGED call
  BY <1>5
<1>6. ASSUME NEW name \in Hosts, NEW ip \in Ips \cup {None}, PinGroup(name, ip)
      PROVE  UNCHANGED call
  BY <1>6 DEF PinGroup
<1> QED
  BY <1>1, <1>2, <1>3, <1>4, <1>5, <1>6 DEF Next, Load, LoadFails, vars

(* Of the headers of a request and of its response only those go on that   *)
(* are not for one hop, whatever Connection lists; the two of the client's *)
(* address are the handler's own; and a length is announced only with a    *)
(* body (should_strip, proxy_handler).                                     *)
THEOREM HeadersFit == Spec => []HeadersFitTheHop
<1>1. Init => Fits(call)
  <2>1. Init => call.at = "none"
    BY DEF Init, NoCall
  <2> QED
    BY <2>1, OthersFit
<1>2. Fits(call) => HeadersFitTheHop
  BY DEF Fits, HeadersFitTheHop, OwnNames
<1>3. Fits(call) /\ [Next]_vars => Fits(call)'
  BY FitsNext
<1> QED
  BY <1>1, <1>2, <1>3, PTL DEF Spec

-----------------------------------------------------------------------------
(* What the comparison of a host name with a listed domain comes to. *)
Sequence(s) == s \in Seq(ToSet(s))

LEMMA IsSequence ==
  ASSUME NEW S, NEW s \in Seq(S)
  PROVE  Sequence(s) /\ Len(s) \in Nat /\ DOMAIN s = 1 .. Len(s)
<1>1. Len(s) \in Nat /\ DOMAIN s = 1 .. Len(s) /\ s = [i \in 1 .. Len(s) |-> s[i]]
  BY LenProperties
<1>2. \A i \in 1 .. Len(s) : s[i] \in ToSet(s)
  BY <1>1 DEF ToSet
<1>3. s \in [1 .. Len(s) -> ToSet(s)]
  BY <1>1, <1>2
<1> QED
  BY <1>1, <1>3, SeqDef DEF Sequence

LEMMA MaxIsIn ==
  ASSUME NEW n \in Nat, NEW T \in SUBSET (0 .. n), T # {}
  PROVE  Max(T) \in T /\ \A y \in T : Max(T) >= y
<1> DEFINE U == {n - x : x \in T}
<1>1. U \in SUBSET Nat /\ U # {}
  <2>1. \A x \in T : x \in Int /\ 0 <= x /\ x <= n
    OBVIOUS
  <2>2. \A x \in T : n - x \in Nat
    BY <2>1
  <2>3. \A u \in U : \E x \in T : u = n - x
    OBVIOUS
  <2>4. PICK x \in T : TRUE
    OBVIOUS
  <2>5. n - x \in U
    OBVIOUS
  <2> HIDE DEF U
  <2> QED
    BY <2>2, <2>3, <2>5
<1>2. PICK u \in U : \A y \in U : u <= y
  <2> HIDE DEF U
  <2> QED
    BY <1>1, HasMin
<1>3. PICK x \in T : u = n - x
  BY <1>2
<1>4. ASSUME NEW y \in T PROVE x >= y
  <2>1. n - y \in U
    OBVIOUS
  <2>2. x \in Int /\ y \in Int
    OBVIOUS
  <2> HIDE DEF U
  <2> QED
    BY <1>2, <1>3, <2>1, <2>2
<1> QED
  BY <1>4 DEF Max

LEMMA TrimDotsIs ==
  ASSUME NEW S, NEW host \in Seq(S)
  PROVE  \E m \in 0 .. Len(host) :
           /\ TrimDots(host) \in Seq(S)
           /\ Len(TrimDots(host)) = m
           /\ \A i \in 1 .. m : TrimDots(host)[i] = host[i]
           /\ (\A i \in 1 .. Len(host) : host[i] # "") => m = Len(host)
<1> DEFINE len == Len(host)
           T == {0} \cup {i \in DOMAIN host : host[i] # ""}
           m == Max(T)
<1>1. len \in Nat /\ DOMAIN host = 1 .. len /\ \A i \in 1 .. len : host[i] \in S
  BY LenProperties, ElementOfSeq
<1>2. T \in SUBSET (0 .. len) /\ T # {} /\ 0 \in T
  <2>1. \A x \in T : x = 0 \/ x \in 1 .. len
    BY <1>1
  <2>2. 0 \in T
    OBVIOUS
  <2> HIDE DEF T, len
  <2> QED
    BY <1>1, <2>1, <2>2
<1>3. TrimDots(host) = SubSeq(host, 1, m)
  BY DEF TrimDots
<1>4. (\A i \in 1 .. len : host[i] # "") => len \in T
  <2>1. len = 0 \/ len \in 1 .. len
    BY <1>1
  <2>2. \A i \in 1 .. len : host[i] # "" => i \in T
    BY <1>1
  <2> HIDE DEF T, len
  <2> QED
    BY <1>2, <2>1, <2>2
<1> HIDE DEF T, len
<1>5. m \in 0 .. len /\ \A y \in T : m >= y
  BY <1>1, <1>2, MaxIsIn
<1>6. len \in T => m = len
  BY <1>1, <1>5
<1> HIDE DEF m
<1>7. /\ SubSeq(host, 1, m) \in Seq(S)
      /\ Len(SubSeq(host, 1, m)) = IF 1 <= m THEN m - 1 + 1 ELSE 0
      /\ \A i \in 1 .. m - 1 + 1 : SubSeq(host, 1, m)[i] = host[1 + i - 1]
  <2>1. \A i \in 1 .. m : host[i] \in S
    BY <1>1, <1>5
  <2> QED
    BY <1>1, <1>5, <2>1, SubSeqProperties
<1>8. Len(SubSeq(host, 1, m)) = m /\ \A i \in 1 .. m : SubSeq(host, 1, m)[i] = host[i]
  BY <1>1, <1>5, <1>7
<1> QED
  BY <1>3, <1>4, <1>5, <1>6, <1>7, <1>8 DEF len

LEMMA ToLowerIs ==
  ASSUME NEW S, NEW host \in Seq(S)
  PROVE  /\ Sequence(ToLower(host)) /\ Len(ToLower(host)) = Len(host)
         /\ (\A i \in 1 .. Len(host) : host[i] \notin DOMAIN Lowered) => ToLower(host) = host
<1> DEFINE low == ToLower(host)
           len == Len(host)
<1>1. len \in Nat /\ DOMAIN host = 1 .. len /\ host = [i \in 1 .. len |-> host[i]]
  BY LenProperties
<1>2. low = [i \in 1 .. len |->
               IF host[i] \in DOMAIN Lowered THEN Lowered[host[i]] ELSE host[i]]
  BY <1>1 DEF ToLower
<1>3. (\A i \in 1 .. len : host[i] \notin DOMAIN Lowered) => low = host
  BY <1>1, <1>2
<1>4. DOMAIN low = 1 .. len /\ low = [i \in 1 .. len |-> low[i]]
  BY <1>2
<1> HIDE DEF low
<1>5. low \in [1 .. len -> ToSet(low)]
  BY <1>4 DEF ToSet
<1>6. low \in Seq(ToSet(low))
  BY <1>1, <1>5, SeqDef
<1>7. Len(low) = len
  BY <1>1, <1>4, <1>6, LenProperties
<1> QED
  BY <1>3, <1>6, <1>7 DEF Sequence, low

LEMMA Normalized ==
  ASSUME NEW host, Sequence(host)
  PROVE  /\ Sequence(NormalizeHost(host))
         /\ (\A i \in 1 .. Len(host) : host[i] # "" /\ host[i] \notin DOMAIN Lowered)
              => NormalizeHost(host) = host
<1> DEFINE trim == TrimDots(host)
           S == ToSet(host)
<1>1. host \in Seq(S)
  BY DEF Sequence
<1> HIDE DEF S
<1>2. PICK m \in 0 .. Len(host) :
        /\ trim \in Seq(S) /\ Len(trim) = m
        /\ \A i \in 1 .. m : trim[i] = host[i]
        /\ (\A i \in 1 .. Len(host) : host[i] # "") => m = Len(host)
  BY <1>1, TrimDotsIs
<1>3. NormalizeHost(host) = ToLower(trim)
  BY DEF NormalizeHost
<1> HIDE DEF trim
<1>4. /\ Sequence(ToLower(trim))
      /\ (\A i \in 1 .. Len(trim) : trim[i] \notin DOMAIN Lowered) => ToLower(trim) = trim
  BY <1>2, ToLowerIs
<1>5. ASSUME \A i \in 1 .. Len(host) : host[i] # "" /\ host[i] \notin DOMAIN Lowered
      PROVE  ToLower(trim) = host
  <2>1. Len(trim) = Len(host) /\ \A i \in 1 .. Len(host) : trim[i] = host[i]
    BY <1>2, <1>5
  <2>2. trim = host
    BY <1>1, <1>2, <2>1, SeqEqual
  <2> QED
    BY <1>4, <1>5, <2>1, <2>2
<1> QED
  BY <1>3, <1>4, <1>5

(* A domain of three labels is the end of a host name. *)
EndsIn(t, a, b, c) ==
  /\ Len(t) >= 3
  /\ t[Len(t) - 2] = a /\ t[Len(t) - 1] = b /\ t[Len(t)] = c

LEMMA SuffixOfThree ==
  ASSUME NEW a, NEW b, NEW c, NEW t, Sequence(t)
  PROVE  IsSuffix(<<a, b, c>>, t) <=> EndsIn(t, a, b, c)
<1> DEFINE s == <<a, b, c>>
           rs == Reverse(s)
           rt == Reverse(t)
           len == Len(t)
           S == ToSet(t) \cup {a, b, c}
<1>1. len \in Nat /\ \A i \in 1 .. len : t[i] \in S
  BY LenProperties, ElementOfSeq DEF Sequence
<1>2. rs = [i \in 1 .. 3 |-> s[(3 - i) + 1]] /\ rt = [i \in 1 .. len |-> t[(len - i) + 1]]
  BY DEF Reverse
<1>3. rs[1] = c /\ rs[2] = b /\ rs[3] = a /\ rs \in [1 .. 3 -> S]
  BY <1>2
<1>4. \A i \in 1 .. len : (len - i) + 1 \in 1 .. len
  BY <1>1
<1>5. rt \in [1 .. len -> S]
  BY <1>1, <1>2, <1>4
<1>6. /\ rs \in Seq(S) /\ Len(rs) = 3
      /\ rt \in Seq(S) /\ Len(rt) = len
  <2> HIDE DEF rs, rt, len, S
  <2>1. rs \in Seq(S) /\ rt \in Seq(S)
    <3>1. \A n \in Nat : \A f \in [1 .. n -> S] : f \in Seq(S)
      BY SeqDef
    <3>2. rs \in [1 .. 3 -> S] /\ 3 \in Nat
      BY <1>3
    <3> QED
      BY <1>1, <1>5, <3>1, <3>2
  <2>2. /\ Len(rs) \in Nat /\ DOMAIN rs = 1 .. Len(rs) /\ DOMAIN rs = 1 .. 3
        /\ Len(rt) \in Nat /\ DOMAIN rt = 1 .. Len(rt) /\ DOMAIN rt = 1 .. len
    BY <1>3, <1>5, <2>1, LenProperties
  <2>3. \A m, n \in Nat : 1 .. m = 1 .. n => m = n
    OBVIOUS
  <2> QED
    BY <1>1, <2>1, <2>2, <2>3
<1>7. IsSuffix(s, t) <=> 3 <= len /\ SubSeq(rs, 1, 3) = SubSeq(rt, 1, 3)
  BY <1>6 DEF IsSuffix, IsPrefix
<1>8. len >= 3 => rt[1] = t[len] /\ rt[2] = t[len - 1] /\ rt[3] = t[len - 2]
  BY <1>1, <1>2
<1> HIDE DEF s, rs, rt, len, S
<1>9. SubSeq(rs, 1, 3) \in Seq(S) /\ Len(SubSeq(rs, 1, 3)) = 3
      /\ \A i \in 1 .. 3 : SubSeq(rs, 1, 3)[i] = rs[i]
  BY <1>3, <1>6, SubSeqProperties
<1>10. ASSUME len >= 3
       PROVE  SubSeq(rt, 1, 3) \in Seq(S) /\ Len(SubSeq(rt, 1, 3)) = 3
              /\ \A i \in 1 .. 3 : SubSeq(rt, 1, 3)[i] = rt[i]
  <2>1. \A i \in 1 .. 3 : rt[i] \in S
    BY <1>1, <1>5, <1>10
  <2> QED
    BY <2>1, SubSeqProperties
<1>11. ASSUME len >= 3
       PROVE  SubSeq(rs, 1, 3) = SubSeq(rt, 1, 3)
                <=> t[len - 2] = a /\ t[len - 1] = b /\ t[len] = c
  <2>1. SubSeq(rs, 1, 3) = SubSeq(rt, 1, 3) <=> \A i \in 1 .. 3 : rs[i] = rt[i]
    BY <1>9, <1>10, <1>11, SeqEqual
  <2>2. (\A i \in 1 .. 3 : rs[i] = rt[i]) <=> rs[1] = rt[1] /\ rs[2] = rt[2] /\ rs[3] = rt[3]
    OBVIOUS
  <2> QED
    BY <1>3, <1>8, <1>11, <2>1, <2>2
<1>12. len >= 3 <=> 3 <= len
  BY <1>1
<1> QED
  BY <1>7, <1>11, <1>12 DEF EndsIn, s, len

-----------------------------------------------------------------------------
(* The table: three labels for each domain, no domain twice, and each      *)
(* group's upstream Hosts among its own domains.                           *)
Entries(g) == DOMAIN ENDPOINTS[g].domain_map
ClientOf(g, d) == ENDPOINTS[g].domain_map[d].client

LEMMA GroupNames ==
  ASSUME NEW g \in Groups
  PROVE  Len(ENDPOINTS[g].name) = 1
<1>1. g = 1 \/ g = 2
  BY GroupsAre
<1> QED
  BY <1>1 DEF ENDPOINTS

LEMMA EntriesAre == Entries(1) = 1 .. 10 /\ Entries(2) = 1 .. 4
BY DEF Entries, ENDPOINTS

LEMMA ClientsOf1 ==
  /\ ClientOf(1, 1) = Com("assets1") /\ ClientOf(1, 2) = Com("assets2")
  /\ ClientOf(1, 3) = Com("d1") /\ ClientOf(1, 4) = Com("d2")
  /\ ClientOf(1, 5) = Com("xvcf1") /\ ClientOf(1, 6) = Com("xvcf2")
  /\ ClientOf(1, 7) = Cn("assets1") /\ ClientOf(1, 8) = Cn("assets2")
  /\ ClientOf(1, 9) = Cn("d1") /\ ClientOf(1, 10) = Cn("d2")
BY DEF ClientOf, ENDPOINTS, Entry

LEMMA ClientsOf2 ==
  /\ ClientOf(2, 1) = Com("dlassets") /\ ClientOf(2, 2) = Com("dlassets2")
  /\ ClientOf(2, 3) = Cn("dlassets") /\ ClientOf(2, 4) = Cn("dlassets2")
BY DEF ClientOf, ENDPOINTS, Entry

LEMMA UpstreamIsClient ==
  ASSUME NEW g \in Groups, NEW d \in Entries(g)
  PROVE  \E e \in Entries(g) : ENDPOINTS[g].domain_map[d].upstream = ClientOf(g, e)
<1>1. CASE g = 1
  <2>1. /\ ClientOf(1, 7) = Cn("assets1") /\ ClientOf(1, 8) = Cn("assets2")
        /\ 7 \in Entries(1) /\ 8 \in Entries(1) /\ d \in 1 .. 10
    BY <1>1, ClientsOf1, EntriesAre
  <2>2. ENDPOINTS[1].domain_map[d].upstream \in {Cn("assets1"), Cn("assets2")}
    BY <2>1 DEF ENDPOINTS, Entry
  <2> QED
    BY <1>1, <2>1, <2>2
<1>2. CASE g = 2
  <2>1. /\ ClientOf(2, 3) = Cn("dlassets") /\ ClientOf(2, 4) = Cn("dlassets2")
        /\ 3 \in Entries(2) /\ 4 \in Entries(2) /\ d \in 1 .. 4
    BY <1>2, ClientsOf2, EntriesAre
  <2>2. ENDPOINTS[2].domain_map[d].upstream \in {Cn("dlassets"), Cn("dlassets2")}
    BY <2>1 DEF ENDPOINTS, Entry
  <2> QED
    BY <1>2, <2>1, <2>2
<1> QED
  BY <1>1, <1>2, GroupsAre

(* The labels of a client's domain. *)
LEMMA ThreeLabels ==
  ASSUME NEW g \in Groups, NEW d \in Entries(g)
  PROVE  \E a \in {"assets1", "assets2", "d1", "d2", "xvcf1", "xvcf2", "dlassets", "dlassets2"},
            c \in {"com", "cn"} : ClientOf(g, d) = <<a, "xboxlive", c>>
<1>1. CASE g = 1
  BY <1>1, ClientsOf1, EntriesAre DEF Com, Cn
<1>2. CASE g = 2
  BY <1>2, ClientsOf2, EntriesAre DEF Com, Cn
<1> QED
  BY <1>1, <1>2, GroupsAre

LEMMA ClientsDiffer ==
  ASSUME NEW g \in Groups, NEW d \in Entries(g), NEW h \in Groups, NEW e \in Entries(h),
         ClientOf(g, d) = ClientOf(h, e)
  PROVE  g = h /\ d = e
<1> DEFINE label(f, k) == ClientOf(f, k)[1]
           top(f, k) == ClientOf(f, k)[3]
<1>1. label(g, d) = label(h, e) /\ top(g, d) = top(h, e)
  OBVIOUS
<1>2. /\ label(1, 1) = "assets1" /\ label(1, 2) = "assets2" /\ label(1, 3) = "d1"
      /\ label(1, 4) = "d2" /\ label(1, 5) = "xvcf1" /\ label(1, 6) = "xvcf2"
      /\ label(1, 7) = "assets1" /\ label(1, 8) = "assets2"
      /\ label(1, 9) = "d1" /\ label(1, 10) = "d2"
  BY ClientsOf1 DEF Com, Cn
<1>3. /\ \A k \in 1 .. 6 : top(1, k) = "com"
      /\ \A k \in 7 .. 10 : top(1, k) = "cn"
  BY ClientsOf1 DEF Com, Cn
<1>4. /\ label(2, 1) = "dlassets" /\ label(2, 2) = "dlassets2"
      /\ label(2, 3) = "dlassets" /\ label(2, 4) = "dlassets2"
      /\ top(2, 1) = "com" /\ top(2, 2) = "com" /\ top(2, 3) = "cn" /\ top(2, 4) = "cn"
  BY ClientsOf2 DEF Com, Cn
<1> HIDE DEF label, top
<1>5. \A k \in 1 .. 10, l \in 1 .. 4 : label(1, k) # label(2, l)
  BY <1>2, <1>4
<1>6. \A k, l \in 1 .. 10 : label(1, k) = label(1, l) /\ top(1, k) = top(1, l) => k = l
  BY <1>2, <1>3
<1>7. \A k, l \in 1 .. 4 : label(2, k) = label(2, l) /\ top(2, k) = top(2, l) => k = l
  BY <1>4
<1>8. g \in {1, 2} /\ h \in {1, 2}
  BY GroupsAre
<1> QED
  BY <1>1, <1>5, <1>6, <1>7, <1>8, EntriesAre

(* A listed domain is written as it is compared. *)
LEMMA ClientIsNormal ==
  ASSUME NEW g \in Groups, NEW d \in Entries(g)
  PROVE  Sequence(ClientOf(g, d)) /\ NormalizeHost(ClientOf(g, d)) = ClientOf(g, d)
<1> DEFINE s == ClientOf(g, d)
<1>1. PICK a \in {"assets1", "assets2", "d1", "d2", "xvcf1", "xvcf2", "dlassets", "dlassets2"},
           c \in {"com", "cn"} : s = <<a, "xboxlive", c>>
  BY ThreeLabels
<1>2. s \in Seq({a, "xboxlive", c}) /\ Len(s) = 3 /\ DOMAIN s = 1 .. 3
  BY <1>1
<1>3. \A i \in 1 .. 3 : s[i] \in ToSet(s)
  BY <1>2 DEF ToSet
<1>4. ToSet(s) \cap DOMAIN Lowered = {}
  <2>1. ENDPOINTS[g].domain_map[d] \in ToSet(ENDPOINTS[g].domain_map)
    BY DEF Entries, ToSet
  <2> QED
    BY <2>1, EndpointsAssumption DEF ClientOf
<1>5. \A i \in 1 .. 3 : s[i] # ""
  <2>1. s[1] = a /\ s[2] = "xboxlive" /\ s[3] = c
    BY <1>1
  <2>2. a # "" /\ "xboxlive" # "" /\ c # ""
    OBVIOUS
  <2>3. \A i \in 1 .. 3 : i = 1 \/ i = 2 \/ i = 3
    OBVIOUS
  <2> HIDE DEF s
  <2> QED
    BY <2>1, <2>2, <2>3, Zenon
<1>6. Sequence(s)
  BY <1>2, IsSequence
<1> HIDE DEF s
<1>7. \A i \in 1 .. Len(s) : s[i] # "" /\ s[i] \notin DOMAIN Lowered
  BY <1>2, <1>3, <1>4, <1>5
<1> QED
  BY <1>6, <1>7, Normalized DEF s

-----------------------------------------------------------------------------
(* Which domains claim a host. *)
LEMMA MatchIsEnd ==
  ASSUME NEW host, Sequence(host), NEW g \in Groups, NEW d \in Entries(g)
  PROVE  /\ d \in Matching(host, g) <=> Matches(host, ClientOf(g, d))
         /\ Matches(host, ClientOf(g, d)) <=>
              \E a, c : /\ ClientOf(g, d) = <<a, "xboxlive", c>>
                        /\ EndsIn(NormalizeHost(host), a, "xboxlive", c)
<1>1. d \in Matching(host, g) <=> Matches(host, ClientOf(g, d))
  BY DEF Matching, Entries, ClientOf
<1>2. PICK a, c : ClientOf(g, d) = <<a, "xboxlive", c>>
  BY ThreeLabels
<1>3. Matches(host, ClientOf(g, d)) <=> IsSuffix(<<a, "xboxlive", c>>, NormalizeHost(host))
  BY <1>2, ClientIsNormal DEF Matches
<1>4. Sequence(NormalizeHost(host))
  BY Normalized
<1>5. Matches(host, ClientOf(g, d)) <=> EndsIn(NormalizeHost(host), a, "xboxlive", c)
  BY <1>3, <1>4, SuffixOfThree
<1>6. \A x, y : ClientOf(g, d) = <<x, "xboxlive", y>> => x = a /\ y = c
  BY <1>2
<1> QED
  BY <1>1, <1>2, <1>5, <1>6

(* No two domains of the table claim the same host, of one group or of two *)
(* and in whatever spelling: the order in which the lookups walk the table *)
(* and take the first match cannot matter (host_for, upstream_host_for,    *)
(* index_of).                                                              *)
THEOREM OneMatch ==
  ASSUME NEW host, Sequence(host),
         NEW g \in Groups, NEW d \in Matching(host, g),
         NEW h \in Groups, NEW e \in Matching(host, h)
  PROVE  g = h /\ d = e
<1> DEFINE name == NormalizeHost(host)
<1>1. d \in Entries(g) /\ e \in Entries(h)
  BY DEF Matching, Entries
<1>2. PICK a, c : ClientOf(g, d) = <<a, "xboxlive", c>> /\ EndsIn(name, a, "xboxlive", c)
  BY <1>1, MatchIsEnd
<1>3. PICK x, y : ClientOf(h, e) = <<x, "xboxlive", y>> /\ EndsIn(name, x, "xboxlive", y)
  BY <1>1, MatchIsEnd
<1>4. a = x /\ c = y
  BY <1>2, <1>3 DEF EndsIn
<1>5. ClientOf(g, d) = ClientOf(h, e)
  BY <1>2, <1>3, <1>4
<1> QED
  BY <1>1, <1>5, ClientsDiffer

LEMMA MinOfOne ==
  ASSUME NEW n \in Nat
  PROVE  Min({n}) = n
BY DEF Min

(* The lookups of a host that a domain of the table claims. *)
LEMMA Lookups ==
  ASSUME NEW host, Sequence(host), NEW g \in Groups, NEW d \in Matching(host, g)
  PROVE  /\ HostFor(host) = g
         /\ UpstreamHostFor(host) = ENDPOINTS[g].domain_map[d].upstream
         /\ IndexOf(host) = g
<1>1. g \in Nat /\ d \in Nat /\ d \in Entries(g)
  BY GroupsAre, EntriesAre DEF Matching, Entries
<1>2. Matching(host, g) = {d}
  BY OneMatch
<1>3. {h \in Groups : Matching(host, h) # {}} = {g}
  BY OneMatch
<1>4. HostFor(host) = g
  BY <1>1, <1>3, MinOfOne DEF HostFor, Least
<1>5. UpstreamHostFor(host) = ENDPOINTS[g].domain_map[d].upstream
  <2>1. g # None
    BY <1>1, EndpointsAssumption
  <2> QED
    BY <1>1, <1>2, <1>4, <2>1, MinOfOne DEF UpstreamHostFor
<1>6. IndexOf(host) = g
  <2>1. Len(NormalizeHost(host)) >= 3
    BY <1>1, MatchIsEnd DEF EndsIn
  <2>2. \A h \in Groups : ENDPOINTS[h].name # NormalizeHost(host)
    <3> SUFFICES ASSUME NEW h \in Groups, ENDPOINTS[h].name = NormalizeHost(host)
                 PROVE  FALSE
      OBVIOUS
    <3>1. Len(NormalizeHost(host)) = 1
      BY GroupNames
    <3> QED
      BY <2>1, <3>1
  <2>3. {h \in Groups : ENDPOINTS[h].name = NormalizeHost(host) \/ Matching(host, h) # {}} = {g}
    BY <1>3, <2>2
  <2> QED
    BY <1>1, <2>3, MinOfOne DEF IndexOf, Least
<1> QED
  BY <1>4, <1>5, <1>6

(* The connector finds the group by the upstream Host. *)
LEMMA UpstreamLookup ==
  ASSUME NEW g \in Groups, NEW d \in Entries(g)
  PROVE  IndexOf(ENDPOINTS[g].domain_map[d].upstream) = g
<1>1. PICK e \in Entries(g) : ENDPOINTS[g].domain_map[d].upstream = ClientOf(g, e)
  BY UpstreamIsClient
<1> DEFINE s == ClientOf(g, e)
<1>2. Sequence(s) /\ NormalizeHost(s) = s
  BY ClientIsNormal
<1>3. PICK a, c : s = <<a, "xboxlive", c>>
  BY ThreeLabels
<1>4. EndsIn(s, a, "xboxlive", c)
  BY <1>3 DEF EndsIn
<1>5. e \in Matching(s, g)
  BY <1>2, <1>3, <1>4, MatchIsEnd
<1> QED
  BY <1>1, <1>2, <1>5, Lookups

(* The domain that RoutedToItsCdn goes by. *)
LEMMA ClaimsIs ==
  ASSUME NEW host, Sequence(host), NEW g \in Groups, NEW d \in Matching(host, g)
  PROVE  LET e == ENDPOINTS[g].domain_map[d]
         IN  Claims(host) = {e} /\ MostSpecific(host) = e /\ OwnerOf(e) = g
<1> DEFINE e == ENDPOINTS[g].domain_map[d]
<1>1. d \in Entries(g) /\ Matches(host, e.client)
  BY DEF Matching, Entries
<1>2. \A h \in Groups : \A f \in ToSet(ENDPOINTS[h].domain_map) :
        \E k \in Entries(h) : f = ENDPOINTS[h].domain_map[k]
  BY DEF ToSet, Entries
<1>3. \A h \in Groups : \A k \in Entries(h) :
        ENDPOINTS[h].domain_map[k] \in ToSet(ENDPOINTS[h].domain_map)
  BY DEF ToSet, Entries
<1>4. ASSUME NEW f \in Claims(host)
      PROVE  f = e
  <2>1. PICK h \in Groups : f \in ToSet(ENDPOINTS[h].domain_map) /\ Matches(host, f.client)
    BY <1>4 DEF Claims
  <2>2. PICK k \in Entries(h) : f = ENDPOINTS[h].domain_map[k]
    BY <1>2, <2>1
  <2>3. k \in Matching(host, h)
    BY <2>1, <2>2 DEF Matching, Entries
  <2> QED
    BY <2>2, <2>3, OneMatch
<1>5. e \in Claims(host)
  BY <1>1, <1>3 DEF Claims
<1>6. Claims(host) = {e}
  BY <1>4, <1>5
<1>7. Len(e.client) = 3
  <2>1. \E a, c : e.client = <<a, "xboxlive", c>>
    BY <1>1, ThreeLabels DEF ClientOf
  <2> QED
    BY <2>1
<1>8. MostSpecific(host) = e
  <2> HIDE DEF e
  <2> QED
    BY <1>6, <1>7 DEF MostSpecific
<1>9. ASSUME NEW h \in Groups, e \in ToSet(ENDPOINTS[h].domain_map)
      PROVE  h = g
  <2>1. PICK k \in Entries(h) : e = ENDPOINTS[h].domain_map[k]
    BY <1>2, <1>9
  <2>2. ClientOf(h, k) = ClientOf(g, d)
    BY <2>1 DEF ClientOf
  <2> QED
    BY <1>1, <2>2, ClientsDiffer
<1>10. OwnerOf(e) = g
  BY <1>1, <1>3, <1>9 DEF OwnerOf
<1> QED
  BY <1>6, <1>8, <1>10

(* RoutedToItsCdn of any call. *)
Routed(c) ==
  /\ c.at = "forwarded" =>
       /\ Claims(c.host) # {}
       /\ c.upstream = MostSpecific(c.host).upstream
       /\ c.picked_from = OwnerOf(MostSpecific(c.host))
       /\ c.connected_as = OwnerOf(MostSpecific(c.host))
  /\ c.at = "started" =>
       c.targets = IF c.asked = None THEN Groups ELSE {OwnerOf(MostSpecific(c.asked))}

LEMMA OthersRouted ==
  ASSUME NEW c, c.at \notin {"forwarded", "started"}
  PROVE  Routed(c)
BY DEF Routed

(* A host that host_for knows: what the three lookups say of it. *)
LEMMA KnownHost ==
  ASSUME NEW host, Sequence(host), HostFor(host) # None
  PROVE  /\ Claims(host) # {}
         /\ UpstreamHostFor(host) = MostSpecific(host).upstream
         /\ IndexOf(host) = OwnerOf(MostSpecific(host))
         /\ IndexOf(UpstreamHostFor(host)) = OwnerOf(MostSpecific(host))
         /\ IndexOf(host) # None
<1>1. PICK g \in Groups : Matching(host, g) # {}
  BY DEF HostFor, Least
<1>2. PICK d \in Matching(host, g) : TRUE
  BY <1>1
<1>3. d \in Entries(g)
  BY DEF Matching, Entries
<1> DEFINE e == ENDPOINTS[g].domain_map[d]
<1>4. UpstreamHostFor(host) = e.upstream /\ IndexOf(host) = g /\ IndexOf(e.upstream) = g
  BY <1>3, Lookups, UpstreamLookup
<1>5. Claims(host) = {e} /\ MostSpecific(host) = e /\ OwnerOf(e) = g
  BY ClaimsIs
<1>6. g # None
  BY GroupsAre, EndpointsAssumption
<1> HIDE DEF e
<1> QED
  BY <1>4, <1>5, <1>6

LEMMA HeaderIsSequence ==
  ASSUME NEW form, NEW host \in Hosts, HostNameFromHeader(form, host) # None
  PROVE  Sequence(HostNameFromHeader(form, host))
<1>1. Sequence(host)
  BY FrontDoorAssumption, IsSequence
<1> QED
  BY <1>1, Normalized DEF HostNameFromHeader

LEMMA RoutedNext == Routed(call) /\ [Next]_vars => Routed(call')
<1> SUFFICES ASSUME Routed(call), [Next]_vars PROVE Routed(call')
  OBVIOUS
<1>1. ASSUME NEW form \in HostForms, NEW host \in Hosts, NEW method \in {"GET", "POST"},
             NEW headers \in RequestHeaders, ProxyRequest(form, host, method, headers)
      PROVE  Routed(call')
  <2> DEFINE name == HostNameFromHeader(form, host)
  <2>1. CASE Refuse("400") \/ Refuse("404")
    <3>1. call'.at \in {"400", "404"}
      BY <2>1 DEF Refuse
    <3> QED
      BY <3>1, OthersRouted
  <2>2. CASE name # None /\ HostFor(name) # None /\ Forward(name, method, headers)
    <3>1. Sequence(name)
      BY <2>2, HeaderIsSequence
    <3> HIDE DEF name
    <3>2. /\ call'.at = "forwarded" /\ call'.host = name
          /\ call'.upstream = UpstreamHostFor(name)
          /\ call'.picked_from = IndexOf(name)
          /\ call'.connected_as = IndexOf(UpstreamHostFor(name))
      BY <2>2 DEF Forward
    <3> QED
      BY <2>2, <3>1, <3>2, KnownHost DEF Routed
  <2> QED
    BY <1>1, <2>1, <2>2 DEF ProxyRequest
<1>2. ASSUME NEW headers \in ResponseHeaders, Respond(headers)
      PROVE  Routed(call')
  <2>1. call'.at = "relayed"
    BY <1>2 DEF Respond
  <2> QED
    BY <2>1, OthersRouted
<1>3. CASE ReplySent
  <2>1. call'.at = "none"
    BY <1>3 DEF ReplySent, NoCall
  <2> QED
    BY <2>1, OthersRouted
<1>4. ASSUME NEW host \in Hosts \cup {None}, RunSpeedtest(host)
      PROVE  Routed(call')
  <2>1. CASE pinned \/ (host # None /\ HostFor(host) = None)
    <3>1. call'.at = "refused"
      BY <1>4, <2>1 DEF RunSpeedtest
    <3> QED
      BY <3>1, OthersRouted
  <2>2. CASE ~ (pinned \/ (host # None /\ HostFor(host) = None))
    <3>1. /\ call'.at = "started" /\ call'.asked = host
          /\ call'.targets = IF host = None THEN Groups ELSE {IndexOf(host)} \ {None}
      BY <1>4, <2>2 DEF RunSpeedtest
    <3>2. CASE host = None
      BY <3>1, <3>2 DEF Routed
    <3>3. CASE host # None
      <4>1. Sequence(host) /\ HostFor(host) # None
        BY <2>2, <3>3, FrontDoorAssumption, IsSequence
      <4>2. IndexOf(host) = OwnerOf(MostSpecific(host)) /\ IndexOf(host) # None
        BY <4>1, KnownHost
      <4> QED
        BY <3>1, <3>3, <4>2 DEF Routed
    <3> QED
      BY <3>2, <3>3
  <2> QED
    BY <2>1, <2>2
<1>5. CASE UNCHANGED call
  BY <1>5
<1>6. ASSUME NEW name \in Hosts, NEW ip \in Ips \cup {None}, PinGroup(name, ip)
      PROVE  UNCHANGED call
  BY <1>6 DEF PinGroup
<1> QED
  BY <1>1, <1>2, <1>3, <1>4, <1>5, <1>6 DEF Next, Load, LoadFails, vars

(* Whatever host a request or a speed test names, the list of addresses,   *)
(* the upstream Host, the connector's group and the group under test are   *)
(* those of the one entry of the table that claims it, although each is    *)
(* looked up in a loop of its own (host_for, upstream_host_for, index_of). *)
THEOREM RoutedRight == Spec => []RoutedToItsCdn
<1>1. Init => Routed(call)
  <2>1. Init => call.at = "none"
    BY DEF Init, NoCall
  <2> QED
    BY <2>1, OthersRouted
<1>2. Routed(call) => RoutedToItsCdn
  BY DEF Routed, RoutedToItsCdn
<1>3. Routed(call) /\ [Next]_vars => Routed(call)'
  BY RoutedNext
<1> QED
  BY <1>1, <1>2, <1>3, PTL DEF Spec
=============================================================================
