------------------------------ MODULE Endpoints -------------------------------
(***************************************************************************)
(* The endpoint groups and the domains they claim (src/endpoints.rs), and  *)
(* the three lookups by host name of Selector (src/selector.rs), which     *)
(* walk the same table separately.                                         *)
(*                                                                         *)
(* A host name is the sequence of its labels.  A trailing dot is an empty  *)
(* last label, and Lowered says which labels have upper-case letters.      *)
(***************************************************************************)
EXTENDS Integers, Sequences, FiniteSets, SequencesExt

CONSTANTS
  Ips,          \* addresses
  None,         \* Option::None
  Lowered       \* labels with upper-case letters, and what they are in lower case

Com(label) == <<label, "xboxlive", "com">>
Cn(label) == <<label, "xboxlive", "cn">>

(* The client's domain, and the Host to send upstream. *)
Entry(client, upstream) == [client |-> client, upstream |-> upstream]

ENDPOINTS ==
  << [name |-> <<"xbox-assets">>,
      domain_map |-> <<Entry(Com("assets1"), Cn("assets1")),
                       Entry(Com("assets2"), Cn("assets2")),
                       Entry(Com("d1"), Cn("assets1")),
                       Entry(Com("d2"), Cn("assets2")),
                       Entry(Com("xvcf1"), Cn("assets1")),
                       Entry(Com("xvcf2"), Cn("assets2")),
                       Entry(Cn("assets1"), Cn("assets1")),
                       Entry(Cn("assets2"), Cn("assets2")),
                       Entry(Cn("d1"), Cn("assets1")),
                       Entry(Cn("d2"), Cn("assets2"))>>],
     [name |-> <<"xbox-content">>,
      domain_map |-> <<Entry(Com("dlassets"), Cn("dlassets")),
                       Entry(Com("dlassets2"), Cn("dlassets2")),
                       Entry(Cn("dlassets"), Cn("dlassets")),
                       Entry(Cn("dlassets2"), Cn("dlassets2"))>>] >>

Groups == DOMAIN ENDPOINTS

(* The table is written in lower case.                                     *)
ASSUME EndpointsAssumption ==
  /\ None \notin Ips /\ None \notin Int
  /\ \A g \in Groups : \A e \in ToSet(ENDPOINTS[g].domain_map) :
       ToSet(e.client) \cap DOMAIN Lowered = {}

-----------------------------------------------------------------------------
(* Mutant of LoadBundled: an address that is listed twice is kept twice.   *)
LoadBundled_Twice(lines) == SelectSeq(lines, LAMBDA line : line \in Ips)

TakeLine(ips, line) ==
  IF line \in Ips /\ ~ Contains(ips, line) THEN Append(ips, line) ELSE ips

(* load_bundled: the first token of each line if it is an address, each    *)
(* address once, in the order of the file.                                 *)
LoadBundled(lines) ==
  LET ips[n \in 0 .. Len(lines)] ==          \* after n lines
        IF n = 0 THEN << >> ELSE TakeLine(ips[n - 1], lines[n])
  IN  ips[Len(lines)]

(* ipv4_from_env: the address to pin to, None, or an error. *)
Ipv4FromEnv(value) ==
  IF value \in {"unset", "blank"} THEN None ELSE value

-----------------------------------------------------------------------------
(* trim_end_matches('.') *)
TrimDots(host) ==
  SubSeq(host, 1, Max({0} \cup {i \in DOMAIN host : host[i] # ""}))

ToLower(host) ==
  [i \in DOMAIN host |-> IF host[i] \in DOMAIN Lowered THEN Lowered[host[i]] ELSE host[i]]

NormalizeHost(host) == ToLower(TrimDots(host))

(* A domain and everything under it. *)
Matches(host, domain) == IsSuffix(NormalizeHost(domain), NormalizeHost(host))

Matching(host, g) ==
  {d \in DOMAIN ENDPOINTS[g].domain_map : Matches(host, ENDPOINTS[g].domain_map[d].client)}

Least(S) == IF S = {} THEN None ELSE Min(S)

HostFor(host) == Least({g \in Groups : Matching(host, g) # {}})

UpstreamHostFor(host) ==
  LET g == HostFor(host)
  IN  IF g = None THEN None
      ELSE ENDPOINTS[g].domain_map[Min(Matching(host, g))].upstream

(* Mutant of IndexOf: takes the host as it is. *)
IndexOf_Verbatim(host) ==
  Least({g \in Groups : \/ ENDPOINTS[g].name = host
                        \/ \E d \in DOMAIN ENDPOINTS[g].domain_map :
                             IsSuffix(ENDPOINTS[g].domain_map[d].client, host)})

(* Knows the groups by name too. *)
IndexOf(host) ==
  Least({g \in Groups : ENDPOINTS[g].name = NormalizeHost(host) \/ Matching(host, g) # {}})

-----------------------------------------------------------------------------
(* host_name_from_header.  The header is an authority in one of several    *)
(* forms; only a host, or a host with a port, is taken.                    *)
HostNameFromHeader(form, host) ==
  IF form \notin {"host", "host:port"} \/ TrimDots(host) = << >>
  THEN None
  ELSE NormalizeHost(host)
=============================================================================
