------------------------------ MODULE MCMirror ------------------------------
(* Model values and sets for TLC. *)
EXTENDS Mirror

\* Spellings: "mapped" is "v4" written as IPv6, "local" is not routable, and
\* "zoned", which names an interface, does not count as an address.
MCUnmap == [v4 |-> "v4", mapped |-> "v4", v6 |-> "v6", local |-> "local"]
MCGlobalUnicast == {"v4", "v6"}

Internal(a) == [type |-> "InternalIP", address |-> a]
Hostname == [type |-> "Hostname", address |-> "host"]
Alias == [type |-> "ExternalDNS", address |-> "alias"]
Interface(name, a) == [name |-> name, addresses |-> {a}]

MCBaseNode == [exists |-> TRUE, hypervisorLabel |-> TRUE, lifecycle |-> "true", zone |-> "z",
               aggregates |-> {"a"}, customTraits |-> {"none"}, taint |-> FALSE, ending |-> "no",
               addresses |-> <<Hostname, Internal("v4")>>, interfaces |-> {}]

\* Ready follows the status: the node's end, its address and its taint count,
\* and one annotation that the spec may refuse.
MCStatus == [controllers |-> {"hypervisor", "ready"},
             values |-> [hypervisorLabel |-> BOOLEAN,
                         ending     |-> {"no", "condition", "deletion"},
                         taint      |-> {TRUE},
                         aggregates |-> {{"b"}},
                         addresses  |-> {<<Internal("v4"), Internal("v6")>>}]]

\* Tainted follows the spec: labels and annotations count.
MCSpec == [controllers |-> {"hypervisor", "taint"},
           values |-> [hypervisorLabel |-> BOOLEAN,
                       lifecycle    |-> {"none", "skip-tests"},
                       zone         |-> {"none"},
                       aggregates   |-> {{"none"}, {"b"}, {}},
                       customTraits |-> {{"T"}},
                       ending       |-> {"condition"}]]

\* The certificate shares nothing with the rest but the node it reads.
MCAddresses == [controllers |-> {"certificate"},
                values |-> [hypervisorLabel |-> BOOLEAN,
                            ending     |-> {"deletion"},
                            addresses  |-> {<<Internal("v4"), Internal("v6"), Alias>>,
                                            <<Internal("zoned"), Hostname, Internal("mapped")>>},
                            interfaces |-> {{Interface("cable", "v6"), Interface("cable", "local")},
                                            {Interface("veth", "v6")}}]]

\* Two who write the status, and other controllers besides.
MCWriters == [controllers |-> {"ready", "taint"},
              values |-> [ending |-> {"condition"}, lifecycle |-> {"skip-tests"}]]

\* A node whose annotations come and go, with two addresses, so that its status
\* is never at rest.
MCTurns == [controllers |-> {"hypervisor"},
            values |-> [aggregates   |-> {{"a"}, {"b"}, {}},
                        lifecycle    |-> {"none", "skip-tests"},
                        zone         |-> {"none"},
                        customTraits |-> {{"T"}},
                        addresses    |-> {<<Internal("v4"), Internal("v6")>>}]]

MCGroups == {MCWriters, MCStatus, MCSpec, MCAddresses, MCTurns}
=============================================================================
