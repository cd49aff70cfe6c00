-------------------------- MODULE MCStreamServers --------------------------
(***************************************************************************)
(* Up to three passthrough servers over two ports, with distinct (port,   *)
(* hostname) pairs as the dataplane builds them, and up to two stream     *)
(* upstreams, possibly of one name, with or without endpoints.            *)
(***************************************************************************)
EXTENDS StreamServers, SequencesExt

MCServer == [port : {443, 8443}, hostname : {"", "a.example", "b.example"},
             upstream : {"", "u1", "u2"}]

DistinctListeners(s) ==
    \A k, l \in DOMAIN s :
        k # l => <<s[k].port, s[k].hostname>> # <<s[l].port, s[l].hostname>>

MCServerInputs == {s \in BoundedSeq(MCServer, 3) : DistinctListeners(s)}

MCUpstreamInputs == BoundedSeq([name : {"u1", "u2"}, endpoints : {0, 1}], 2)

=============================================================================
