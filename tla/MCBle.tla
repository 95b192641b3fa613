-------------------------------- MODULE MCBle --------------------------------
(* A peripheral with its centrals, and nodes that flood advertisements; what   *)
(* both put on the wire.                                                       *)
EXTENDS BlePeripheral, BleMesh

\* The third node is the weaker neighbour.
MCRssis == {-70}

MCBatteryOf == [n \in Nodes |-> IF n = 3 THEN 20 ELSE 90]

-----------------------------------------------------------------------------
\* Names of up to one byte more than a peer allows, and every frame with them;
\* fields at both ends of a byte.
MCNames == BoundedSeq({1, 7}, MaxNameLen + 1)
MCFields == {<<0, 0>>, <<7, 1>>}

MCLsas ==
    [origin : {<< >>, <<1>>, <<0, 1>>}, sequence : {0, 9}, battery : {1}, generated_at : {0, 63},
     ttl : {9}, neighbors : BoundedSeq([id : {<< >>, <<0>>, <<0, 1>>}, cost : {0, 7}], 2), signature : MCFields]

MCFrames ==
         [tag : {"Hello", "AuthInit"}, node_name : MCNames, battery : {0, 7}, challenge : MCFields]
    \cup [tag : {"AuthProof"}, mac : MCFields]
    \cup [tag : {"AuthReject"}, reason : AuthRejectReasons]
    \cup [tag : {"AuthOk", "Bye"}]
    \cup [tag : {"Lsa"}, lsa : MCLsas]

\* The peripheral and the flood handle frames whole: this is why they may.
ASSUME FramesSurvive == \A f \in MCFrames : FrameSurvives(f)

\* Why a signature over these bytes is one over the advertisement.
ASSUME SignaturesBind == SignedBytesDecide(MCLsas)

\* Every key of a byte; characters at both ends of the digits and beside them,
\* and strings that are too short or too long.
ASSUME IdsAreCanonical ==
    IdsNameKeys({<<b>> : b \in 0 .. 255}, BoundedSeq({47, 48, 57, 58, 65, 70, 96, 97, 102, 103}, 3), 1)

-----------------------------------------------------------------------------
\* The peripheral owns a node of its own and shares no state with the flooding
\* nodes: one moves while the other rests.
VARIABLE part

MCInit == BleInit /\ MeshInit /\ part \in {"peripheral", "flood"}

\* Bounds on what centrals write: a write waits alone; only a short message has
\* the second id, which still meets one that is half reassembled; and a link that
\* the HAL did not drop carries garbage, as what is written on it is never read.
\* One of the two connections may be of a central that holds the secret.
IsWrite(e) == e.type = "GattWrite"

FewWrites ==
    Len(events') > Len(events) =>
        LET new == events'[Len(events')] IN
        /\ Len(events') > 1 => ~IsWrite(new) /\ ~IsWrite(events'[1])
        /\ IsWrite(new) /\ new.frag.wellFormed =>
               new.conn \notin stuck /\ (new.frag.id = 2 => new.frag.count = 1)

MCNext ==
    /\ UNCHANGED part
    /\ \/ part = "peripheral" /\ BleNext /\ FewWrites /\ Cardinality(kin') <= 1
          /\ UNCHANGED meshVars
       \/ part = "flood" /\ MeshNext /\ UNCHANGED bleVars

MCSpec == MCInit /\ [][MCNext]_<<bleVars, meshVars, part>> /\ BleFairness
=============================================================================
