------------------------------ MODULE MCMedia ------------------------------
(* Instances of Media for TLC. *)
EXTENDS Media

Can(names) == [prefix |-> "socketcan:", addresses |-> names]
Udp(texts) == [prefix |-> "udp://", addresses |-> texts]

Trial(of, sent, changed, fail) ==
  [ports |-> of, transfers |-> sent, changes |-> changed, faults |-> fail]

(* Interfaces of either kind, in one entry or in several, with names that  *)
(* are empty, unknown or too long, and both kinds together.                *)
Busy ==
  { <<Can(<<"none", "", "can0", "long">>), Can(<<"can0">>)>>,
    <<Udp(<<"ip0", "bad">>), Can(<<"long">>), Udp(<<"", "ip0">>)>>,
    <<Can(<<"can0">>), Udp(<<"">>)>> }

(* As many redundant interfaces as there can be.                           *)
ThreeUdp == {<<Udp(<<"ip0", "ip0", "ip0">>)>>}

(* More interfaces than descriptors for their sockets.                     *)
Crowded == {<<Udp(<<"ip0", "ip0", "ip0", "ip0">>)>>}

ThreeCan == {<<Can(<<"can0", "can1">>), Can(<<"can0">>)>>}

(* Every list of up to four names; the UDP ones follow an address that is  *)
(* not one, in an entry of its own.                                        *)
UpToFour(names) == UNION {[1..n -> names] : n \in 0..4}
Every ==
  {<<Can(names)>> : names \in UpToFour({"none", "can0", "can1"})}
  \cup {<<Udp(<<"bad">>), Can(<<"can0">>), Udp(texts)>> : texts \in UpToFour({"", "ip0"})}

SomeLists == Busy \cup ThreeUdp \cup Crowded \cup ThreeCan \cup Every

SomeTrials ==
  [l \in SomeLists |->
     CASE l \in Busy     -> Trial({"p1"}, 2, 2, {"socket", "memory", "factory", "nobufs"})
       [] l \in ThreeUdp -> Trial({"p1"}, 2, 1, {"socket", "memory"})
       [] l \in Crowded  -> Trial({"p1", "p2"}, 1, 0, {"socket", "memory"})
       [] l \in ThreeCan -> Trial(Ports, 0, 0, {"filter"})
       [] OTHER          -> Trial({}, 0, 0, {"socket", "factory"})]

=============================================================================
