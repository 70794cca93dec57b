---------------------------- MODULE MCConfigLoad ----------------------------
(* The configuration of files of two repositories with up to six namespaces,
   and, apart from it, lookups in hash tables. *)
EXTENDS ConfigLoad, HashRing
NoElem == [kind |-> "", name |-> "", repo |-> 0, nstgt |-> <<>>]
Ev(ev) == [ev |-> ev, elem |-> NoElem, perms |-> {}, data |-> <<>>, ok |-> TRUE]
Nsp(k, n, r, t, in) ==
  <<[Ev("ns") EXCEPT !.elem = [kind |-> k, name |-> n, repo |-> r, nstgt |-> t]]>> \o in \o <<Ev("/ns")>>
Ns(n, in) == Nsp("ns", n, 0, <<>>, in)
Rns(n, r) == Nsp("rns", n, r, <<>>, <<>>)
Gns(n, t) == Nsp("gns", n, 1, t, <<>>)
Allow(ps) == <<[Ev("perms") EXCEPT !.perms = ps]>>
Data(ds) == <<[Ev("data") EXCEPT !.data = ds]>>
RepoOf(ds, in, mdal) ==
  <<Ev("repo")>> \o Data(ds) \o <<Ev("meta")>> \o in \o <<[Ev("/meta") EXCEPT !.ok = mdal], Ev("/repo")>>
GoodData == <<"protection", "pods", "caps", "scatters", "dal">>

Subs == {Ns("x", <<>>), Ns("y", <<>>), Rns("x", 2), Rns("x", 1), Ns("x", Ns("y", <<>>)),
         Ns("x", Rns("y", 2))}
          \cup {Gns("g", t) : t \in {<<>>, <<"x">>, <<"x", "y">>, <<"g">>}}
          \cup {Ns("x", Gns("g", t)) : t \in {<<>>, <<"x">>}}
          \cup {Ns("y", Gns("g", t)) : t \in {<<"x">>, <<"y", "g">>}}
Bodies == {<<>>} \cup Subs \cup {a \o b : a, b \in Subs}
Seconds == {<<>>, Ns("x", <<>>), Ns("x", Ns("y", <<>>)), Ns("x", Rns("y", 1)), Ns("y", <<>>),
            Ns("x", Gns("g", <<"x">>)), Ns("x", Allow({"r"}) \o Ns("y", <<>>)), Ns("root", <<>>)}
Extras == {<<>>, Ns("y", <<>>), Ns("y", Rns("x", 2))}
WithRoot(b, e, s) ==
  RepoOf(GoodData, Allow(IF e = <<>> THEN {} ELSE {"r"}) \o Ns("root", b) \o e, TRUE) \o RepoOf(<<"dal">>, s, TRUE)
Good == {WithRoot(b, <<>>, s) : b \in Bodies, s \in Seconds}
          \cup {WithRoot(b, e, s) : b \in Subs, e \in Extras, s \in Seconds}
Bad == {RepoOf(d, Ns("root", Ns("x", i \o Ns("y", j))), m) \o
          <<Ev("repo")>> \o Data(<<"dal">>) \o <<Ev("/repo")>> :
          d \in {<<"dal">>, <<"pods", "pods", "dal">>, <<"zero", "dal">>, <<"dal", "dal">>},
          i \in {<<>>, Ns("y", <<>>)}, j \in {<<>>, <<Ev("bad")>>}, m \in BOOLEAN}
MCConfigFiles == Good \cup Bad
MCDisks == {{}, {<<1, <<>>>>, <<1, <<"x">>>>, <<1, <<"x", "y">>>>, <<2, <<"x", "y">>>>}}
MCMdal == <<"posix", "posix">>
MCStrings == {<<7>>, <<8>>, <<9>>}
MCIdentifiers == 0..2
MCWeights == {<<1>>, <<1, 1>>, <<2, 0>>, <<0, 1, 2>>, <<0, 0>>}
MCBreadths == {<<2, 1>>, <<2, 2>>}

ConfigVars == <<cfgvars, ringvars>>
NoConfigOrRing == NoConfig /\ InitIdle
ConfigOrRing == (InitConfig /\ InitIdle) \/ (NoConfig /\ (InitDirect \/ InitWeighted))
ConfigNext == (LoadNext /\ UNCHANGED ringvars) \/ (hash_lookup /\ UNCHANGED cfgvars)
=============================================================================
