---------------------------- MODULE MCDoguObjects ----------------------------
EXTENDS DoguObjects, TLC

Empty == <<>>

Text(slashes, text) == [slashes |-> slashes, text |-> text]

Port(port, protocol) == [port |-> port, protocol |-> protocol]

Image(exposed, env, labels) ==
    [valid |-> TRUE, exposed |-> exposed, env |-> env, labels |-> labels]

PlainImage == Image({Port(80, "TCP")}, <<0, "TAGS">> :> {"webapp"}, Empty)

\* One of two ports is marked as the web application.
MarkedPort == Image({Port(80, "TCP"), Port(81, "TCP")}, <<81, "TAGS">> :> {"webapp"}, Empty)

Dep(type, name) == [type |-> type, name |-> name]

Vol(name, path, client, backup) ==
    [name |-> name, path |-> path, client |-> client, backup |-> backup,
     owned |-> TRUE]

LocalConfig == Vol("localConfig", "/local", "none", FALSE)

Data == Vol("data", "/data", "none", TRUE)

Descriptor(version, deps, volumes, exposedPorts, image) ==
    [version |-> version, dependencies |-> deps, volumes |-> volumes,
     exposedPorts |-> exposedPorts, image |-> image]

From(type, name, volume) ==
    [type |-> type, name |-> name, volume |-> volume, subfolder |-> ""]

Asked(version, mounts, export) ==
    [version |-> version, mounts |-> mounts, export |-> export]

\* The upgrade changes ports, settings and dependencies of a web application, and
\* makes two of it.
Ports ==
    [descriptors |-> <<
        Descriptor(1, << Dep("dogu", "cas"), Dep("component", "k8s-db"),
                         Dep("package", "cesappd") >>,
                   <<>>, << [type |-> "tcp", container |-> 22, host |-> 2222] >>,
            Image({Port(80, "TCP"), Port(53, "UDP")},
                  <<0, "TAGS">> :> {"webapp"} @@ <<0, "NAME">> :> Text(0, "app"),
                  <<0, "LOCATION">> :> Text(0, "here")
                  @@ <<80, "PASS">> :> Text(1, "pass"))),
        Descriptor(2, << Dep("dogu", "postfix"), Dep("component", "k8s-db") >>,
                   <<>>, <<>>,
            Image({Port(80, "TCP"), Port(443, "TCP")},
                  <<0, "TAGS">> :> {"admin"} @@ <<80, "TAGS">> :> {"webapp"}
                  @@ <<443, "TAGS">> :> {"webapp", "x"}
                  @@ <<443, "NAME">> :> Text(0, "secure")
                  @@ <<443, "LOCATION">> :> Text(0, "port")
                  @@ <<0, "LOCATION">> :> Text(0, "general")
                  @@ <<0, "REWRITE">> :> Text(0, "env"),
                  <<0, "REWRITE">> :> Text(0, "label")
                  @@ <<0, "ADDITIONAL_SERVICES">> :>
                      << [name |-> Text(0, "docs"), port |-> 0,
                          location |-> Text(0, "docs"), pass |-> Text(1, "docs"),
                          rewrite |-> EmptyText] >>)) >>,
     specs |-> {Asked(1, <<>>, FALSE), Asked(2, <<>>, FALSE)},
     first |-> Asked(1, <<>>, FALSE),
     sources |-> {}, configs |-> Configs,
     editWhen |-> "betweenPasses", edits |-> 2, faults |-> 2]

\* Mounts and version change at any time between passes; the volumes are the
\* same in both versions.
Mounts ==
    [descriptors |-> <<
        Descriptor(1, << Dep("dogu", "cas") >>, << LocalConfig, Data >>, <<>>,
                   PlainImage),
        Descriptor(2, << Dep("dogu", "cas") >>, << Data, LocalConfig >>, <<>>,
                   PlainImage) >>,
     specs |-> {Asked(1, <<>>, FALSE), Asked(2, <<>>, FALSE)}
               \cup {Asked(v, << From("ConfigMap", "a", "data") >>, FALSE) : v \in 1..2}
               \cup {Asked(v, << From("Secret", "b", "localConfig"),
                                 From("ConfigMap", "a", "data") >>, FALSE) : v \in 1..2},
     first |-> Asked(1, << From("ConfigMap", "a", "data") >>, FALSE),
     sources |-> {<<"ConfigMap", "a">>}, configs |-> [policies : {TRUE}, image : {"1", "2"}],
     editWhen |-> "betweenPasses", edits |-> 3, faults |-> 2]

\* The upgrade adds a dependency and volumes while mounts change with it.
Upgrade ==
    [descriptors |-> <<
        Descriptor(1, <<>>, << LocalConfig, Data >>, <<>>, PlainImage),
        Descriptor(2, << Dep("dogu", "cas"), Dep("client", "cli") >>,
                   << LocalConfig, Data, Vol("more", "/more", "none", TRUE),
                      Vol("client", "/client", "operator", FALSE),
                      Vol("foreign", "/foreign", "other", FALSE) >>, <<>>,
                   PlainImage) >>,
     specs |-> {Asked(v, << From("Secret", "b", "data") >>, TRUE) : v \in 1..2}
               \cup {Asked(v, << From("ConfigMap", "a", "data"),
                                 From("ConfigMap", "a", "localConfig") >>, TRUE) : v \in 1..2},
     first |-> Asked(1, << From("Secret", "b", "data") >>, TRUE),
     sources |-> {<<"ConfigMap", "a">>, <<"Secret", "b">>},
     configs |-> [policies : BOOLEAN, image : {"1"}],
     editWhen |-> "settled", edits |-> 3, faults |-> 2]

\* Specs that cannot be met: a volume with a client, one that does not exist, a
\* mount that is there twice, a source named like another volume; and a second
\* version with an unsupported client, a third with variables that cannot be
\* parsed, a fourth without local config, a fifth with two ports of one name.
Invalid ==
    LET a == From("ConfigMap", "a", "data")
        volumes == << LocalConfig, Data, Vol("client", "/client", "operator", FALSE) >>
        mounts == {<<a>>, <<a, a>>, << From("ConfigMap", "a", "client") >>,
                   << From("ConfigMap", "a", "none") >>,
                   << From("ConfigMap", "global-config", "data") >>}
    IN  [descriptors |-> <<
            Descriptor(1, <<>>, volumes, <<>>, MarkedPort),
            Descriptor(2, <<>>, << LocalConfig, Data, Vol("u", "/u", "unsupported", TRUE) >>,
                       <<>>, PlainImage),
            Descriptor(3, <<>>, volumes, <<>>, [PlainImage EXCEPT !.valid = FALSE]),
            Descriptor(4, <<>>, << Data >>, <<>>, PlainImage),
            Descriptor(5, <<>>, volumes, <<>>,
                Image({Port(53, "TCP"), Port(53, "UDP")}, Empty, Empty)) >>,
         specs |-> {Asked(v, <<>>, FALSE) : v \in 1..5}
                   \cup {Asked(1, m, FALSE) : m \in mounts} \cup {Asked(4, <<a>>, FALSE)},
         first |-> Asked(1, <<>>, FALSE),
         sources |-> {<<"ConfigMap", "a">>, <<"ConfigMap", "global-config">>},
         configs |-> {}, editWhen |-> "deployed", edits |-> 2, faults |-> 1]

\* The first version has a volume whose owner cannot be parsed.
Broken ==
    [Invalid EXCEPT !.descriptors[1].volumes[1].owned = FALSE, !.edits = 0]

\* A volume that only the second version has is asked for with the upgrade.
NewVolume ==
    [descriptors |-> <<
        Descriptor(1, <<>>, << LocalConfig >>, <<>>, PlainImage),
        Descriptor(2, <<>>, << LocalConfig, Data >>, <<>>, PlainImage) >>,
     specs |-> {Asked(1, <<>>, FALSE),
                Asked(2, << From("ConfigMap", "a", "data") >>, FALSE)},
     first |-> Asked(1, <<>>, FALSE),
     sources |-> {<<"ConfigMap", "a">>}, configs |-> {},
     editWhen |-> "settled", edits |-> 1, faults |-> 0]

AllScenarios == <<Ports, Mounts, Upgrade, Invalid, Broken>>

OnlyNewVolume == <<NewVolume>>
=============================================================================
