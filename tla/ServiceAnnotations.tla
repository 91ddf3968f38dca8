------------------------- MODULE ServiceAnnotations -------------------------
(* The Kubernetes service of a dogu and its annotations, as CreateDoguService *)
(* makes them from the image config and the descriptor.                       *)
(*                                                                            *)
(* An image has exposed ports, and environment variables and labels of the    *)
(* form SERVICE_<property> or SERVICE_<port>_<property>: functions of         *)
(* <<port, property>>, with port 0 for the general ones.  A text is           *)
(* abstracted to its leading slashes and the rest; a list of tags to the set  *)
(* of its members in lower case.  An image is valid if all of these, and its   *)
(* ports, can be parsed.                                                      *)
EXTENDS GoCollections

Texts == [slashes : Nat, text : STRING]

EmptyText == [slashes |-> 0, text |-> ""]

\* What serviceAdditionalServices can be parsed to
CesServices == [name : Texts, port : Nat, location : Texts, pass : Texts,
                rewrite : Texts]

\* Variables that can be parsed
ProperVariables(vars) ==
    \A key \in DOMAIN vars :
        /\ key[2] \in {"NAME", "LOCATION", "PASS", "REWRITE"} => vars[key] \in Texts
        /\ key = <<0, "ADDITIONAL_SERVICES">> => vars[key] \in Seq(CesServices)

ProperImage(image) ==
    /\ IsFiniteSet(image.exposed)
    /\ image.exposed \subseteq [port : Nat, protocol : STRING]
    /\ ProperVariables(image.labels) /\ ProperVariables(image.env)

\* fmt.Sprintf("/%s", text)
Slashed(text) == [text EXCEPT !.slashes = @ + 1]

\* strings.HasPrefix(text, "/")
HasSlash(text) == text.slashes > 0

\* getServiceVariables: labels overrule environment variables.
ServiceVariables(image) ==
    [key \in DOMAIN image.labels \cup DOMAIN image.env |->
        IF key \in DOMAIN image.labels THEN image.labels[key] ELSE image.env[key]]

\* hasTag
HasTag(vars, port) ==
    <<port, "TAGS">> \in DOMAIN vars /\ "webapp" \in vars[<<port, "TAGS">>]

\* isServiceWebApp
IsServiceWebApp(exposed, vars) ==
    exposed.protocol = "TCP" /\ (HasTag(vars, 0) \/ HasTag(vars, exposed.port))

\* Mutated: the general variable overrules the one of the port.
GeneralFirst(vars, port, property) ==
    IF <<0, property>> \in DOMAIN vars THEN vars[<<0, property>>]
    ELSE IF <<port, property>> \in DOMAIN vars THEN vars[<<port, property>>]
    ELSE EmptyText

\* getValueFromServiceVariables
ValueFromServiceVariables(vars, port, property) ==
    IF <<port, property>> \in DOMAIN vars THEN vars[<<port, property>>]
    ELSE IF <<0, property>> \in DOMAIN vars THEN vars[<<0, property>>]
    ELSE EmptyText

\* getServiceName
ServiceName(vars, port, name) ==
    LET value == ValueFromServiceVariables(vars, port, "NAME")
    IN  IF value = EmptyText THEN name ELSE value

\* Mutated: only the default gets a slash.
PathAsGiven(vars, port, property, name) ==
    LET value == ValueFromServiceVariables(vars, port, property)
    IN  IF value = EmptyText THEN Slashed(name) ELSE value

\* getServiceLocation and getServicePass
ServicePath(vars, port, property, name) ==
    LET value == ValueFromServiceVariables(vars, port, property)
    IN  IF value = EmptyText THEN Slashed(name)
        ELSE IF HasSlash(value) THEN value ELSE Slashed(value)

\* An entry of the annotation, in createWebAppCesServices
WebAppCesService(vars, port, dogu) ==
    LET name == ServiceName(vars, port, dogu)
    IN  [name |-> name, port |-> port,
         location |-> ServicePath(vars, port, "LOCATION", name),
         pass |-> ServicePath(vars, port, "PASS", name),
         rewrite |-> ValueFromServiceVariables(vars, port, "REWRITE")]

\* createWebAppCesServices, for the exposed ports in the order of the map
WebAppCesServices(order, vars, dogu) ==
    AppendAll([i \in DOMAIN order |->
        IF IsServiceWebApp(order[i], vars)
        THEN << WebAppCesService(vars, order[i].port, dogu) >> ELSE <<>>])

\* getDefaultPortFromService
DefaultPort(ports) == IF ports = <<>> THEN 0 ELSE ports[1].port

\* createAdditionalCesServices
AdditionalCesServices(vars, defaultPort) ==
    LET key == <<0, "ADDITIONAL_SERVICES">>
        path(text) == IF HasSlash(text) THEN text ELSE Slashed(text)
    IN  IF key \notin DOMAIN vars THEN <<>>
        ELSE [i \in DOMAIN vars[key] |->
                 [vars[key][i] EXCEPT !.location = path(@), !.pass = path(@),
                                      !.port = IF @ = 0 THEN defaultPort ELSE @]]

\* CesExposedPortAnnotator.AnnotateService
ExposedPortAnnotation(exposedPorts) ==
    [i \in DOMAIN exposedPorts |->
        [protocol |-> exposedPorts[i].type,
         port |-> exposedPorts[i].container,
         targetPort |-> exposedPorts[i].host]]

\* CreateDoguService: the services it may return.  Go iterates over the
\* exposed ports in any order, once for the ports and once for the annotation.
CreateDoguServices(image, exposedPorts, dogu) ==
    LET vars == ServiceVariables(image)
    IN  {[ports |-> ports,
          ces |-> WebAppCesServices(order, vars, dogu)
                  \o AdditionalCesServices(vars, DefaultPort(ports)),
          exposed |-> ExposedPortAnnotation(exposedPorts)] :
            ports \in MapOrders(image.exposed),
            order \in MapOrders(image.exposed)}

\* The service has the annotation of the ces services (appendServiceAnnotations)
HasCesServices(service) == service.ces # <<>>

\* What the API server takes: a service has ports, and their names, which
\* CreateDoguService makes of the numbers alone, are different.
PortsAccepted(image) ==
    /\ image.exposed # {}
    /\ \A x, y \in image.exposed : x.port = y.port => x = y

-----------------------------------------------------------------------------
(* Reference definitions                                                    *)

\* The name of the dogu
Name == [slashes |-> 0, text |-> "dogu"]

\* The value of a property in one scope (a port, or 0 for all ports): a label
\* counts before an environment variable.
Scoped(image, scope, property, default) ==
    LET key == <<scope, property>>
    IN  IF key \in DOMAIN image.labels THEN image.labels[key]
        ELSE IF key \in DOMAIN image.env THEN image.env[key] ELSE default

\* The most specific value of a property
Setting(image, port, property) ==
    LET general == Scoped(image, 0, property, EmptyText)
    IN  Scoped(image, port, property, general)

\* TCP ports of an image that are tagged as web applications
WebApps(image) ==
    {e.port : e \in {x \in image.exposed :
        /\ x.protocol = "TCP"
        /\ \E scope \in {0, x.port} :
               "webapp" \in Scoped(image, scope, "TAGS", {})}}

\* A path is what the image sets, or the default, from the root.
IsPath(path, setting, default) ==
    /\ path.slashes >= 1
    /\ path.text = IF setting = EmptyText THEN default.text ELSE setting.text

\* An entry of the annotation stands for a web application of the image.
IsEntry(e, image) ==
    LET setting == [p \in {"NAME", "LOCATION", "PASS", "REWRITE"} |->
                       Setting(image, e.port, p)]
    IN  /\ e.name = IF setting["NAME"] = EmptyText THEN Name ELSE setting["NAME"]
        /\ IsPath(e.location, setting["LOCATION"], e.name)
        /\ IsPath(e.pass, setting["PASS"], e.name)
        /\ e.rewrite = setting["REWRITE"]

\* What the image asks for in addition
AdditionalServices(image) ==
    Scoped(image, 0, "ADDITIONAL_SERVICES", <<>>)

\* The service shows what the image of a version declares.
Shows(s, dogu) ==
    LET image == dogu.image
        n     == Cardinality(WebApps(image))
        more  == AdditionalServices(image)
    IN  /\ s.exists
        /\ Range(s.ports) = image.exposed
        /\ Len(s.ces) = n + Len(more)
        /\ {s.ces[i].port : i \in 1..n} = WebApps(image)
        /\ \A i \in 1..n : IsEntry(s.ces[i], image)
        /\ \A i \in DOMAIN more :
               LET e == s.ces[n + i]
               IN  /\ e.name = more[i].name /\ e.rewrite = more[i].rewrite
                   /\ IsPath(e.location, more[i].location, more[i].location)
                   /\ IsPath(e.pass, more[i].pass, more[i].pass)
                   /\ IF more[i].port # 0 THEN e.port = more[i].port
                      ELSE \E x \in image.exposed : e.port = x.port
        /\ {<<e.port, e.targetPort>> : e \in Range(s.exposed)}
           = {<<e.container, e.host>> : e \in Range(dogu.exposedPorts)}
=============================================================================
