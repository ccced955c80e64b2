------------------------------- MODULE MCPages -------------------------------
\* A service with a plain and a secure router, and a container run by hand.
EXTENDS Pages

ConstKeyOrder == <<labelNumber, labelService, <<"maintainer", 0, "">>, LabelImageTitle,
                   <<"traefik", 1, "rule">>, <<"traefik", 2, "rule">>,
                   <<"traefik", 2, "tls">> >>

Web == <<80, "tcp">>
Metrics == <<90, "tcp">>
SameNumber == {<<53, "udp">>, <<53, "sctp">>}

web == <<119, 101, 98>>

ConstDescription == {
    [id |-> <<100>>, name |-> "project-web-1", tty |-> FALSE, families |-> {4, 6},
     labels |-> labelService :> web @@ labelNumber :> 2
                @@ <<"maintainer", 0, "">> :> "someone"
                @@ <<"traefik", 1, "rule">> :> "plain.example"
                @@ <<"traefik", 2, "rule">> :> "example"
                @@ <<"traefik", 2, "tls">> :> "true",
     exposed |-> {Web, Metrics}, bindings |-> Web :> <<8080>>, exit |-> 137,
     env |-> <<[key |-> 2, value |-> "plain"], [key |-> 1, value |-> "hidden"],
               [key |-> 3, value |-> None]>>,
     mounts |-> <<[type |-> "volume", name |-> "data", source |-> "/var/data", destination |-> 2],
                  [type |-> "bind", name |-> None, source |-> "/etc", destination |-> 1]>>,
     networks |-> 1 :> [id |-> "front"] @@ 2 :> [id |-> None]],
    [id |-> <<101>>, name |-> <<98, 121>>, tty |-> TRUE, families |-> {4},
     labels |-> labelNumber :> 0 @@ LabelImageTitle :> "Title"
                @@ <<"traefik", 1, "rule">> :> None
                @@ <<"traefik", 2, "rule">> :> "plain.example",
     exposed |-> SameNumber, bindings |-> Web :> <<None, 8081>>, exit |-> 0,
     env |-> <<>>, mounts |-> <<>>, networks |-> 1 :> None @@ 2 :> [id |-> "back"]]}

\* Replicas of a scaled service, one whose name begins like it, and two whose
\* names and numbers are the same.
ConstMember == {
    [ContainerID |-> <<100>>, Name |-> web, Number |-> 2, URL |-> "link"],
    [ContainerID |-> <<99>>, Name |-> web, Number |-> 10, URL |-> None],
    [ContainerID |-> <<98>>, Name |-> web, Number |-> 10, URL |-> None],
    [ContainerID |-> <<97>>, Name |-> web \o <<45>>, Number |-> 1, URL |-> "link"]}
=============================================================================
