---------------------------- MODULE MCEcosystem ----------------------------
(* Scenarios of up to three dogus.                                            *)
EXTENDS Ecosystem

CONSTANTS a, b, c, nginx

None == [d \in Dogus |-> {}]

Any == [d \in Dogus |-> [e \in Dogus |-> Versions]]

Base == [mandatory |-> None, optional |-> None, allows |-> Any,
         client |-> [d \in Dogus |-> TRUE], running |-> {}, created |-> {}, edited |-> {},
         specEdits |-> 0, configEdits |-> 0, faults |-> 0]

\* One dogu, whose configs are edited.
OneDogu == [Base EXCEPT !.created = {a}, !.configEdits = 2, !.faults = 1]

\* Another one needs it.
TwoDogus == [Base EXCEPT !.mandatory = [None EXCEPT ![b] = {a, nginx}],
                         !.running = {a, b}, !.configEdits = 1]

\* A chain; what is needed comes later, stopped or in a version too low.
Chain == [Base EXCEPT !.mandatory = [None EXCEPT ![b] = {a}, ![c] = {b}],
                      !.optional = [None EXCEPT ![c] = {a}],
                      !.allows = [Any EXCEPT ![b][a] = {2}],
                      !.created = {b, c}, !.edited = {a, b}, !.specEdits = 2]

\* Two dogus that need each other, a third that would use one of them.
Waiting == [Base EXCEPT !.mandatory = [None EXCEPT ![a] = {b}, ![b] = {a}],
                        !.optional = [None EXCEPT ![c] = {a, nginx}],
                        !.client = [@ EXCEPT ![b] = FALSE],
                        !.created = Dogus]

MCScenarios == {OneDogu, TwoDogus, Chain, Waiting}
=============================================================================
