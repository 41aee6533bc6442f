--------------------------- MODULE MCControlPlane ---------------------------
\* Instances for TLC.  A behaviour follows one subject: the front door, with
\* time and the limiter on; or the service routes, with requests that overlap
\* or with more of them that follow one another.
EXTENDS ControlPlane, TLC

Door == [limit |-> 1, ticks |-> 2, sends |-> 3, oidcExpires |-> 1,
         requests |-> {<<"hub", "read">>, <<"local", "read">>, <<"oidc", "read">>, <<"bootstrap", "account">>}]
Overlap == [limit |-> 0, ticks |-> 0, sends |-> 4, oidcExpires |-> 0,
            requests |-> {<<"bootstrap", "services">>, <<"hub", "services">>}]
Sequence == [Overlap EXCEPT !.sends = 6, !.requests = {<<"bootstrap", "services">>}]
Subjects == {Door, Overlap, Sequence}

Users == {[admin |-> FALSE, groups |-> {"staff", "admins"}],
          [admin |-> FALSE, groups |-> {"staff", "viewers"}],
          [admin |-> FALSE, groups |-> {}]}

\* Where the door is followed, no service is started; where requests follow one
\* another, the Hub is not asked.  Requests that meet say nothing of a kind so
\* long that all sources share one name.
MCInit ==
    /\ Init
    /\ conf = Door => backend = "docker" /\ kind = "short"
    /\ conf = Sequence => hub.groups = {}
    /\ conf = Overlap => kind # "long"

\* The requests of a sequence do not overlap.
OneAtATime == \A c, d \in Callers : c # d => req[c] = Idle \/ req[d] = Idle

MCNext == Next /\ (conf = Sequence => OneAtATime')

MCSpec == MCInit /\ [][MCNext]_vars

Symmetry == Permutations(Callers) \cup Permutations(Sources)

=============================================================================
