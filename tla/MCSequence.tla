---------------------------- MODULE MCSequence ----------------------------
EXTENDS SequenceRoundTrip
MCRequests == {<<"GET", "/", "name">>, <<"GET", "/a", "name">>, <<"GET", "/", "[::1]">>}
MCBadHosts == {"[::1]"}
MCAnswers  == {OK, <<"503", "Unavailable">>}
MCConfigs  == {{}, {"calls", "returns", "logs", "track"}}
=============================================================================
