--------------------------- MODULE MCConfiguration ---------------------------
(* A small configuration, over the flashes that versions of the program leave *)
EXTENDS Configuration

Plain == [timeout |-> 5, retries |-> 1, profiles |-> <<<<>>, <<>>>>]
Blank == [key \in Keys |-> Absent]
Filled(words) == [key \in Keys |->
    IF \E word \in words : word[1] = key
    THEN (CHOOSE word \in words : word[1] = key)[2] ELSE Absent]
LegacySlot(i, profile) == {<<<<Legacy[w], i>>, profile[w]>> : w \in 1..4}

Temperature == <<1, 1, 2, 3>>
Faster == <<1, 1, 1, 4>>
Contact == <<2, 2, 1, 3>>
Motion == <<2, 3, 2, 3>>

\* Two settings, one of them no longer valid
VersionOne == [
    flash |-> Filled({<<Key("schema"), 1>>, <<Key("legacy timeout"), 9>>,
                      <<Key("legacy retries"), 99>>}),
    config |-> [Plain EXCEPT !.timeout = 9]]

\* A profile whose words are not all there, then one that is whole
VersionTwo == [
    flash |-> Filled({<<Key("schema"), 2>>, <<Key("timeout"), 9>>, <<Key("retries"), 4>>,
                      <<Key("legacy count"), 2>>, <<<<Legacy[1], 1>>, 2>>}
                     \cup LegacySlot(2, Temperature)),
    config |-> [timeout |-> 9, retries |-> 4, profiles |-> <<Temperature, <<>>>>]]

Fresh == [flash |-> Blank, config |-> Plain]

\* The key of the schema was lost
Unversioned == [
    flash |-> Filled({<<Key("schema"), 0>>, <<Key("timeout"), 6>>}),
    config |-> [Plain EXCEPT !.timeout = 6]]

\* A later version was here
Future == [flash |-> Filled({<<Key("schema"), 4>>}), config |-> Plain]

AllOlds == {Fresh, VersionOne, VersionTwo, Unversioned, Future}
SomeChanges == {[timeout |-> 7, retries |-> Absent], [timeout |-> 8, retries |-> 2]}
SomeProfiles == {Temperature, Faster, Contact, Motion}
=============================================================================
