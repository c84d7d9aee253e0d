-------------------------- MODULE MCFirmwareImages --------------------------
(* A delivered image, one that is newer, one that is newer and does not start, one that is
   older by its third number, and one of another project *)
EXTENDS FirmwareImages

Image(version, defect) == [version |-> version, project |-> "gateway", defect |-> defect]
Delivered == Image(<<1, 2, 1>>, None)
SomeImages ==
    {Delivered, Image(<<1, 3>>, None), Image(<<1, 3>>, "mqtt"), Image(<<1, 2>>, None),
     [Image(<<1, 3>>, None) EXCEPT !.project = "other"]}
OnlyDelivered == {Delivered}

Manifest(version, project, allow) ==
    [version |-> version, project |-> project, schema |-> 0, allowDowngrade |-> allow,
     signature |-> None, fits |-> TRUE]
Signed(manifest) == [manifest EXCEPT !.signature = Payload([manifest EXCEPT !.schema = 1])]
SomeManifests ==
    {Manifest(<<1, 3>>, None, FALSE), Manifest(<<1, 2>>, None, FALSE),
     Signed([Manifest(<<1, 2>>, "gateway", TRUE) EXCEPT !.schema = 1]),
     Manifest(None, "gateway", FALSE), [Manifest(<<1, 3>>, None, TRUE) EXCEPT !.schema = 2]}

OldRcp == [version |-> <<1>>]
NewRcp == [version |-> <<2>>]
BothRcp == {OldRcp, NewRcp}
SomeRequests == {[digest |-> NewRcp, version |-> None], [digest |-> None, version |-> <<2>>]}

ASSUME SomeVersions == VersionsAreNumbers
=============================================================================
