-------------------------- MODULE MCLicenseHeader --------------------------
(* Model values and small contents for LicenseHeader.                      *)
EXTENDS LicenseHeader

CONSTANTS g1, g2, g3, a, b

MCFiles == {g1, g2, g3}
MCBody == {a, b}

MCInitContents ==
    {[text |-> <<a, b>>, utf8 |-> TRUE],
     [text |-> <<a>>, utf8 |-> TRUE],
     [text |-> LICENSE_HEADER \o <<b>>, utf8 |-> TRUE],
     [text |-> <<b>>, utf8 |-> FALSE]}
=============================================================================
