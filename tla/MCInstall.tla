------------------------------ MODULE MCInstall ------------------------------
EXTENDS Install
CONSTANTS a, b, c
Installers == {a, b, c}
=============================================================================
