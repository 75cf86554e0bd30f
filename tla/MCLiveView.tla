------------------------------ MODULE MCLiveView ------------------------------
\* Two pages opened in turn, two network losses, a second login.
EXTENDS LiveView
===============================================================================
