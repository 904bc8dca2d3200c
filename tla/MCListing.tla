------------------------------ MODULE MCListing ------------------------------
EXTENDS Listing

\* Below 1, in range, above the maximum, and beyond the int32.
AskedOf == {0, 1, 2, 3, 5, 8}
==============================================================================
