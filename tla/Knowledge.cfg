SPECIFICATION Spec
CONSTANTS
  s1 = s1  n1 = n1  n2 = n2  d1 = d1  d2 = d2
  Subs <- MCSubs  Names <- MCNames  Dois <- MCDois  Abstracts <- MCDois
  Seeds <- MCSeeds  Offers <- MCOffers
  Problem = Problem  Missing = Missing  Torn = Torn
  MaxLoads = 1  MaxScreens = 2  MaxCrashes = 1  MaxBuilds = 2
  Builders = {b1, b2}  Ids = {r1, r2}
SYMMETRY MCSymmetry
INVARIANTS ReleasesAreSound
  
CHECK_DEADLOCK FALSE
