SPECIFICATION KeyboardSpec
CONSTANTS
  c1 = c1
  c2 = c2
  lyrics = lyrics
  render = render
  goneScript = goneScript
  Clients <- MCClients
  Scripts <- MCScripts
  Instances <- MCInstances
  MaxChanges = 2
INVARIANT CleanRemovesTheMissing
